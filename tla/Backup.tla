------------------------------- MODULE Backup -------------------------------
(***************************************************************************)
(* Export and import (internal/backup): a document names rooms, containers *)
(* and items instead of numbering them, and an import matches every entry  *)
(* by name, checks the whole document, and then creates, updates or leaves *)
(* alone one entity at a time, each in a transaction of its own. It can    *)
(* stop between any two. Other requests write while no import runs.        *)
(***************************************************************************)
EXTENDS Repositories, FiniteSets

CONSTANTS
  Documents,  \* the documents that are imported
  Written,    \* names as a document may spell them, blanks around included;
              \* numbers, for their order
  Trim,       \* the name each of them is stored under
  Text,       \* the remaining fields of an entry as a document spells them
  Stored,     \* and as the database reads them back: tags in order
  NoName      \* no parent, or no container

Spelled(T, kept, f) ==
  kept \subseteq T /\ f \in [T -> kept] /\ \A x \in kept : f[x] = x

ASSUME TrimAssumption   == Written \subseteq Int /\ Spelled(Written, Name, Trim)
ASSUME StoredAssumption == Spelled(Text, Detail, Stored)

VARIABLES
  doc,        \* the document being imported, or the one that is settled
  world,      \* what the import knows, by the names of the document
  done,       \* the entries it has applied
  status,     \* "idle", "applying", or "refused"
  wrote,      \* history: has the import written?
  settled     \* history: the inventory is what an import of doc left

vars == <<db, audit, doc, world, done, status, wrote, settled>>

(* Documents. Each kind of entry is a function from what identifies it.    *)
ContainerKey(room, name)            == [room |-> room, name |-> name]
ItemKey(kind, room, container, name) ==
  [kind |-> kind, room |-> room, container |-> container, name |-> name]

ContainerKeys == [room : Written, name : Written]
ItemKeys ==
  [kind : {"room"}, room : Written, container : {NoName}, name : Written] \cup
  [kind : {"container"}, room : Written, container : Written, name : Written]

IsDocument(d) ==
  /\ DOMAIN d.rooms \subseteq Written /\ d.rooms \in [DOMAIN d.rooms -> Text]
  /\ DOMAIN d.containers \subseteq ContainerKeys /\ IsFiniteSet(DOMAIN d.containers)
  /\ d.containers \in [DOMAIN d.containers -> [parent : Written \cup {NoName}, detail : Text]]
  /\ DOMAIN d.items \subseteq ItemKeys /\ d.items \in [DOMAIN d.items -> Text]

ASSUME DocumentsAssumption == NoName \notin Written /\ \A d \in Documents : IsDocument(d)

TheOne(S) == CHOOSE x \in S : TRUE

-----------------------------------------------------------------------------
(* Export: three listings, and every id turned into the name it stands for. *)

RoomName(d, r) == d.rooms[r].name
KeyOf(d, c) == ContainerKey(RoomName(d, d.containers[c].room), d.containers[c].name)
ItemKeyOf(d, i) ==
  LET at == d.items[i].location IN
  IF at.kind = "room" THEN ItemKey("room", RoomName(d, at.id), NoName, d.items[i].name)
  ELSE ItemKey("container", KeyOf(d, at.id).room, KeyOf(d, at.id).name, d.items[i].name)

\* The id behind each name: what check indexes the listings by.
World(d) ==
  [rooms |-> [n \in {RoomName(d, r) : r \in DOMAIN d.rooms} |->
                TheOne({r \in DOMAIN d.rooms : RoomName(d, r) = n})],
   containers |-> [k \in {KeyOf(d, c) : c \in DOMAIN d.containers} |->
                     TheOne({c \in DOMAIN d.containers : KeyOf(d, c) = k})],
   items |-> [k \in {ItemKeyOf(d, i) : i \in DOMAIN d.items} |->
                TheOne({i \in DOMAIN d.items : ItemKeyOf(d, i) = k})]]

Export(d) ==
  LET w == World(d) IN
  [rooms |-> [n \in DOMAIN w.rooms |-> d.rooms[w.rooms[n]].detail],
   containers |-> [k \in DOMAIN w.containers |->
     LET row == d.containers[w.containers[k]] IN
     [parent |-> IF row.parent = Nil THEN NoName ELSE d.containers[row.parent].name,
      detail |-> row.detail]],
   items |-> [k \in DOMAIN w.items |-> d.items[w.items[k]].detail]]

-----------------------------------------------------------------------------
(* check: the document against the inventory as listed, before any write.  *)

\* The key of the container a declared one hangs from.
ParentKey(d, k) == ContainerKey(k.room, d.containers[k].parent)

\* k and the declared containers above it.
Chain(d, k) ==
  {x \in DOMAIN d.containers :
     \A S \in SUBSET DOMAIN d.containers :
       (/\ k \in S
        /\ \A y \in S : ParentKey(d, y) \in DOMAIN d.containers => ParentKey(d, y) \in S)
       => x \in S}

Depth(d, k) == Cardinality(Chain(d, k))

InCircle(d, k) ==
  ParentKey(d, k) \in DOMAIN d.containers /\ k \in Chain(d, ParentKey(d, k))

KnownRooms(d, w) == DOMAIN w.rooms \cup {Trim[n] : n \in DOMAIN d.rooms}
KnownContainers(d, w) == DOMAIN w.containers \cup DOMAIN d.containers

Accepts(d, w) ==
  /\ \A n, m \in DOMAIN d.rooms : Trim[n] = Trim[m] => n = m
  /\ \A k \in DOMAIN d.containers :
       /\ k.room \in KnownRooms(d, w)
       /\ d.containers[k].parent # NoName => ParentKey(d, k) \in KnownContainers(d, w)
       /\ ~InCircle(d, k)
  /\ \A k, l \in DOMAIN d.items :
       [k EXCEPT !.name = Trim[@]] = [l EXCEPT !.name = Trim[@]] => k = l
  /\ \A k \in DOMAIN d.items :
       IF k.kind = "room" THEN k.room \in KnownRooms(d, w)
       ELSE ContainerKey(k.room, k.container) \in KnownContainers(d, w)

-----------------------------------------------------------------------------
Nothing == [rooms |-> NoRows, containers |-> NoRows, items |-> NoRows]

Init ==
  /\ INV!Init
  /\ doc = Nothing /\ world = Nothing /\ done = {}
  /\ status = "idle" /\ wrote = FALSE /\ settled = FALSE

\* Between imports, what the last one knew is gone.
Forget(kept) == doc' = kept /\ world' = Nothing /\ done' = {}

\* The other requests.
Outside ==
  /\ status # "applying"
  /\ INV!Next
  /\ settled' = (settled /\ db' = db)
  /\ Forget(IF settled' THEN doc ELSE Nothing)
  /\ status' = "idle" /\ wrote' = FALSE

Start(d) ==
  /\ status # "applying"
  /\ settled' = (settled /\ d = doc)
  /\ wrote' = FALSE
  /\ IF Accepts(d, World(db))
     THEN status' = "applying" /\ doc' = d /\ world' = World(db) /\ done' = {}
     ELSE status' = "refused" /\ Forget(IF settled' THEN doc ELSE Nothing)
  /\ UNCHANGED <<db, audit>>

\* An entry was created or updated, and is known from here on by its name.
Saved(entry, named) ==
  /\ done' = done \cup {entry} /\ world' = named /\ wrote' = TRUE
  /\ UNCHANGED <<doc, status, settled>>

\* An entry already stands as the document says.
Unchanged(entry) ==
  /\ done' = done \cup {entry}
  /\ UNCHANGED <<db, audit, doc, world, status, wrote, settled>>

\* The repository refuses an entry, and the import ends there.
Refuse ==
  /\ status' = "refused" /\ settled' = FALSE /\ Forget(Nothing)
  /\ UNCHANGED <<db, audit, wrote>>

RoomsDone == \A n \in DOMAIN doc.rooms : <<"room", n>> \in done

ApplyRoom(n) ==
  LET row    == [name |-> Trim[n], detail |-> Stored[doc.rooms[n]]]
      exists == row.name \in DOMAIN world.rooms
      id     == world.rooms[row.name]
      entry  == <<"room", n>>
  IN
  /\ status = "applying" /\ entry \notin done
  /\ \/ /\ ~exists /\ INV!CreateRoom(row)
        /\ Saved(entry, [world EXCEPT !.rooms = Put(@, row.name, NewRoom(db))])
     \/ ~exists /\ RoomCreateClash(db, row) # Ok /\ Refuse
     \/ exists /\ db.rooms[id] = row /\ Unchanged(entry)
     \/ exists /\ db.rooms[id] # row /\ INV!UpdateRoom(id, row) /\ Saved(entry, world)

\* Mutant: the parent is not compared.
FieldsMatch(current, target) ==
  current.name = target.name /\ current.detail = target.detail
\* Mutant: the parents are compared as pointers.
PointersMatch(current, target) == current = target /\ current.parent = Nil

ContainersMatch(current, target) == current = target

\* orderContainers: by room, then by depth, then by name.
Before(k, l) ==
  \/ k.room < l.room
  \/ k.room = l.room /\ Depth(doc, k) < Depth(doc, l)
  \/ k.room = l.room /\ Depth(doc, k) = Depth(doc, l) /\ k.name < l.name

ContainersDone == \A k \in DOMAIN doc.containers : <<"container", k>> \in done

ApplyContainer(k) ==
  LET written == doc.containers[k]
      row == [room   |-> world.rooms[k.room],
              parent |-> IF written.parent = NoName THEN Nil
                         ELSE world.containers[ParentKey(doc, k)],
              name   |-> Trim[k.name],
              detail |-> Stored[written.detail]]
      exists == k \in DOMAIN world.containers
      id     == world.containers[k]
      entry  == <<"container", k>>
  IN
  /\ status = "applying" /\ RoomsDone /\ entry \notin done
  /\ \A l \in DOMAIN doc.containers : Before(l, k) => <<"container", l>> \in done
  /\ \/ /\ ~exists /\ INV!CreateContainer(row)
        /\ Saved(entry, [world EXCEPT !.containers = Put(@, k, NewContainer(db))])
     \/ /\ ~exists
        /\ ContainerCreateChecks(db, row) # Ok \/ ContainerCreateClash(db, row) # Ok
        /\ Refuse
     \/ exists /\ ContainersMatch(db.containers[id], row) /\ Unchanged(entry)
     \/ /\ exists /\ ~ContainersMatch(db.containers[id], row)
        /\ INV!UpdateContainer(id, row) /\ Saved(entry, world)
     \/ /\ exists /\ ~ContainersMatch(db.containers[id], row)
        /\ ContainerUpdateChecks(db, id, row) # Ok \/ ContainerUpdateClash(db, id, row) # Ok
        /\ Refuse

ItemsDone == \A k \in DOMAIN doc.items : <<"item", k>> \in done

\* Mutant: a container is looked up by its name in whatever room.
ResolveAnyRoom(k) ==
  IF k.kind = "room" THEN RoomLocation(world.rooms[k.room])
  ELSE ContainerLocation(world.containers[
         CHOOSE x \in DOMAIN world.containers : x.name = k.container])

Resolve(k) ==
  IF k.kind = "room" THEN RoomLocation(world.rooms[k.room])
  ELSE ContainerLocation(world.containers[ContainerKey(k.room, k.container)])

\* Tags and aliases are compared as written with those stored.
ItemsMatch(current, target, text) == current = [target EXCEPT !.detail = text]

ApplyItem(k) ==
  LET row == [location |-> Resolve(k), name |-> Trim[k.name], detail |-> Stored[doc.items[k]]]
      key == [k EXCEPT !.name = Trim[@]]
      exists  == key \in DOMAIN world.items
      id      == world.items[key]
      matches == ItemsMatch(db.items[id], row, doc.items[k])
      entry   == <<"item", k>>
  IN
  /\ status = "applying" /\ RoomsDone /\ ContainersDone /\ entry \notin done
  /\ \/ /\ ~exists /\ INV!CreateItem(row)
        /\ Saved(entry, [world EXCEPT !.items = Put(@, key, NewItem(db))])
     \/ /\ ~exists
        /\ ItemCreateChecks(db, row) # Ok \/ ItemCreateClash(db, row) # Ok
        /\ Refuse
     \/ exists /\ matches /\ Unchanged(entry)
     \/ exists /\ ~matches /\ INV!UpdateItem(id, row) /\ Saved(entry, world)

Finish ==
  /\ status = "applying" /\ RoomsDone /\ ContainersDone /\ ItemsDone
  /\ status' = "idle" /\ settled' = TRUE /\ wrote' = FALSE /\ Forget(doc)
  /\ UNCHANGED <<db, audit>>

\* Any other failure between two entries: cancelled, busy, a crash.
Stop ==
  /\ status = "applying"
  /\ status' = "idle" /\ settled' = FALSE /\ wrote' = FALSE /\ Forget(Nothing)
  /\ UNCHANGED <<db, audit>>

Apply ==
  \/ \E n \in DOMAIN doc.rooms : ApplyRoom(n)
  \/ \E k \in DOMAIN doc.containers : ApplyContainer(k)
  \/ \E k \in DOMAIN doc.items : ApplyItem(k)

Next ==
  \/ Outside
  \/ \E d \in Documents : Start(d)
  \/ Apply \/ Finish \/ Stop

Spec == Init /\ [][Next]_vars

-----------------------------------------------------------------------------
(* What must hold.                                                         *)

TypeOK ==
  /\ IsDB(db) /\ doc \in Documents \cup {Nothing}
  /\ status \in {"idle", "applying", "refused"}
  /\ wrote \in BOOLEAN /\ settled \in BOOLEAN
  /\ \A n \in DOMAIN world.rooms : world.rooms[n] \in RoomID
  /\ \A k \in DOMAIN world.containers : world.containers[k] \in ContainerID
  /\ \A k \in DOMAIN world.items : world.items[k] \in ItemID

Kept(name) == IF name = NoName THEN NoName ELSE Trim[name]

\* The keys an entry has once it is stored, and exported again.
StoredContainer(k) == ContainerKey(k.room, Trim[k.name])
StoredItem(k)      == ItemKey(k.kind, k.room, Kept(k.container), Trim[k.name])

\* After an import, however many attempts it took, exporting gives back every
\* entry of the document: no entry is spoiled by one applied after it.
ImportedAsWritten ==
  settled =>
    LET now == Export(db) IN
    /\ \A n \in DOMAIN doc.rooms :
         Trim[n] \in DOMAIN now.rooms /\ now.rooms[Trim[n]] = Stored[doc.rooms[n]]
    /\ \A k \in DOMAIN doc.containers :
         LET key == StoredContainer(k)  written == doc.containers[k] IN
         /\ key \in DOMAIN now.containers
         /\ now.containers[key].parent = Kept(written.parent)
         /\ now.containers[key].detail = Stored[written.detail]
    /\ \A k \in DOMAIN doc.items :
         StoredItem(k) \in DOMAIN now.items /\ now.items[StoredItem(k)] = Stored[doc.items[k]]

\* What the document does not mention is not touched: it keeps its fields, its
\* parent and its place, and nothing else appears.
SameBut(before, after, mentioned) ==
  /\ DOMAIN before \subseteq DOMAIN after
  /\ DOMAIN after \ DOMAIN before \subseteq mentioned
  /\ \A k \in DOMAIN before \ mentioned : after[k] = before[k]

OnlyMentionedChanges ==
  [][status = "applying" =>
       LET was == Export(db)  now == Export(db') IN
       /\ SameBut(was.rooms, now.rooms, {Trim[n] : n \in DOMAIN doc.rooms})
       /\ SameBut(was.containers, now.containers,
                  {StoredContainer(k) : k \in DOMAIN doc.containers})
       /\ SameBut(was.items, now.items, {StoredItem(k) : k \in DOMAIN doc.items})]_vars

\* A second import of the document finds everything unchanged: it writes no
\* row and no event, and is not refused.
SecondImportIsQuiet ==
  [][settled /\ status = "applying" => ~wrote' /\ status' # "refused"]_vars

\* A document is accepted or refused as a whole: an import that is refused has
\* written nothing.
RefusedWritesNothing == status = "refused" => ~wrote
=============================================================================
