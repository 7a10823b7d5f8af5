------------------------------ MODULE Answers ------------------------------
(***************************************************************************)
(* Calls that read the inventory in several queries: the tools of a        *)
(* language model that look something up, or resolve a name and then write *)
(* (internal/tools), the search (internal/search), a container with its    *)
(* path (internal/server), an export (internal/backup). Each query is a    *)
(* transaction of its own, so others may write between any two. What a     *)
(* call reads from them is resolved and rendered in memory (Locations).    *)
(***************************************************************************)
EXTENDS Locations, Repositories

CONSTANTS
  Homes,      \* the households that calls begin with
  Requests,   \* the calls that are made
  Plain,      \* the fields of what is added or renamed
  NoLabels,   \* no tags, or no aliases
  MaxOthers   \* bound on the writes of others during a call

ASSUME HomesAssumption ==
  Plain \in Detail /\ MaxOthers \in Nat /\ \A h \in Homes : Household(h)

VARIABLES
  call,       \* the call, with the queries it has yet to run and what it got
  seen,       \* history: the databases it has run against
  others      \* history: how many writes of others fell into it

vars == <<db, audit, call, seen, others>>


\* A request has a kind; the id or the name of the thing it is about; and the
\* place or the words it gives.
Request(kind, subject, query) == [kind |-> kind, subject |-> subject, query |-> query]

\* The queries of each kind of call, in their order.
Queries ==
  [get_item       |-> <<"item", "tags", "aliases", "rooms", "containers">>,
   search         |-> <<"items", "tags", "aliases", "rooms", "containers">>,
   count_items    |-> <<"items", "tags", "aliases", "rooms", "containers">>,
   list_location  |-> <<"rooms", "containers", "place", "items", "tags", "aliases">>,
   get_container  |-> <<"container", "chain", "room">>,
   export         |-> <<"rooms", "containers", "items", "tags", "aliases">>,
   move_item      |-> <<"rooms", "containers", "write", "item", "tags", "aliases">>,
   add_item       |-> <<"rooms", "containers", "write">>,
   move_container |-> <<"rooms", "containers", "write", "container", "rooms", "containers">>,
   add_container  |-> <<"rooms", "containers", "parent", "write", "container", "rooms", "containers">>]

\* What is added has a name of its own.
ASSUME RequestsAssumption ==
  \A r \in Requests :
    /\ r = Request(r.kind, r.subject, r.query) /\ r.kind \in DOMAIN Queries
    /\ r.kind \in {"add_item", "add_container"} => r.subject \in Name

Place0 == RoomLocation(0)   \* no place

NoCall == [kind |-> "none", subject |-> 0, query |-> <<>>, todo |-> <<>>, outcome |-> Ok,
           index |-> Index(NoRows, NoRows), items |-> NoRows, tags |-> NoRows,
           aliases |-> NoRows, room |-> 0]

Begun(r) == [NoCall EXCEPT !.kind = r.kind, !.subject = r.subject, !.query = r.query,
                           !.todo = Queries[r.kind]]

At(query) == call.todo # <<>> /\ Head(call.todo) = query
IsDone    == call.kind # "none" /\ call.todo = <<>>

\* The calls that name a place; what their words stand for, and the place if
\* it is one.
NamesPlace  == call.kind \in {"count_items", "list_location", "move_item", "add_item",
                              "move_container", "add_container"}
Target      == Resolve(call.index, call.query)
TargetPlace == IF Target.outcome = Ok THEN CHOOSE p \in Target.places : TRUE ELSE Place0

-----------------------------------------------------------------------------
(* The queries. *)

Rows(table, ids) == Restrict(table, DOMAIN table \cap ids)

\* A search looks for an item by its name or by one of its labels.
Matches(row, words) == words \in {row.name, row.detail}

\* The items that a call's listing selects.
Selects(i, row) ==
  CASE call.kind \in {"get_item", "move_item"} -> i = call.subject
    [] call.kind = "search"                    -> Matches(row, call.query)
    [] call.kind = "list_location"             -> row.location = TargetPlace
    [] OTHER                                   -> TRUE

Selected(d) == Rows(d.items, {i \in DOMAIN d.items : Selects(i, d.items[i])})

\* The labels of what was listed. Their listing repeats the condition, so an
\* item that has ceased to meet it gets none.
Labels ==
  [i \in DOMAIN call.items |->
     IF i \in DOMAIN Selected(db) THEN db.items[i].detail ELSE NoLabels]

Goes(next)    == call' = [next EXCEPT !.todo = Tail(@)]
Ends(outcome) == call' = [call EXCEPT !.todo = <<>>, !.outcome = outcome]
Reads         == UNCHANGED <<db, audit, seen, others>>

ReadRooms ==
  At("rooms") /\ Goes([call EXCEPT !.index.rooms = db.rooms]) /\ Reads
ReadContainers ==
  At("containers") /\ Goes([call EXCEPT !.index.containers = db.containers]) /\ Reads

ReadItem ==
  /\ At("item") /\ Reads
  /\ IF call.subject \in DOMAIN db.items THEN Goes([call EXCEPT !.items = Selected(db)])
                                         ELSE Ends(NotFound)

\* A search that finds nothing looks no further.
ReadItems ==
  /\ At("items") /\ Reads
  /\ IF call.kind = "search" /\ DOMAIN Selected(db) = {} THEN Ends(Ok)
     ELSE Goes([call EXCEPT !.items = Selected(db)])

ReadTags    == At("tags") /\ Goes([call EXCEPT !.tags = Labels]) /\ Reads
ReadAliases == At("aliases") /\ Goes([call EXCEPT !.aliases = Labels]) /\ Reads

\* ListByLocation looks for the place before it lists.
CheckPlace ==
  /\ At("place") /\ Reads
  /\ IF Target.outcome # Ok THEN Ends(Target.outcome)
     ELSE IF LocationExists(db, TargetPlace) THEN Goes(call) ELSE Ends(NotFound)

ReadContainer ==
  /\ At("container") /\ Reads
  /\ IF call.subject \in DOMAIN db.containers THEN Goes(call) ELSE Ends(NotFound)

\* Path: a container with those above it, and then the room of the outermost.
ReadChain ==
  /\ At("chain") /\ Reads
  /\ LET chain == Rows(db.containers, Walk(db.containers, call.subject))
         top   == CHOOSE c \in DOMAIN chain : chain[c].parent \notin DOMAIN chain
     IN IF DOMAIN chain = {} THEN Ends(NotFound)
        ELSE Goes([call EXCEPT !.index.containers = chain, !.room = chain[top].room])

\* Mutant: the room is that of the container by now.
ReadRoomAnew ==
  /\ At("room") /\ Reads
  /\ IF call.subject \in DOMAIN db.containers
     THEN Goes([call EXCEPT !.index.rooms = Rows(db.rooms, {db.containers[call.subject].room}),
                            !.index.containers[call.subject].room = db.containers[call.subject].room])
     ELSE Ends(NotFound)

ReadRoom ==
  /\ At("room") /\ Reads
  /\ IF call.room \in DOMAIN db.rooms
     THEN Goes([call EXCEPT !.index.rooms = Rows(db.rooms, {call.room})])
     ELSE Ends(NotFound)

\* add_container asks the parent for its room.
ReadParent ==
  /\ At("parent") /\ Reads
  /\ IF Target.outcome # Ok THEN Ends(Target.outcome)
     ELSE IF TargetPlace.kind = "room" THEN Goes([call EXCEPT !.room = TargetPlace.id])
     ELSE IF TargetPlace.id \notin DOMAIN db.containers THEN Ends(NotFound)
     ELSE Goes([call EXCEPT !.room = db.containers[TargetPlace.id].room])

-----------------------------------------------------------------------------
(* The writes. *)

\* What was moved or added, and the databases its answer is read from.
Wrote(id, from) ==
  Goes([call EXCEPT !.subject = id]) /\ seen' = from /\ UNCHANGED others

\* The place is not one, or the repository refuses.
Refuses == Ends(IF Target.outcome # Ok THEN Target.outcome ELSE "refused") /\ Reads

Writes(kind) == At("write") /\ call.kind = kind

\* The answer of an item's write is rendered with the index from before it,
\* that of a container's with a new one.
MoveItem ==
  LET i == call.subject IN
  /\ Writes("move_item")
  /\ \/ INV!MoveItem(i, TargetPlace) /\ Wrote(i, seen \cup {db'})
     \/ ItemMoveChecks(db, i, TargetPlace) # Ok /\ Refuses
     \/ ItemMoveChecks(db, i, TargetPlace) = Ok /\ ItemMoveClash(db, i, TargetPlace) # Ok /\ Refuses

AddItem ==
  LET row == [location |-> TargetPlace, name |-> call.subject, detail |-> Plain] IN
  /\ Writes("add_item")
  /\ \/ INV!CreateItem(row) /\ Wrote(NewItem(db), seen \cup {db'})
     \/ ItemCreateChecks(db, row) # Ok /\ Refuses
     \/ ItemCreateClash(db, row) # Ok /\ Refuses

MoveContainer ==
  LET c == call.subject IN
  /\ Writes("move_container")
  /\ \/ INV!MoveContainer(c, TargetPlace) /\ Wrote(c, {db'})
     \/ ContainerMoveChecks(db, c, TargetPlace) # Ok /\ Refuses
     \/ ContainerMoveChecks(db, c, TargetPlace) = Ok /\ ContainerMoveClash(db, c, TargetPlace) # Ok /\ Refuses

AddContainer ==
  LET row == [room   |-> call.room,
              parent |-> IF TargetPlace.kind = "room" THEN Nil ELSE TargetPlace.id,
              name   |-> call.subject, detail |-> Plain] IN
  /\ Writes("add_container")
  /\ \/ INV!CreateContainer(row) /\ Wrote(NewContainer(db), {db'})
     \/ ContainerCreateChecks(db, row) # Ok /\ Refuses
     \/ ContainerCreateClash(db, row) # Ok /\ Refuses

-----------------------------------------------------------------------------
Init ==
  /\ db \in Homes /\ audit = INV!Tables(db)
  /\ call = NoCall /\ seen = {} /\ others = 0

Begin(r) ==
  /\ call.kind = "none"
  /\ call' = Begun(r) /\ seen' = {db}
  /\ UNCHANGED <<db, audit, others>>

\* Any mutation another request commits meanwhile (one that comes before the
\* first query is as if the call had begun after it). Descriptions of rooms and
\* containers, which no answer depends on, are left as they are; the id that
\* the call itself may need is left to it.
Others ==
  /\ call.todo # <<>> /\ call.todo # Queries[call.kind] /\ others < MaxOthers
  /\ INV!Next /\ db' # db
  /\ call.kind = "add_item" => db'.lastItem < MaxItem
  /\ call.kind = "add_container" => db'.lastContainer < MaxContainer
  /\ \A r \in DOMAIN db'.rooms : db'.rooms[r].detail = Plain
  /\ \A c \in DOMAIN db'.containers : db'.containers[c].detail = Plain
  /\ others' = others + 1 /\ seen' = seen \cup {db'}
  /\ UNCHANGED call

\* The answer is given.
Done == IsDone /\ UNCHANGED vars

Next ==
  \/ \E r \in Requests : Begin(r)
  \/ ReadRooms \/ ReadContainers \/ ReadItem \/ ReadItems \/ ReadTags \/ ReadAliases
  \/ CheckPlace \/ ReadContainer \/ ReadChain \/ ReadRoom \/ ReadParent
  \/ MoveItem \/ AddItem \/ MoveContainer \/ AddContainer
  \/ Others \/ Done

Spec == Init /\ [][Next]_vars

-----------------------------------------------------------------------------
(* What the lookups answer, from an index and a listing of items.          *)

Lookups == {"get_item", "search", "count_items", "list_location", "get_container", "export"}

\* count_items: the items a place holds, itself and all inside it.
Counted(index, items) ==
  {i \in DOMAIN items : TargetPlace \in Ancestors(index, items[i].location)}

\* Export: ids become names. It fails when one of them was not listed.
NoName == 0
RoomNamed(index, r) == IF r \in DOMAIN index.rooms THEN index.rooms[r].name ELSE NoName
ContainerNamed(index, c) ==
  IF c \in DOMAIN index.containers
  THEN <<RoomNamed(index, index.containers[c].room), index.containers[c].name>>
  ELSE <<NoName, NoName>>

\* Mutant: an item may point at a container that was not listed.
DanglingContainers(index, items) ==
  \E c \in DOMAIN index.containers : index.containers[c].room \notin DOMAIN index.rooms

Dangles(index, items) ==
  \/ \E c \in DOMAIN index.containers :
       \/ index.containers[c].room \notin DOMAIN index.rooms
       \/ index.containers[c].parent \notin DOMAIN index.containers \cup {Nil}
  \/ \E i \in DOMAIN items : ~Known(index, items[i].location)

Document(index, items) ==
  [rooms      |-> {index.rooms[r].name : r \in DOMAIN index.rooms},
   containers |-> [c \in DOMAIN index.containers |->
                     [key    |-> ContainerNamed(index, c),
                      parent |-> IF index.containers[c].parent = Nil THEN <<>>
                                 ELSE ContainerNamed(index, index.containers[c].parent)]],
   items      |-> [i \in DOMAIN items |->
                     LET at == items[i].location IN
                     [room      |-> IF at.kind = "room" THEN RoomNamed(index, at.id)
                                    ELSE ContainerNamed(index, at.id)[1],
                      container |-> IF at.kind = "room" THEN <<>> ELSE ContainerNamed(index, at.id),
                      name      |-> items[i].name]]]

Answer(index, items) ==
  CASE call.kind \in {"get_item", "search"} ->
         [i \in DOMAIN items |-> <<items[i].name, Path(index, items[i].location)>>]
    [] call.kind = "count_items" -> Counted(index, items)
    [] call.kind = "list_location" ->
         [path       |-> Path(index, TargetPlace),
          containers |-> {Path(index, ContainerLocation(c)) : c \in Children(index, TargetPlace)},
          items      |-> {items[i].name : i \in DOMAIN items}]
    [] call.kind = "get_container" -> Path(index, ContainerLocation(call.subject))
    [] call.kind = "export" ->
         IF Dangles(index, items) THEN "failed" ELSE Document(index, items)

\* count_items gives up when its words are not one place; the others have by now.
Answered ==
  /\ IsDone /\ call.outcome = Ok /\ call.kind \in Lookups
  /\ call.kind = "count_items" => Target.outcome = Ok

-----------------------------------------------------------------------------
(* What must hold.                                                         *)

TypeOK ==
  /\ IsDB(db) /\ audit = INV!Tables(db) /\ others \in 0 .. MaxOthers
  /\ call.todo # <<>> => db \in seen
  /\ IsTable(call.index.rooms, RoomID, RoomRow)
  /\ IsTable(call.index.containers, ContainerID, ContainerRow)
  /\ IsTable(call.items, ItemID, ItemRow)

\* Everything the path of a place depends on.
Line(d, at) ==
  LET above == IF at.kind = "room" THEN {} ELSE Walk(d.containers, at.id)
      rooms == IF at.kind = "room" THEN {at.id} ELSE {d.containers[c].room : c \in above}
  IN Index(Rows(d.rooms, rooms), Rows(d.containers, above))

StandsStill(at) ==
  LocationExists(db, at) /\ \A d \in seen : Line(d, at) = Line(db, at)
ItemStandsStill(i) ==
  /\ \A d \in seen : i \in DOMAIN d.items /\ d.items[i] = db.items[i]
  /\ StandsStill(db.items[i].location)

\* A place reads as what holds it, followed by its own name; nothing holds a
\* room.
ReadsTrue(at) ==
  NamesTo(call.index, at) =
    IF at.kind = "room" THEN <<db.rooms[at.id].name>>
    ELSE Append(NamesTo(call.index, Origin(db.containers, at.id)), db.containers[at.id].name)
LineReadsTrue(at) ==
  LET line == Line(db, at) IN
  /\ \A r \in DOMAIN line.rooms : ReadsTrue(RoomLocation(r))
  /\ \A c \in DOMAIN line.containers : ReadsTrue(ContainerLocation(c))

\* The items below a place, by the tree itself.
Holds(d, at, i) ==
  IF at.kind = "room" THEN RoomOf(d, d.items[i].location) = at.id
  ELSE d.items[i].location \in {ContainerLocation(c) : c \in Subtree(d.containers, at.id)}

\* Whatever others write meanwhile, a lookup answers truly about what stands
\* still: such an item is found if and only if it is asked for, with its own
\* labels and path, and counted if and only if the place holds it.
WhatStandsStillIsTrue ==
  Answered =>
    /\ \A i \in DOMAIN db.items : ItemStandsStill(i) =>
         /\ call.kind # "get_container" => (i \in DOMAIN call.items <=> Selects(i, db.items[i]))
         /\ i \in DOMAIN call.items =>
              /\ call.items[i] = db.items[i]
              /\ call.tags[i] = db.items[i].detail /\ call.aliases[i] = db.items[i].detail
              /\ LineReadsTrue(db.items[i].location)
         /\ call.kind = "count_items" /\ StandsStill(TargetPlace) =>
              (i \in Counted(call.index, call.items) <=> Holds(db, TargetPlace, i))
    /\ \A c \in DOMAIN db.containers : StandsStill(ContainerLocation(c)) =>
         /\ call.kind = "list_location" =>
              (c \in Children(call.index, TargetPlace) <=> Origin(db.containers, c) = TargetPlace)
         /\ call.kind = "get_container" /\ c = call.subject => LineReadsTrue(ContainerLocation(c))

\* One write of another request cannot tear an answer about places: it is the
\* answer of one of the two moments. (Two writes can, and an item's labels
\* may be of the other moment.)
OneWriteCannotTear ==
  Answered /\ others <= 1 =>
    \E d \in seen :
      /\ call.kind \in {"count_items", "list_location"} => Resolve(IndexOf(d), call.query) = Target
      /\ Answer(IndexOf(d), Selected(d)) = Answer(call.index, call.items)

\* An export that succeeds is a document an import accepts, whatever was
\* written between its listings: names are declared, and declared once. (The
\* labels, listed last, have no part in it.)
ExportIsImportable ==
  /\ call.kind = "export" /\ Range(call.todo) \cap {"rooms", "containers", "items"} = {}
  /\ ~Dangles(call.index, call.items)
  =>
    LET doc == Document(call.index, call.items) IN
    /\ \A c \in DOMAIN doc.containers :
         /\ doc.containers[c].key[1] \in doc.rooms
         /\ doc.containers[c].parent # <<>> =>
              \E e \in DOMAIN doc.containers : doc.containers[e].key = doc.containers[c].parent
         /\ \A e \in DOMAIN doc.containers : doc.containers[e].key = doc.containers[c].key => e = c
    /\ \A i \in DOMAIN doc.items :
         /\ doc.items[i].room \in doc.rooms
         /\ doc.items[i].container # <<>> =>
              \E c \in DOMAIN doc.containers : doc.containers[c].key = doc.items[i].container
         /\ \A j \in DOMAIN doc.items : doc.items[i] = doc.items[j] => i = j

\* Whoever is asked to choose can: each candidate, given back as the path it
\* was shown as, stands for that candidate and for nothing else.
CandidatesCanBeChosen ==
  NamesPlace /\ Target.outcome = Ambiguous =>
    \A p \in Target.places :
      Resolve(call.index, PathKey(Path(call.index, p))) = Resolved(Ok, {p})

SideBySide(index, p, q) ==
  /\ p.kind = q.kind
  /\ p.kind = "container" => index.containers[p.id].room = index.containers[q.id].room

\* No name listed has a ">" in it, and no two rooms, and no two containers of
\* one room, have different names that fold alike.
PlainNames(index) ==
  \A p, q \in Places(index) :
    /\ Len(Spelling[NameOf(index, p)]) = 1
    /\ SideBySide(index, p, q) /\ Segments(NameOf(index, p)) = Segments(NameOf(index, q)) =>
         NameOf(index, p) = NameOf(index, q)

\* With plain names that is so, though names recur from room to room, accented
\* or not, and the two listings a path is put together from may be of different
\* moments.
PlainCandidatesCanBeChosen == PlainNames(call.index) => CandidatesCanBeChosen

\* A write by name acts on a place that goes by that name. With at most one
\* write of others in between, the name stood for that place at one moment.
\* However many there were: if the place stood still it goes by that name, and
\* no other that stood still does, unless the name is the place's whole path.
ActedAt ==
  IF call.kind \in {"move_item", "add_item"} THEN db'.items[call'.subject].location
  ELSE Origin(db'.containers, call'.subject)
GoesBy(index, at) == {PathKey(Path(index, at)), Segments(NameOf(index, at))}

ActsWhereNamed ==
  [][At("write") /\ db' # db /\ others' = others =>
       /\ others <= 1 =>
            \E d \in seen : Resolve(IndexOf(d), call.query) = Resolved(Ok, {ActedAt})
       /\ StandsStill(ActedAt) => call.query \in GoesBy(IndexOf(db), ActedAt)
       /\ \A p \in Places(IndexOf(db)) \ {ActedAt} :
            StandsStill(p) /\ call.query \in GoesBy(IndexOf(db), p) =>
              call.query = PathKey(Path(call.index, ActedAt))]_vars
=============================================================================
