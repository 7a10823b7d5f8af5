------------------------------ MODULE Requests ------------------------------
(***************************************************************************)
(* The requests of internal/server and internal/tools that take more than  *)
(* one repository call, over the inventory that all the others change in   *)
(* one: a PATCH, or an update_... tool, reads the row, lays the given      *)
(* fields over it and writes the whole row back; add_container reads its   *)
(* parent to learn the room. Between the two calls anything may happen.    *)
(***************************************************************************)
EXTENDS Repositories

CONSTANTS
  Client,     \* the requests in flight at a time
  Unchanged,  \* a field left out of a patch
  NoRequest

ASSUME UnchangedAssumption == Unchanged \notin Name \cup Detail

VARIABLE
  held        \* what each request has read, as it means to write it

vars == <<db, audit, held>>

Patch == [name : Name \cup {Unchanged}, detail : Detail \cup {Unchanged}]

\* Mutant: a field left out is written all the same.
OverlayBlank(row, patch) == [row EXCEPT !.name = patch.name, !.detail = patch.detail]

Overlay(row, patch) ==
  [row EXCEPT !.name   = IF patch.name = Unchanged THEN @ ELSE patch.name,
              !.detail = IF patch.detail = Unchanged THEN @ ELSE patch.detail]

Draft(kind, id, row) == [do |-> kind, id |-> id, row |-> row]

\* The id add_container writes under is the database's to choose.
NewID == 0

Init == INV!Init /\ held = [c \in Client |-> NoRequest]

-----------------------------------------------------------------------------
(* The read. A row that is not there is answered 404 and nothing follows.  *)

Hold(c, draft) ==
  /\ held[c] = NoRequest
  /\ held' = [held EXCEPT ![c] = draft]
  /\ UNCHANGED <<db, audit>>

PatchRoomRead(c, r, patch) ==
  r \in DOMAIN db.rooms /\ Hold(c, Draft("PatchRoom", r, Overlay(db.rooms[r], patch)))

PatchContainerRead(c, x, patch) ==
  /\ x \in DOMAIN db.containers
  /\ Hold(c, Draft("PatchContainer", x, Overlay(db.containers[x], patch)))

PatchItemRead(c, i, patch) ==
  i \in DOMAIN db.items /\ Hold(c, Draft("PatchItem", i, Overlay(db.items[i], patch)))

AddContainerRead(c, parent, name, detail) ==
  /\ parent \in DOMAIN db.containers
  /\ Hold(c, Draft("AddContainer", NewID,
                   [room |-> db.containers[parent].room, parent |-> parent,
                    name |-> name, detail |-> detail]))

-----------------------------------------------------------------------------
(* The write, with what was read: the repository refuses it or does it.    *)

Refused == UNCHANGED <<db, audit>>

Answer(c) == held' = [held EXCEPT ![c] = NoRequest]

PatchRoomWrite(c) ==
  /\ held[c].do = "PatchRoom" /\ Answer(c)
  /\ LET id == held[c].id  row == held[c].row IN
     \/ INV!UpdateRoom(id, row)
     \/ RoomUpdateClash(db, id, row) # Ok /\ Refused

PatchContainerWrite(c) ==
  /\ held[c].do = "PatchContainer" /\ Answer(c)
  /\ LET id == held[c].id  row == held[c].row IN
     \/ INV!UpdateContainer(id, row)
     \/ ContainerUpdateChecks(db, id, row) # Ok /\ Refused
     \/ ContainerUpdateClash(db, id, row) # Ok /\ Refused

PatchItemWrite(c) ==
  /\ held[c].do = "PatchItem" /\ Answer(c)
  /\ LET id == held[c].id  row == held[c].row IN
     \/ INV!UpdateItem(id, row)
     \/ ItemUpdateChecks(db, id, row) # Ok /\ Refused
     \/ ItemUpdateClash(db, id, row) # Ok /\ Refused

AddContainerWrite(c) ==
  /\ held[c].do = "AddContainer" /\ Answer(c)
  /\ LET row == held[c].row IN
     \/ INV!CreateContainer(row)
     \/ ContainerCreateChecks(db, row) # Ok /\ Refused
     \/ ContainerCreateClash(db, row) # Ok /\ Refused

\* The client goes away, or the second call fails.
Abandon(c) == held[c] # NoRequest /\ Answer(c) /\ Refused

-----------------------------------------------------------------------------
\* The requests that are one call: GET, POST, move and DELETE.
OneCall ==
  /\ UNCHANGED held
  /\ \/ \E row \in RoomRow : INV!CreateRoom(row)
     \/ \E row \in ContainerRow : INV!CreateContainer(row)
     \/ \E row \in ItemRow : INV!CreateItem(row)
     \/ \E x \in ContainerID, to \in Location : INV!MoveContainer(x, to)
     \/ \E i \in ItemID, to \in Location : INV!MoveItem(i, to)
     \/ \E r \in RoomID : INV!DeleteRoom(r)
     \/ \E x \in ContainerID : INV!DeleteContainer(x)
     \/ \E i \in ItemID : INV!DeleteItem(i)
     \/ INV!Read

Next ==
  \/ OneCall
  \/ \E c \in Client :
       \/ \E patch \in Patch :
            \/ \E r \in RoomID : PatchRoomRead(c, r, patch)
            \/ \E x \in ContainerID : PatchContainerRead(c, x, patch)
            \/ \E i \in ItemID : PatchItemRead(c, i, patch)
       \/ \E x \in ContainerID, n \in Name, d \in Detail : AddContainerRead(c, x, n, d)
       \/ held[c] # NoRequest /\
            ( \/ PatchRoomWrite(c) \/ PatchContainerWrite(c)
              \/ PatchItemWrite(c) \/ AddContainerWrite(c) )
       \/ Abandon(c)

Spec == Init /\ [][Next]_vars

-----------------------------------------------------------------------------
(* What must hold, whatever the rows that were read have become.           *)

TypeOK ==
  /\ IsDB(db)
  /\ held \in [Client -> {NoRequest}
                 \cup [do : {"PatchRoom"}, id : RoomID, row : RoomRow]
                 \cup [do : {"PatchContainer"}, id : ContainerID, row : ContainerRow]
                 \cup [do : {"PatchItem"}, id : ItemID, row : ItemRow]
                 \cup [do : {"AddContainer"}, id : {NewID}, row : ContainerRow]]

Patches(c) ==
  /\ held[c] # NoRequest /\ held'[c] = NoRequest
  /\ held[c].do \in {"PatchRoom", "PatchContainer", "PatchItem"}

\* The container is gone, or in another room than it was read in.
Overtaken(draft) ==
  /\ draft.do = "PatchContainer"
  /\ draft.id \in DOMAIN db.containers => db.containers[draft.id].room # draft.row.room

\* A PATCH of a container that is racing a move, or a deletion, never takes it
\* back to the room it was moved out of, and never brings it back to life. If
\* it comes too late it writes nothing, not even the name it was given.
PatchKeepsRoom ==
  [][\A c \in Client : Patches(c) =>
       /\ DOMAIN db'.containers = DOMAIN db.containers
       /\ \A x \in DOMAIN db.containers : db'.containers[x].room = db.containers[x].room
       /\ Overtaken(held[c]) => db' = db]_vars

\* Where an item or a container is stays put: moving is another call. The row
\* a PATCH writes holds the place it read, so a move in between is undone.
PatchMovesNothing ==
  [][(\E c \in Client : Patches(c)) =>
       /\ \A i \in DOMAIN db.items \cap DOMAIN db'.items :
            db'.items[i].location = db.items[i].location
       /\ \A x \in DOMAIN db.containers \cap DOMAIN db'.containers :
            Origin(db'.containers, x) = Origin(db.containers, x)]_vars
=============================================================================
