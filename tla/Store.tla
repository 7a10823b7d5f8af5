------------------------------- MODULE Store -------------------------------
(***************************************************************************)
(* The inventory tables of homey's SQLite database and what each           *)
(* repository operation of internal/storage reads and writes in them.      *)
(* There are no variables here: a database is a value, so the same         *)
(* operators serve the committed state, the snapshot of a transaction and  *)
(* what a reader of the event log rebuilds.                                *)
(*                                                                         *)
(* Each mutation is three operators, in the order its transaction runs:    *)
(*   ...Checks(db, ..)  what the SELECTs find: Ok, or the error answered   *)
(*   ...Clash(db, ..)   whether the write statement itself is refused      *)
(*   ...(db, ..)        the database after the write                       *)
(*                                                                         *)
(* A name is its case-folded class (the unique indexes are NOCASE), and    *)
(* every other column of a row that no property tells apart is `detail`.   *)
(* Names and details are the ones that pass Normalize and Validate.        *)
(***************************************************************************)
EXTENDS Integers

CONSTANTS
  Name,          \* case-folded names
  Detail,        \* the remaining columns of a row, tags and aliases included
  Nil,           \* a NULL parent_id
  MaxRoom,       \* bounds on the AUTOINCREMENT sequences
  MaxContainer,
  MaxItem

RoomID      == 1 .. MaxRoom
ContainerID == 1 .. MaxContainer
ItemID      == 1 .. MaxItem

ASSUME BoundsAssumption == MaxRoom \in Nat /\ MaxContainer \in Nat /\ MaxItem \in Nat
ASSUME NilAssumption    == Nil \notin ContainerID

(* Where a thing sits: directly in a room, or in a container.              *)
RoomLocation(r)      == [kind |-> "room", id |-> r]
ContainerLocation(c) == [kind |-> "container", id |-> c]
Location == {RoomLocation(r) : r \in RoomID} \cup {ContainerLocation(c) : c \in ContainerID}

RoomRow      == [name : Name, detail : Detail]
ContainerRow == [room : RoomID, parent : ContainerID \cup {Nil}, name : Name, detail : Detail]
ItemRow      == [location : Location, name : Name, detail : Detail]

(* A table is a function from the ids of its live rows.                    *)
IsTable(table, Id, Row) ==
  /\ table = [x \in DOMAIN table |-> table[x]]
  /\ DOMAIN table \subseteq Id
  /\ \A x \in DOMAIN table : table[x] \in Row

IsDB(db) ==
  /\ db = [rooms |-> db.rooms, containers |-> db.containers, items |-> db.items,
           lastRoom |-> db.lastRoom, lastContainer |-> db.lastContainer,
           lastItem |-> db.lastItem]
  /\ IsTable(db.rooms, RoomID, RoomRow)
  /\ IsTable(db.containers, ContainerID, ContainerRow)
  /\ IsTable(db.items, ItemID, ItemRow)
  /\ db.lastRoom \in 0 .. MaxRoom
  /\ db.lastContainer \in 0 .. MaxContainer
  /\ db.lastItem \in 0 .. MaxItem

NoRows == [x \in {} |-> x]
EmptyDB == [rooms |-> NoRows, containers |-> NoRows, items |-> NoRows,
            lastRoom |-> 0, lastContainer |-> 0, lastItem |-> 0]

Put(table, id, row) ==
  [x \in DOMAIN table \cup {id} |-> IF x = id THEN row ELSE table[x]]
Without(table, id) == [x \in DOMAIN table \ {id} |-> table[x]]

\* A write touches one table, and its sequence when it inserts.
SetRooms(db, table, last) ==
  [rooms |-> table, containers |-> db.containers, items |-> db.items,
   lastRoom |-> last, lastContainer |-> db.lastContainer, lastItem |-> db.lastItem]
SetContainers(db, table, last) ==
  [rooms |-> db.rooms, containers |-> table, items |-> db.items,
   lastRoom |-> db.lastRoom, lastContainer |-> last, lastItem |-> db.lastItem]
SetItems(db, table, last) ==
  [rooms |-> db.rooms, containers |-> db.containers, items |-> table,
   lastRoom |-> db.lastRoom, lastContainer |-> db.lastContainer, lastItem |-> last]

Ok         == "ok"
NotFound   == "not_found"
Conflict   == "conflict"
Cycle      == "cycle"
Validation == "validation"

-----------------------------------------------------------------------------
(* The container tree. A recursive CTE computes the least set that holds   *)
(* its seed and is closed under its join, and that is how the two walks    *)
(* are defined.                                                            *)

\* The seed and every container above it: the ancestors and walk CTEs.
Walk(containers, c) ==
  {x \in DOMAIN containers :
     \A S \in SUBSET DOMAIN containers :
       (/\ {c} \cap DOMAIN containers \subseteq S
        /\ \A y \in S : containers[y].parent \in DOMAIN containers => containers[y].parent \in S)
       => x \in S}

\* The seed and every container below it: the subtree CTE.
Subtree(containers, c) ==
  {x \in DOMAIN containers :
     \A S \in SUBSET DOMAIN containers :
       (/\ {c} \cap DOMAIN containers \subseteq S
        /\ \A y \in DOMAIN containers : containers[y].parent \in S => y \in S)
       => x \in S}

\* The location a container row points at: its parent, or its room.
Origin(containers, c) ==
  IF containers[c].parent = Nil THEN RoomLocation(containers[c].room)
                                ELSE ContainerLocation(containers[c].parent)

LocationExists(db, at) ==
  \/ at.kind = "room" /\ at.id \in DOMAIN db.rooms
  \/ at.kind = "container" /\ at.id \in DOMAIN db.containers

-----------------------------------------------------------------------------
(* Rooms.                                                                  *)

RoomNameTaken(db, r, name) ==
  \E x \in DOMAIN db.rooms \ {r} : db.rooms[x].name = name

NewRoom(db) == db.lastRoom + 1

RoomCreateClash(db, row) ==
  IF RoomNameTaken(db, NewRoom(db), row.name) THEN Conflict ELSE Ok

RoomCreate(db, row) ==
  SetRooms(db, Put(db.rooms, NewRoom(db), row), NewRoom(db))

RoomUpdateClash(db, r, row) ==
  IF r \notin DOMAIN db.rooms THEN NotFound
  ELSE IF RoomNameTaken(db, r, row.name) THEN Conflict ELSE Ok

RoomUpdate(db, r, row) == SetRooms(db, Put(db.rooms, r, row), db.lastRoom)

RoomContents(db, r) ==
  \/ \E c \in DOMAIN db.containers : db.containers[c].room = r
  \/ \E i \in DOMAIN db.items : db.items[i].location = RoomLocation(r)

RoomDeleteChecks(db, r) ==
  IF r \notin DOMAIN db.rooms THEN NotFound
  ELSE IF RoomContents(db, r) THEN Conflict ELSE Ok

RoomDelete(db, r) == SetRooms(db, Without(db.rooms, r), db.lastRoom)

-----------------------------------------------------------------------------
(* Containers.                                                             *)

ContainerNameTaken(db, room, names, except) ==
  \E x \in DOMAIN db.containers \ except :
    db.containers[x].room = room /\ db.containers[x].name \in names

\* Mutant: the parent may be in any room.
ParentAnywhere(db, parent, room) ==
  IF parent # Nil /\ parent \notin DOMAIN db.containers THEN NotFound ELSE Ok

\* requireParentInRoom, for a parent that may be absent
ParentInRoom(db, parent, room) ==
  IF parent = Nil THEN Ok
  ELSE IF parent \notin DOMAIN db.containers THEN NotFound
  ELSE IF db.containers[parent].room # room THEN Validation ELSE Ok

NewContainer(db) == db.lastContainer + 1

ContainerCreateChecks(db, row) ==
  IF row.room \notin DOMAIN db.rooms THEN NotFound
  ELSE ParentInRoom(db, row.parent, row.room)

ContainerCreateClash(db, row) ==
  IF ContainerNameTaken(db, row.room, {row.name}, {}) THEN Conflict ELSE Ok

ContainerCreate(db, row) ==
  SetContainers(db, Put(db.containers, NewContainer(db), row), NewContainer(db))

\* Mutant: an update may carry another room.
ContainerUpdateAcrossRooms(db, c, row) ==
  IF c \notin DOMAIN db.containers THEN NotFound
  ELSE ParentInRoom(db, row.parent, row.room)

ContainerUpdateChecks(db, c, row) ==
  IF c \notin DOMAIN db.containers THEN NotFound
  ELSE IF db.containers[c].room # row.room THEN Validation
  ELSE ParentInRoom(db, row.parent, row.room)

\* Mutant: the UPDATE without its guard.
ContainerUpdateUnguarded(db, c, row) ==
  IF c \notin DOMAIN db.containers THEN Cycle
  ELSE IF ContainerNameTaken(db, db.containers[c].room, {row.name}, {c}) THEN Conflict ELSE Ok

\* The UPDATE guarded by the ancestors CTE. When it matches no row the code
\* answers a cycle, because its checks have found the container.
ContainerUpdateClash(db, c, row) ==
  IF \/ c \notin DOMAIN db.containers
     \/ row.parent # Nil /\ c \in Walk(db.containers, row.parent) THEN Cycle
  ELSE IF ContainerNameTaken(db, db.containers[c].room, {row.name}, {c}) THEN Conflict ELSE Ok

\* The row as it stands then: the room is not among the columns that are set.
ContainerUpdated(db, c, row) == [row EXCEPT !.room = db.containers[c].room]

ContainerUpdate(db, c, row) ==
  SetContainers(db, Put(db.containers, c, ContainerUpdated(db, c, row)), db.lastContainer)

RoomOf(db, at) == IF at.kind = "room" THEN at.id ELSE db.containers[at.id].room

\* Mutant: only the container itself is refused as its own destination.
ContainerMoveIntoChild(db, c, to) ==
  IF c \notin DOMAIN db.containers \/ ~LocationExists(db, to) THEN NotFound
  ELSE IF to = ContainerLocation(c) THEN Cycle ELSE Ok

ContainerMoveChecks(db, c, to) ==
  IF c \notin DOMAIN db.containers \/ ~LocationExists(db, to) THEN NotFound
  ELSE IF to.kind = "container" /\ c \in Walk(db.containers, to.id) THEN Cycle
  ELSE Ok

\* Mutant: the names inside the subtree are forgotten.
ContainerMoveClashAlone(db, c, to) ==
  IF ContainerNameTaken(db, RoomOf(db, to), {db.containers[c].name}, {c})
  THEN Conflict ELSE Ok

\* Moving within a room renames nothing there, so only the rows that stay
\* behind can hold a name the subtree brings.
ContainerMoveClash(db, c, to) ==
  LET moved == Subtree(db.containers, c) IN
  IF ContainerNameTaken(db, RoomOf(db, to), {db.containers[x].name : x \in moved}, moved)
  THEN Conflict ELSE Ok

\* Mutant: the subtree stays in the old room.
MovedAlone(containers, c, room, parent) ==
  [x \in DOMAIN containers |->
     IF x = c THEN [containers[x] EXCEPT !.room = room, !.parent = parent]
              ELSE containers[x]]

\* Mutant: the whole subtree is re-parented.
MovedFlat(containers, c, room, parent) ==
  [x \in DOMAIN containers |->
     IF x \in Subtree(containers, c)
     THEN [containers[x] EXCEPT !.room = room, !.parent = parent] ELSE containers[x]]

\* The whole subtree adopts the room; only the container itself is re-parented.
Moved(containers, c, room, parent) ==
  LET subtree == Subtree(containers, c) IN
  [x \in DOMAIN containers |->
     [room   |-> IF x \in subtree THEN room ELSE containers[x].room,
      parent |-> IF x = c THEN parent ELSE containers[x].parent,
      name   |-> containers[x].name,
      detail |-> containers[x].detail]]

\* Mutant: no parent is written as 0 instead of NULL.
ContainerMoveZero(db, c, to) ==
  LET parent == IF to.kind = "room" THEN 0 ELSE to.id IN
  SetContainers(db, Moved(db.containers, c, RoomOf(db, to), parent), db.lastContainer)

ContainerMove(db, c, to) ==
  LET parent == IF to.kind = "room" THEN Nil ELSE to.id IN
  SetContainers(db, Moved(db.containers, c, RoomOf(db, to), parent), db.lastContainer)

\* Mutant: only nested containers count.
ContainerContentsNested(db, c) ==
  \E x \in DOMAIN db.containers : db.containers[x].parent = c

ContainerContents(db, c) ==
  \/ \E x \in DOMAIN db.containers : db.containers[x].parent = c
  \/ \E i \in DOMAIN db.items : db.items[i].location = ContainerLocation(c)

ContainerDeleteChecks(db, c) ==
  IF c \notin DOMAIN db.containers THEN NotFound
  ELSE IF ContainerContents(db, c) THEN Conflict ELSE Ok

ContainerDelete(db, c) == SetContainers(db, Without(db.containers, c), db.lastContainer)

-----------------------------------------------------------------------------
(* Items.                                                                  *)

ItemNameTaken(db, i, at, name) ==
  \E x \in DOMAIN db.items \ {i} : db.items[x].location = at /\ db.items[x].name = name

NewItem(db) == db.lastItem + 1

ItemCreateChecks(db, row) == IF LocationExists(db, row.location) THEN Ok ELSE NotFound

ItemCreateClash(db, row) ==
  IF ItemNameTaken(db, NewItem(db), row.location, row.name) THEN Conflict ELSE Ok

ItemCreate(db, row) ==
  SetItems(db, Put(db.items, NewItem(db), row), NewItem(db))

ItemUpdateChecks(db, i, row) == IF LocationExists(db, row.location) THEN Ok ELSE NotFound

ItemUpdateClash(db, i, row) ==
  IF i \notin DOMAIN db.items THEN NotFound
  ELSE IF ItemNameTaken(db, i, row.location, row.name) THEN Conflict ELSE Ok

ItemUpdate(db, i, row) == SetItems(db, Put(db.items, i, row), db.lastItem)

ItemMoveChecks(db, i, to) ==
  IF ~LocationExists(db, to) \/ i \notin DOMAIN db.items THEN NotFound ELSE Ok

ItemMoveClash(db, i, to) ==
  IF ItemNameTaken(db, i, to, db.items[i].name) THEN Conflict ELSE Ok

ItemMove(db, i, to) == SetItems(db, [db.items EXCEPT ![i].location = to], db.lastItem)

ItemDeleteChecks(db, i) == IF i \notin DOMAIN db.items THEN NotFound ELSE Ok

ItemDelete(db, i) == SetItems(db, Without(db.items, i), db.lastItem)

-----------------------------------------------------------------------------
(* What makes a database a household.                                      *)

ReferencesExistIn(db) ==
  /\ \A c \in DOMAIN db.containers :
       /\ db.containers[c].room \in DOMAIN db.rooms
       /\ db.containers[c].parent \in DOMAIN db.containers \cup {Nil}
  /\ \A i \in DOMAIN db.items : LocationExists(db, db.items[i].location)

SubtreesShareRoom(db) ==
  \A c \in DOMAIN db.containers :
    db.containers[c].parent \in DOMAIN db.containers =>
      db.containers[c].room = db.containers[db.containers[c].parent].room

\* Every set of containers has one whose parent is outside it.
Acyclic(containers) ==
  \A S \in SUBSET DOMAIN containers :
    S # {} => \E c \in S : containers[c].parent \notin S

NamesUniqueIn(db) ==
  /\ \A r, s \in DOMAIN db.rooms : db.rooms[r].name = db.rooms[s].name => r = s
  /\ \A c, d \in DOMAIN db.containers :
       /\ db.containers[c].room = db.containers[d].room
       /\ db.containers[c].name = db.containers[d].name
       => c = d
  /\ \A i, j \in DOMAIN db.items :
       /\ db.items[i].location = db.items[j].location
       /\ db.items[i].name = db.items[j].name
       => i = j

\* A sequence is never behind the live rows it numbered.
IdsBehindSequence(db) ==
  /\ \A r \in DOMAIN db.rooms : r <= db.lastRoom
  /\ \A c \in DOMAIN db.containers : c <= db.lastContainer
  /\ \A i \in DOMAIN db.items : i <= db.lastItem

\* The conjunction that every mutation preserves.
Household(db) ==
  /\ IsDB(db)
  /\ ReferencesExistIn(db)
  /\ SubtreesShareRoom(db)
  /\ Acyclic(db.containers)
  /\ NamesUniqueIn(db)
  /\ IdsBehindSequence(db)

-----------------------------------------------------------------------------
(* The row each mutation adds to the events table, in its own transaction: *)
(* a payload with the row as stored (or as it was, for a deletion), or the *)
(* two places of a move.                                                   *)

StateEvent(type, id, row)      == [type |-> type, id |-> id, row |-> row]
\* Mutant: the two places are swapped.
MoveEventBackwards(type, id, from, to) == [type |-> type, id |-> id, from |-> to, to |-> from]
MoveEvent(type, id, from, to)  == [type |-> type, id |-> id, from |-> from, to |-> to]
=============================================================================
