------------------------------ MODULE Database ------------------------------
(***************************************************************************)
(* What the repositories share: one database file, with its event log; and *)
(* what must hold of the two, whoever uses them.                           *)
(***************************************************************************)
EXTENDS Store

VARIABLES
  db,     \* the committed database
  audit   \* the rooms, containers and items rebuilt from the event log

View(rooms, containers, items) ==
  [rooms |-> rooms, containers |-> containers, items |-> items]

Tables(state) == View(state.rooms, state.containers, state.items)

-----------------------------------------------------------------------------
(* What must hold.                                                         *)

\* The tables are well formed, and so is what the log rebuilds.
TablesOK ==
  /\ IsDB(db) /\ audit = Tables(audit)
  /\ IsTable(audit.rooms, RoomID, RoomRow)
  /\ IsTable(audit.containers, ContainerID, ContainerRow)
  /\ IsTable(audit.items, ItemID, ItemRow)

\* Nothing points at a row that is not there: deleting and moving never leave
\* a container without its room or parent, or an item without its place.
ReferencesExist == ReferencesExistIn(db)

\* The room_id every nested container repeats is the room of its parent:
\* a move carries its whole subtree into the destination room, and no update
\* re-parents across rooms, whatever room or parent a request read before.
SubtreeSharesRoom == SubtreesShareRoom(db)

\* No container is its own ancestor, so every chain of parents ends in a room
\* and the recursive queries terminate. A stale PATCH may write back a parent
\* that has been moved inside the container since: the guarded UPDATE refuses it.
NoCycle == Acyclic(db.containers)

\* A name is unique in its scope: a room's in the inventory, a container's in
\* its room at any depth, an item's where it sits. A subtree that moves brings
\* all its names along.
NamesUnique == NamesUniqueIn(db)

\* The event log is complete: replaying the payloads gives the tables back.
AuditRebuildsInventory == audit = Tables(db)

\* One call relocates one thing: whatever else ends up elsewhere got there
\* inside it, still in the container it was in.
Relocated ==
  {<<"container", c>> : c \in {x \in DOMAIN db.containers \cap DOMAIN db'.containers :
                                 Origin(db.containers, x) # Origin(db'.containers, x)}}
  \cup {<<"item", i>> : i \in {x \in DOMAIN db.items \cap DOMAIN db'.items :
                                 db.items[x].location # db'.items[x].location}}

OneThingMoves == [][\A x, y \in Relocated : x = y]_<<db, audit>>
=============================================================================
