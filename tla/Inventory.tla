----------------------------- MODULE Inventory -----------------------------
(***************************************************************************)
(* The inventory as its persistence ports promise it                       *)
(* (internal/inventory/repository.go): every mutation of a room, container *)
(* or item happens at once, together with the event that records it.       *)
(* Transactions refines this module statement by statement.                *)
(*                                                                         *)
(* The events table only grows, so it is kept as what it is for: `audit`   *)
(* is the inventory that a reader of the log rebuilds from the payloads    *)
(* alone, one event at a time.                                             *)
(***************************************************************************)
EXTENDS Database

vars == <<db, audit>>

-----------------------------------------------------------------------------
(* Reading the log back.                                                   *)

\* A container event that moves c carries its two places only: everything
\* whose chain of parents leads to c follows it into the room.
ReplayContainerMove(view, c, to) ==
  LET room  == IF to.kind = "room" THEN to.id ELSE view.containers[to.id].room
      above == [x \in DOMAIN view.containers |-> Walk(view.containers, x)]
  IN [x \in DOMAIN view.containers |->
        [room   |-> IF c \in above[x] THEN room ELSE view.containers[x].room,
         parent |-> IF x # c THEN view.containers[x].parent
                    ELSE IF to.kind = "room" THEN Nil ELSE to.id,
         name   |-> view.containers[x].name,
         detail |-> view.containers[x].detail]]

Replay(view, e) ==
  CASE e.type \in {"room.created", "room.updated"} ->
         View(Put(view.rooms, e.id, e.row), view.containers, view.items)
    [] e.type = "room.deleted" ->
         View(Without(view.rooms, e.id), view.containers, view.items)
    [] e.type \in {"container.created", "container.updated"} ->
         View(view.rooms, Put(view.containers, e.id, e.row), view.items)
    [] e.type = "container.moved" ->
         View(view.rooms, ReplayContainerMove(view, e.id, e.to), view.items)
    [] e.type = "container.deleted" ->
         View(view.rooms, Without(view.containers, e.id), view.items)
    [] e.type \in {"item.created", "item.updated"} ->
         View(view.rooms, view.containers, Put(view.items, e.id, e.row))
    [] e.type = "item.moved" ->
         View(view.rooms, view.containers, [view.items EXCEPT ![e.id].location = e.to])
    [] e.type = "item.deleted" ->
         View(view.rooms, view.containers, Without(view.items, e.id))

-----------------------------------------------------------------------------
(* The mutations. Each commits its write and its event together.           *)

Commit(after, event) == db' = after /\ audit' = Replay(audit, event)

Init == db = EmptyDB /\ audit = Tables(EmptyDB)

CreateRoom(row) ==
  /\ db.lastRoom < MaxRoom
  /\ RoomCreateClash(db, row) = Ok
  /\ Commit(RoomCreate(db, row), StateEvent("room.created", NewRoom(db), row))

UpdateRoom(r, row) ==
  /\ RoomUpdateClash(db, r, row) = Ok
  /\ Commit(RoomUpdate(db, r, row), StateEvent("room.updated", r, row))

DeleteRoom(r) ==
  /\ RoomDeleteChecks(db, r) = Ok
  /\ Commit(RoomDelete(db, r), StateEvent("room.deleted", r, db.rooms[r]))

CreateContainer(row) ==
  /\ db.lastContainer < MaxContainer
  /\ ContainerCreateChecks(db, row) = Ok
  /\ ContainerCreateClash(db, row) = Ok
  /\ Commit(ContainerCreate(db, row),
            StateEvent("container.created", NewContainer(db), row))

UpdateContainer(c, row) ==
  /\ ContainerUpdateChecks(db, c, row) = Ok
  /\ ContainerUpdateClash(db, c, row) = Ok
  /\ Commit(ContainerUpdate(db, c, row),
            StateEvent("container.updated", c, ContainerUpdated(db, c, row)))

MoveContainer(c, to) ==
  /\ ContainerMoveChecks(db, c, to) = Ok
  /\ ContainerMoveClash(db, c, to) = Ok
  /\ Commit(ContainerMove(db, c, to),
            MoveEvent("container.moved", c, Origin(db.containers, c), to))

DeleteContainer(c) ==
  /\ ContainerDeleteChecks(db, c) = Ok
  /\ Commit(ContainerDelete(db, c),
            StateEvent("container.deleted", c, db.containers[c]))

CreateItem(row) ==
  /\ db.lastItem < MaxItem
  /\ ItemCreateChecks(db, row) = Ok
  /\ ItemCreateClash(db, row) = Ok
  /\ Commit(ItemCreate(db, row), StateEvent("item.created", NewItem(db), row))

UpdateItem(i, row) ==
  /\ ItemUpdateChecks(db, i, row) = Ok
  /\ ItemUpdateClash(db, i, row) = Ok
  /\ Commit(ItemUpdate(db, i, row), StateEvent("item.updated", i, row))

MoveItem(i, to) ==
  /\ ItemMoveChecks(db, i, to) = Ok
  /\ ItemMoveClash(db, i, to) = Ok
  /\ Commit(ItemMove(db, i, to),
            MoveEvent("item.moved", i, db.items[i].location, to))

DeleteItem(i) ==
  /\ ItemDeleteChecks(db, i) = Ok
  /\ Commit(ItemDelete(db, i), StateEvent("item.deleted", i, db.items[i]))

\* The reads (Get, List, ListByRoom, Path, ListByLocation, Search), and every
\* call answered with an error, leave the database alone.
Read == UNCHANGED vars

Next ==
  \/ \E row \in RoomRow : CreateRoom(row)
  \/ \E r \in RoomID, row \in RoomRow : UpdateRoom(r, row)
  \/ \E r \in RoomID : DeleteRoom(r)
  \/ \E row \in ContainerRow : CreateContainer(row)
  \/ \E c \in ContainerID, row \in ContainerRow : UpdateContainer(c, row)
  \/ \E c \in ContainerID, to \in Location : MoveContainer(c, to)
  \/ \E c \in ContainerID : DeleteContainer(c)
  \/ \E row \in ItemRow : CreateItem(row)
  \/ \E i \in ItemID, row \in ItemRow : UpdateItem(i, row)
  \/ \E i \in ItemID, to \in Location : MoveItem(i, to)
  \/ \E i \in ItemID : DeleteItem(i)
  \/ Read

Spec == Init /\ [][Next]_vars
=============================================================================
