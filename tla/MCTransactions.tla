--------------------------- MODULE MCTransactions ---------------------------
(* A few calls on two rooms, two containers and an item, chosen so that any *)
(* two of them can interfere.                                               *)
EXTENDS Transactions

CONSTANTS c1, c2, n1, n2, d1

Box(room, parent, name) == [room |-> room, parent |-> parent, name |-> name, detail |-> d1]
Thing(at, name) == [location |-> at, name |-> name, detail |-> d1]

MCCalls ==
  {[do |-> "CreateRoom", row |-> [name |-> n1, detail |-> d1]],
   [do |-> "UpdateRoom", id |-> 1, row |-> [name |-> n2, detail |-> d1]],
   [do |-> "DeleteRoom", id |-> 2],
   [do |-> "CreateContainer", row |-> Box(1, Nil, n1)],
   [do |-> "CreateContainer", row |-> Box(2, Nil, n2)],
   [do |-> "UpdateContainer", id |-> 1, row |-> Box(1, 2, n1)],
   [do |-> "MoveContainer", id |-> 2, to |-> ContainerLocation(1)],
   [do |-> "MoveContainer", id |-> 1, to |-> RoomLocation(2)],
   [do |-> "DeleteContainer", id |-> 1],
   [do |-> "CreateItem", row |-> Thing(ContainerLocation(1), n1)],
   [do |-> "UpdateItem", id |-> 1, row |-> Thing(RoomLocation(2), n1)],
   [do |-> "MoveItem", id |-> 1, to |-> RoomLocation(2)],
   [do |-> "DeleteItem", id |-> 1]}
=============================================================================
