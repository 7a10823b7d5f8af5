----------------------------- MODULE MCAnswers -----------------------------
(* A room 1 with a container 3, and a container 1 in that, which holds an   *)
(* item; or two rooms, one with a container 3 that holds an item, one with a *)
(* container 4. The name 4 is 3 with an accent: another name, that folds    *)
(* alike. Last, where a candidate is taken for another place: the name 6 is  *)
(* "5 > 3", and beside it is a container 3 in a 5; and 3 and 4 are containers *)
(* of one room.                                                             *)
EXTENDS Answers

CONSTANTS d1, d2

MCSpelling == [n \in Name |-> IF n = 6 THEN <<5, 3>> ELSE <<n>>]
MCFolded   == [s \in Name |-> IF s = 4 THEN 3 ELSE s]

Room(name) == [name |-> name, detail |-> d1]
Box(room, parent, name) == [room |-> room, parent |-> parent, name |-> name, detail |-> d1]

Home(rooms, boxes, at) ==
  [rooms |-> rooms, containers |-> boxes,
   items |-> <<[location |-> at, name |-> 1, detail |-> d1]>>,
   lastRoom |-> Len(rooms), lastContainer |-> Len(boxes), lastItem |-> 1]

MCHomes == {Home(<<Room(1)>>, <<Box(1, Nil, 3), Box(1, 1, 1)>>, ContainerLocation(2)),
            Home(<<Room(1), Room(2)>>, <<Box(1, Nil, 3), Box(2, Nil, 4)>>, ContainerLocation(1))}

Twins == {Home(<<Room(1), Room(2)>>,
               <<Box(1, Nil, 5), Box(1, 1, 3), Box(1, Nil, 6), Box(2, Nil, 3), Box(2, Nil, 4)>>,
               ContainerLocation(1))}

Ask == {Request("move_item", 1, <<3>>)}

MCRequests ==
  {Request("get_item", 1, <<>>), Request("search", 0, d1), Request("count_items", 0, <<3>>),
   Request("list_location", 0, <<3>>), Request("get_container", 2, <<>>),
   Request("export", 0, <<>>), Request("move_item", 1, <<3>>), Request("add_item", 2, <<2, 3>>),
   Request("move_container", 1, <<2>>), Request("add_container", 2, <<1, 3>>)}
=============================================================================
