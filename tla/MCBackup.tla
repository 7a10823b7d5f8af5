------------------------------ MODULE MCBackup ------------------------------
(* Documents over two rooms, the containers 1 and 2 of the first and 1 of   *)
(* the second, and an item. The names from 11 on are those from 1 on with a *)
(* blank before them; texts are as the database reads them back.            *)
EXTENDS Backup, TLC

CONSTANTS d1, d2

MCTrim   == [n \in Written |-> n % 10]
MCStored == [t \in Text |-> t]

In(room, name) == ContainerKey(room, name)
Hung(parent) == [parent |-> parent, detail |-> d1]

Rooms(R, text) == [n \in R |-> text]
Items(K, text) == [k \in K |-> text]
Doc(rooms, containers, items) == [rooms |-> rooms, containers |-> containers, items |-> items]

\* Nested either way, in a circle, under one the document leaves out; apart;
\* in a room the document leaves out.
Whole ==
  {Doc(Rooms({1}, d1), cs, Items({ItemKey("container", 1, 1, 1)}, d1)) : cs \in
     {In(1, 1) :> Hung(NoName) @@ In(1, 2) :> Hung(1),
      In(1, 1) :> Hung(2) @@ In(1, 2) :> Hung(NoName),
      In(1, 1) :> Hung(2) @@ In(1, 2) :> Hung(1),
      In(1, 1) :> Hung(2)}}
  \cup
  {Doc(Rooms({1, 2}, d1), In(1, 1) :> Hung(NoName) @@ In(2, 1) :> Hung(NoName),
       Items({ItemKey("container", 2, 1, 1)}, d1)),
   Doc(NoRows, In(2, 2) :> Hung(NoName), Items({ItemKey("room", 2, NoName, 1)}, d1))}

\* One container to hang from another.
Rehang == {Doc(Rooms({1}, d2), In(1, 1) :> Hung(2), Items({}, d1))}

\* A container with a blank before its name.
Blank == {Doc(Rooms({1}, d1), In(1, 11) :> Hung(NoName), Items({}, d1))}
=============================================================================
