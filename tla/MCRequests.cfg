\* Two containers and two rooms: a stale parent closes a loop, a stale room
\* undoes a move between rooms. Two requests also race each other.
SPECIFICATION Spec
CONSTANTS
  Client = {c1, c2}
  Name = {n1, n2}
  Detail = {d1}
  Nil = Nil
  Unchanged = Unchanged
  NoRequest = NoRequest
  MaxRoom = 2
  MaxContainer = 2
  MaxItem = 1
SYMMETRY Symmetry
INVARIANTS
  TypeOK
  NoCycle
  SubtreeSharesRoom
PROPERTIES
  PatchKeepsRoom
