\* One PATCH and one move are enough to undo the move.
SPECIFICATION Spec
CONSTANTS
  Client = {c1}
  Name = {n1, n2}
  Detail = {d1}
  Nil = Nil
  Unchanged = Unchanged
  NoRequest = NoRequest
  MaxRoom = 2
  MaxContainer = 1
  MaxItem = 1
SYMMETRY Symmetry
PROPERTIES
  PatchMovesNothing
