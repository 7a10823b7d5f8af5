\* A document that hangs one container from another it does not mention.
SPECIFICATION Spec
CONSTANTS
  d1 = d1
  d2 = d2
  Documents <- Rehang
  Written = {1, 2}
  Trim <- MCTrim
  Text = {d1, d2}
  Stored <- MCStored
  NoName = NoName
  Name = {1, 2}
  Detail = {d1, d2}
  Nil = Nil
  MaxRoom = 1
  MaxContainer = 2
  MaxItem = 0
INVARIANTS
  RefusedWritesNothing
