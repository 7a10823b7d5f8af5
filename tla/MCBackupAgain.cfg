\* A document whose only container is written with a blank before its name.
SPECIFICATION Spec
CONSTANTS
  d1 = d1
  d2 = d2
  Documents <- Blank
  Written = {1, 2, 11, 12}
  Trim <- MCTrim
  Text = {d1, d2}
  Stored <- MCStored
  NoName = NoName
  Name = {1, 2}
  Detail = {d1, d2}
  Nil = Nil
  MaxRoom = 1
  MaxContainer = 2
  MaxItem = 0
PROPERTIES
  SecondImportIsQuiet
