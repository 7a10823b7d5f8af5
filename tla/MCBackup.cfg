\* Documents as an export writes them.
SPECIFICATION Spec
CONSTANTS
  d1 = d1
  d2 = d2
  Documents <- Whole
  Written = {1, 2}
  Trim <- MCTrim
  Text = {d1, d2}
  Stored <- MCStored
  NoName = NoName
  Name = {1, 2}
  Detail = {d1, d2}
  Nil = Nil
  MaxRoom = 2
  MaxContainer = 2
  MaxItem = 1
INVARIANTS
  TypeOK
  ImportedAsWritten
PROPERTIES
  OnlyMentionedChanges
  SecondImportIsQuiet
