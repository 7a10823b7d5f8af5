\* Two rooms, three containers and one item are enough for a subtree to be
\* moved between rooms, for a cycle, and for a name clash inside a subtree.
SPECIFICATION Spec
CONSTANTS
  Name = {n1, n2, n3}
  Detail = {d1}
  Nil = Nil
  MaxRoom = 2
  MaxContainer = 3
  MaxItem = 1
SYMMETRY NameSymmetry
INVARIANTS
  TablesOK
  ReferencesExist
  SubtreeSharesRoom
  NoCycle
  NamesUnique
  AuditRebuildsInventory
PROPERTIES
  OneThingMoves
