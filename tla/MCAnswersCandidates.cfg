\* A container in another beside one whose name reads like that path, and two
\* containers of one room whose names differ in an accent.
SPECIFICATION Spec
CONSTANTS
  d1 = d1
  d2 = d2
  Homes <- Twins
  Requests <- Ask
  Spelling <- MCSpelling
  Folded <- MCFolded
  Plain = d1
  NoLabels = NoLabels
  MaxOthers = 0
  Name = {1, 2, 3, 4, 5, 6}
  Detail = {d1, d2}
  Nil = Nil
  MaxRoom = 2
  MaxContainer = 5
  MaxItem = 1
INVARIANTS
  CandidatesCanBeChosen
