SPECIFICATION Spec
CONSTANTS
  d1 = d1
  d2 = d2
  Homes <- MCHomes
  Requests <- MCRequests
  Spelling <- MCSpelling
  Folded <- MCFolded
  Plain = d1
  NoLabels = NoLabels
  MaxOthers = 2
  Name = {1, 2, 3, 4}
  Detail = {d1, d2}
  Nil = Nil
  MaxRoom = 2
  MaxContainer = 3
  MaxItem = 2
INVARIANTS
  TypeOK
  WhatStandsStillIsTrue
  OneWriteCannotTear
  ExportIsImportable
  PlainCandidatesCanBeChosen
PROPERTIES
  ActsWhereNamed
