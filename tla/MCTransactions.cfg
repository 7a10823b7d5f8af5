\* Two requests at a time: every conflict is between a transaction that has
\* read and one that writes, and every wait is for the one that writes.
SPECIFICATION FairSpec
CONSTANTS
  c1 = c1
  c2 = c2
  n1 = n1
  n2 = n2
  d1 = d1
  Client = {c1, c2}
  Name = {n1, n2}
  Detail = {d1}
  Calls <- MCCalls
  Nil = Nil
  NoClient = NoClient
  NoCall = NoCall
  NoEvent = NoEvent
  MaxRoom = 2
  MaxContainer = 2
  MaxItem = 1
INVARIANTS
  TypeOK
PROPERTIES
  RefusalsAreTrue
  Atomic
  EveryCallIsAnswered
