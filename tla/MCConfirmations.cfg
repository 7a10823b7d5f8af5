\* Two calls, two tokens that are redeemed, mistaken or let expire, and two
\* tools whose tables number their rows alike; or two rows of one tool, the
\* second created under a confirmation of the first.
SPECIFICATION Spec
CONSTANTS
  Client = {c1, c2}
  Tool = {delete_item, delete_room}
  Token = {t1, t2}
  NoToken = NoToken
  NoCall = NoCall
  TTL = 1
  MaxRow = 2
  MaxTime = 2
  MaxBoot = 1
SYMMETRY Symmetry
INVARIANTS
  TypeOK
  TokensAreSpentOnce
PROPERTIES
  ConfirmedWasProposed
  MistakesCancelNothing
  NothingNewIsCondemned
