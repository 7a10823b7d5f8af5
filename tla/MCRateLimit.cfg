\* Two requests and two addresses: a window that ends while a request is in
\* the handler, and a sweep set off by the other address.
SPECIFICATION Spec
CONSTANTS
  Request = {q1, q2}
  IP = {ip1, ip2}
  Watched = ip1
  WriteLimit = 2
  FailureLimit = 1
  Window = 2
  Second = 2
  Threshold = 1
  Idle = Idle
  Never = Never
  MaxTime = 3
  MaxExcess <- MCExcess
SYMMETRY Symmetry
INVARIANTS
  TypeOK
  LessThanTwiceTheLimit
  OvershootIsConcurrency
PROPERTIES
  RetryAfterIsTrue
  WindowsRunTheirCourse
