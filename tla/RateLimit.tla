------------------------------ MODULE RateLimit ------------------------------
(***************************************************************************)
(* The two limits that every request passes before the handlers            *)
(* (internal/server/middleware.go), keyed by the address it comes from:    *)
(*   writes    rateLimit counts a mutating request, and refuses it beyond  *)
(*             the limit;                                                  *)
(*   failures  authFailureLimit refuses an address that has reached the    *)
(*             limit, and counts a failure after the handler has answered. *)
(* Both are fixed windows: a map of counters behind a mutex, which reads   *)
(* the clock while it is held. Other requests come in between the steps of *)
(* one. A refusal carries Retry-After, in seconds.                         *)
(***************************************************************************)
EXTENDS Integers, FiniteSets

CONSTANTS
  Request,      \* the requests in flight at a time
  IP,           \* where they come from
  Watched,      \* the address whose history is kept
  WriteLimit,   \* per window; 0 disables
  FailureLimit,
  Window,       \* its length, in ticks of the clock
  Second,       \* the ticks in a second
  Threshold,    \* from how many counters on the expired ones are dropped
  Idle, Never,
  MaxTime,      \* bounds on the clock
  MaxExcess     \* and on the requests an address has counted beyond a limit

Table == {"writes", "failures"}

ASSUME LimitAssumption == WriteLimit \in Nat /\ FailureLimit \in Nat /\ Threshold \in Nat
ASSUME WatchedAssumption == Watched \in IP
ASSUME ClockAssumption == Window \in Nat \ {0} /\ Second \in Nat \ {0}
ASSUME FiniteAssumption == IsFiniteSet(Request) /\ IsFiniteSet(IP)
ASSUME BoundsAssumption == MaxTime \in Nat /\ MaxExcess \in [Table -> [IP -> Nat]]

Limit == [t \in Table |-> IF t = "writes" THEN WriteLimit ELSE FailureLimit]

VARIABLES
  now,     \* the clock
  keys,    \* fixedWindow.keys of each table
  at,      \* how far each request is
  passed,  \* history: the writes of one address let through of late
  told     \* history: what its last refusal by each limit said

vars == <<now, keys, at, passed, told>>

NoKeys == [k \in {} |-> k]

-----------------------------------------------------------------------------
(* fixedWindow.                                                            *)

Over(counter) == now > counter.reset

\* Mutant: everything goes.
SweptClean(counters) ==
  IF Cardinality(DOMAIN counters) < Threshold THEN counters ELSE NoKeys

\* cleanup
Swept(counters) ==
  IF Cardinality(DOMAIN counters) < Threshold THEN counters
  ELSE [k \in {x \in DOMAIN counters : ~Over(counters[x])} |-> counters[k]]

\* Mutant: a new window begins without the event that opens it.
CountedFromZero(counters, ip) ==
  IF ip \in DOMAIN counters /\ ~Over(counters[ip])
  THEN [counters EXCEPT ![ip].count = @ + 1]
  ELSE LET kept == Swept(counters) IN
       [k \in DOMAIN kept \cup {ip} |->
          IF k = ip THEN [count |-> 0, reset |-> now + Window] ELSE kept[k]]

\* allow: one more for ip, in the window it is in or in a new one.
Counted(counters, ip) ==
  IF ip \in DOMAIN counters /\ ~Over(counters[ip])
  THEN [counters EXCEPT ![ip].count = @ + 1]
  ELSE LET kept == Swept(counters) IN
       [k \in DOMAIN kept \cup {ip} |->
          IF k = ip THEN [count |-> 1, reset |-> now + Window] ELSE kept[k]]

\* Mutant: compared before it is incremented.
ExceedsLate(counter, table) == counter.count > Limit[table] + 1
\* allow: whether what was just counted is too much.
Exceeds(counter, table) == counter.count > Limit[table]

\* Mutant: one failure too many.
BlockedLate(counters, ip, table) ==
  /\ ip \in DOMAIN counters
  /\ now < counters[ip].reset
  /\ counters[ip].count > Limit[table]

\* retryAfter > 0
Blocked(counters, ip, table) ==
  /\ ip \in DOMAIN counters
  /\ now < counters[ip].reset
  /\ counters[ip].count >= Limit[table]

\* Mutant: rounded up, which is no wait at all when the window ends just now.
RetryAfterRoundedUp(counter) == (counter.reset - now + Second - 1) \div Second
\* The seconds to wait: those left of the window rounded down, and one.
RetryAfter(counter) == (counter.reset - now) \div Second + 1

-----------------------------------------------------------------------------
Init ==
  /\ now = 0
  /\ keys = [t \in Table |-> NoKeys]
  /\ at = [q \in Request |-> Idle]
  /\ passed = {}
  /\ told = [t \in Table |-> Never]

Goes(q, ip, stage) == at' = [at EXCEPT ![q] = [ip |-> ip, stage |-> stage]]
Ends(q) == at' = [at EXCEPT ![q] = Idle]

\* A 429: what Retry-After says, as a time, and of which window.
Refuse(table, ip, counter) ==
  LET answer == [said |-> now, until |-> now + RetryAfter(counter) * Second,
                 reset |-> counter.reset]
  IN  told' = IF ip = Watched THEN [told EXCEPT ![table] = answer] ELSE told

\* A write let through: when, in which window, and as which one of it.
LetThrough(counter) == [time |-> now, window |-> counter.reset, number |-> counter.count]

\* A mutating request, over the API or to /mcp.
ArriveWriting(q, ip) ==
  /\ at[q] = Idle /\ WriteLimit > 0
  /\ ip \in DOMAIN keys["writes"] => keys["writes"][ip].count < WriteLimit + MaxExcess["writes"][ip]
  /\ LET counters == Counted(keys["writes"], ip) IN
     /\ keys' = [keys EXCEPT !["writes"] = counters]
     /\ IF Exceeds(counters[ip], "writes")
        THEN Refuse("writes", ip, counters[ip]) /\ UNCHANGED <<at, passed>>
        ELSE /\ Goes(q, ip, "passed")
             /\ passed' = IF ip = Watched THEN passed \cup {LetThrough(counters[ip])}
                                        ELSE passed
             /\ UNCHANGED told
  /\ UNCHANGED now

\* Any other request, and every one when the limit is off.
ArriveReading(q, ip) ==
  /\ at[q] = Idle
  /\ Goes(q, ip, "passed")
  /\ UNCHANGED <<now, keys, passed, told>>

\* bodyLimit answers 413 before authentication.
TooLarge(q) ==
  /\ at[q] # Idle /\ at[q].stage = "passed"
  /\ Ends(q)
  /\ UNCHANGED <<now, keys, passed, told>>

\* The failure limit, before the handler.
Admit(q) ==
  /\ at[q] # Idle /\ at[q].stage = "passed"
  /\ LET ip == at[q].ip IN
     IF FailureLimit > 0 /\ Blocked(keys["failures"], ip, "failures")
     THEN Refuse("failures", ip, keys["failures"][ip]) /\ Ends(q)
     ELSE Goes(q, ip, "handling") /\ UNCHANGED told
  /\ UNCHANGED <<now, keys, passed>>

Succeed(q) ==
  /\ at[q] # Idle /\ at[q].stage = "handling"
  /\ Ends(q)
  /\ UNCHANGED <<now, keys, passed, told>>

\* The handler has answered 401.
FailAuthentication(q) ==
  /\ at[q] # Idle /\ at[q].stage = "handling"
  /\ LET ip == at[q].ip IN
     /\ ip \in DOMAIN keys["failures"] =>
          keys["failures"][ip].count < FailureLimit + MaxExcess["failures"][ip]
     /\ IF FailureLimit > 0 THEN keys' = [keys EXCEPT !["failures"] = Counted(@, ip)]
                            ELSE UNCHANGED keys
  /\ Ends(q)
  /\ UNCHANGED <<now, passed, told>>

Tick ==
  /\ now < MaxTime /\ now' = now + 1
  /\ passed' = {p \in passed : now' - p.time <= Window}
  /\ UNCHANGED <<keys, at, told>>

\* The counters are in memory, and the clock they are compared with is the
\* monotonic one of the process.
Restart ==
  /\ now' = 0
  /\ keys' = [t \in Table |-> NoKeys]
  /\ at' = [q \in Request |-> Idle]
  /\ passed' = {}
  /\ told' = [t \in Table |-> Never]

Next ==
  \/ \E q \in Request :
       \/ \E ip \in IP : ArriveWriting(q, ip) \/ ArriveReading(q, ip)
       \/ TooLarge(q) \/ Admit(q) \/ Succeed(q) \/ FailAuthentication(q)
  \/ Tick
  \/ Restart

Spec == Init /\ [][Next]_vars

-----------------------------------------------------------------------------
(* What must hold.                                                         *)

Write == [time : 0 .. MaxTime, window : 0 .. MaxTime + Window, number : 1 .. WriteLimit]
Refusal == [said : 0 .. MaxTime, until : Nat, reset : 0 .. MaxTime + Window]

Counters == [count : Nat \ {0}, reset : 0 .. now + Window]

TypeOK ==
  /\ now \in 0 .. MaxTime
  /\ DOMAIN keys = Table
  /\ \A t \in Table :
       /\ DOMAIN keys[t] \subseteq IP
       /\ \A ip \in DOMAIN keys[t] : keys[t][ip] \in Counters
  /\ at \in [Request -> [ip : IP, stage : {"passed", "handling"}] \cup {Idle}]
  /\ passed \subseteq Write
  /\ told \in [Table -> Refusal \cup {Never}]

\* The windows are fixed and not sliding, so one may end and the next begin
\* within a minute, though not with the request that opened the first: of an
\* address, less than twice the limit of writes are let through in any minute,
\* however its requests and others' are interleaved.
LessThanTwiceTheLimit == WriteLimit > 0 => Cardinality(passed) < 2 * WriteLimit

\* Failures are counted after the handler, so requests in flight together pass
\* the check together: a window holds no more failures than the limit and the
\* other requests in flight. (At the instant of its reset the check lets all
\* in, and a failure still counts in the old window.)
OvershootIsConcurrency ==
  FailureLimit > 0 =>
    \A ip \in DOMAIN keys["failures"] :
      now < keys["failures"][ip].reset =>
        keys["failures"][ip].count <= FailureLimit + Cardinality(Request) - 1

\* Retry-After is true: a client that waits as long as it was told is not
\* refused on account of the same window again.
RetryAfterIsTrue ==
  [][\A t \in Table :
       /\ told[t] # Never /\ told'[t] # Never /\ told'[t] # told[t]
       /\ now >= told[t].until
       => told'[t].reset # told[t].reset]_vars

\* A window under way is neither forgotten nor extended, by the requests it
\* refuses or by the sweep that another address sets off; and past the
\* threshold the sweep leaves nothing that has expired. Only a restart leaves
\* no counter at all.
WindowsRunTheirCourse ==
  [][(\E t \in Table : DOMAIN keys'[t] # {}) => \A t \in Table :
       /\ \A ip \in DOMAIN keys[t] :
            now <= keys[t][ip].reset =>
              /\ ip \in DOMAIN keys'[t]
              /\ keys'[t][ip].reset = keys[t][ip].reset
              /\ keys'[t][ip].count >= keys[t][ip].count
       /\ DOMAIN keys'[t] \ DOMAIN keys[t] # {}
            /\ Cardinality(DOMAIN keys'[t]) > Threshold
          => \A ip \in DOMAIN keys'[t] : now <= keys'[t][ip].reset]_vars
=============================================================================
