-------------------------- MODULE RateLimitProofs --------------------------
(***************************************************************************)
(* What the two limits can promise, for any number of requests and         *)
(* addresses, any limits and any clock: less than twice the limit of       *)
(* writes in a minute, an overshoot of failures by at most the other       *)
(* requests in flight, a Retry-After that is true, and windows that run    *)
(* their course.                                                           *)
(***************************************************************************)
EXTENDS RateLimit, FiniteSetTheorems, TLAPS

\* The requests of an address whose handler is running.
Handling(ip) == {q \in Request : at[q] # Idle /\ at[q].ip = ip /\ at[q].stage = "handling"}

\* Every one of them passed the check below the limit, or is already counted.
RoomForFailures ==
  FailureLimit > 0 =>
    \A ip \in DOMAIN keys["failures"] :
      now < keys["failures"][ip].reset =>
        keys["failures"][ip].count + Cardinality(Handling(ip))
          <= FailureLimit + Cardinality(Request) - 1

\* Retry-After points past the end of the window it speaks of.
ToldPastReset == \A t \in Table : told[t] # Never => told[t].until > told[t].reset

\* The writes let through of late: each in its window, the first of a window at
\* its beginning, no two windows overlapping, and those of the window under way
\* behind its counter.
InItsWindow ==
  \A p \in passed :
    /\ p.window - Window <= p.time /\ p.time <= p.window
    /\ p.time <= now /\ now - p.time <= Window
    /\ p.number = 1 => p.time = p.window - Window

BehindCounter ==
  \A p \in passed :
    now <= p.window =>
      /\ Watched \in DOMAIN keys["writes"]
      /\ keys["writes"][Watched].reset = p.window
      /\ p.number <= keys["writes"][Watched].count

WindowsApart ==
  /\ \A p, q \in passed :
       /\ p.window = q.window /\ p.number = q.number => p = q
       /\ p.window < q.window => p.window < q.window - Window
  /\ Watched \in DOMAIN keys["writes"] =>
       \A p \in passed : \/ p.window = keys["writes"][Watched].reset
                         \/ p.window < keys["writes"][Watched].reset - Window

RecentWrites == InItsWindow /\ BehindCounter /\ WindowsApart

IInv == TypeOK /\ RoomForFailures /\ ToldPastReset /\ RecentWrites

-----------------------------------------------------------------------------
(* One counter more.                                                       *)

Counter == [count : Int, reset : Int]

\* The counted address is in its window or in a new one; the others keep theirs,
\* but for the expired ones.
LEMMA CountedIs ==
  ASSUME NEW counters, NEW ip, \A k \in DOMAIN counters : counters[k] \in Counter
  PROVE  LET after == Counted(counters, ip) IN
         /\ ip \in DOMAIN after /\ DOMAIN after \subseteq DOMAIN counters \cup {ip}
         /\ \A k \in DOMAIN after \ {ip} : after[k] = counters[k]
         /\ \A k \in DOMAIN counters : ~Over(counters[k]) => k \in DOMAIN after
         /\ IF ip \in DOMAIN counters /\ ~Over(counters[ip])
            THEN after[ip] = [count |-> counters[ip].count + 1, reset |-> counters[ip].reset]
            ELSE after[ip] = [count |-> 1, reset |-> now + Window]
<1> DEFINE after == Counted(counters, ip)
<1>1. CASE ip \in DOMAIN counters /\ ~Over(counters[ip])
  <2>1. after = [counters EXCEPT ![ip].count = @ + 1]
    BY <1>1 DEF Counted
  <2>2. after[ip] = [count |-> counters[ip].count + 1, reset |-> counters[ip].reset]
    BY <1>1, <2>1 DEF Counter
  <2> QED BY <1>1, <2>1, <2>2
<1>2. CASE ~(ip \in DOMAIN counters /\ ~Over(counters[ip]))
  <2> DEFINE kept == Swept(counters)
  <2>1. /\ DOMAIN kept \subseteq DOMAIN counters
        /\ \A k \in DOMAIN kept : kept[k] = counters[k]
        /\ \A k \in DOMAIN counters : ~Over(counters[k]) => k \in DOMAIN kept
    BY DEF Swept
  <2>2. after = [k \in DOMAIN kept \cup {ip} |->
                   IF k = ip THEN [count |-> 1, reset |-> now + Window] ELSE kept[k]]
    BY <1>2, Zenon DEF Counted
  <2> HIDE DEF kept
  <2> QED BY <1>2, <2>1, <2>2
<1> QED BY <1>1, <1>2

\* The seconds to wait, rounded down and one more, reach past the window.
LEMMA Waits ==
  ASSUME NEW n \in Nat, NEW r \in Nat, n <= r
  PROVE  LET until == n + ((r - n) \div Second + 1) * Second
         IN  until \in Nat /\ until > r
<1> DEFINE x == r - n
           q == x \div Second
<1>1. x \in Nat /\ Second \in Nat /\ Second > 0
  BY ClockAssumption
<1>2. q \in Nat /\ x < (q + 1) * Second
  BY <1>1, Z3
<1>3. (q + 1) * Second \in Nat
  BY <1>1, <1>2
<1> HIDE DEF q
<1> QED BY <1>1, <1>2, <1>3

LEMMA Limits == ASSUME NEW t \in Table PROVE Limit[t] \in Nat
BY LimitAssumption DEF Limit

LEMMA TypedCounters ==
  ASSUME TypeOK, NEW t \in Table, NEW ip \in DOMAIN keys[t]
  PROVE  /\ keys[t][ip] \in Counters /\ keys[t][ip] \in Counter
         /\ keys[t][ip].count \in Int /\ keys[t][ip].reset \in Nat /\ now \in Nat
         /\ keys[t][ip].reset <= MaxTime + Window
<1>1. keys[t][ip] \in Counters /\ now \in Nat /\ now <= MaxTime
  BY BoundsAssumption DEF TypeOK
<1>2. Limit[t] \in Nat /\ Window \in Nat /\ MaxTime \in Nat
  BY Limits, BoundsAssumption, ClockAssumption
<1> QED BY <1>1, <1>2 DEF Counters, Counter

LEMMA CountedOnce ==
  ASSUME TypeOK, NEW t \in Table, NEW ip
  PROVE  LET after == Counted(keys[t], ip) IN
         /\ ip \in DOMAIN after /\ DOMAIN after \subseteq DOMAIN keys[t] \cup {ip}
         /\ \A k \in DOMAIN after \ {ip} : after[k] = keys[t][k]
         /\ \A k \in DOMAIN keys[t] : ~Over(keys[t][k]) => k \in DOMAIN after
         /\ IF ip \in DOMAIN keys[t] /\ ~Over(keys[t][ip])
            THEN after[ip] = [count |-> keys[t][ip].count + 1, reset |-> keys[t][ip].reset]
            ELSE after[ip] = [count |-> 1, reset |-> now + Window]
BY CountedIs, TypedCounters

LEMMA CountedTyped ==
  ASSUME TypeOK, NEW t \in Table, NEW ip \in IP
  PROVE  LET after == Counted(keys[t], ip) IN
         /\ DOMAIN after \subseteq IP /\ ip \in DOMAIN after
         /\ \A k \in DOMAIN after : after[k] \in Counters
         /\ after[ip].reset >= now
<1> DEFINE after == Counted(keys[t], ip)
<1>1. /\ ip \in DOMAIN after /\ DOMAIN after \subseteq DOMAIN keys[t] \cup {ip}
      /\ \A k \in DOMAIN after \ {ip} : after[k] = keys[t][k]
      /\ IF ip \in DOMAIN keys[t] /\ ~Over(keys[t][ip])
         THEN after[ip] = [count |-> keys[t][ip].count + 1, reset |-> keys[t][ip].reset]
         ELSE after[ip] = [count |-> 1, reset |-> now + Window]
  BY CountedOnce
<1>2. DOMAIN keys[t] \subseteq IP /\ \A k \in DOMAIN keys[t] : keys[t][k] \in Counters
  BY DEF TypeOK
<1>3. now \in Nat /\ Limit[t] \in Nat /\ Window \in Nat
  BY Limits, BoundsAssumption, ClockAssumption DEF TypeOK
<1> HIDE DEF after
<1>4. after[ip] \in Counters /\ after[ip].reset >= now
  <2>1. CASE ip \in DOMAIN keys[t] /\ ~Over(keys[t][ip])
    <3>1. keys[t][ip] \in Counters /\ now <= keys[t][ip].reset
      BY <1>2, <1>3, <2>1, TypedCounters DEF Over
    <3> QED BY <1>1, <1>3, <2>1, <3>1 DEF Counters
  <2>2. CASE ~(ip \in DOMAIN keys[t] /\ ~Over(keys[t][ip]))
    BY <1>1, <1>3, <2>2 DEF Counters
  <2> QED BY <2>1, <2>2
<1> QED BY <1>1, <1>2, <1>4 DEF after

\* A refusal tells the watched address a time past the window.
LEMMA RefuseTells ==
  ASSUME TypeOK, ToldPastReset, NEW t \in Table, NEW ip, NEW counter \in Counters,
         now <= counter.reset, Refuse(t, ip, counter)
  PROVE  /\ told' \in [Table -> Refusal \cup {Never}]
         /\ \A u \in Table : told'[u] # Never => told'[u].until > told'[u].reset
         /\ \A u \in Table : told'[u] # told[u] =>
              u = t /\ told'[u].reset = counter.reset
<1> DEFINE answer == [said |-> now, until |-> now + RetryAfter(counter) * Second,
                       reset |-> counter.reset]
<1>1. /\ now \in Nat /\ now \in 0 .. MaxTime
      /\ counter.reset \in Nat /\ counter.reset <= MaxTime + Window
  BY BoundsAssumption, ClockAssumption DEF TypeOK, Counters
<1>2. answer.until \in Nat /\ answer.until > answer.reset
  BY <1>1, Waits DEF RetryAfter
<1>3. answer \in Refusal
  BY <1>1, <1>2, BoundsAssumption, ClockAssumption DEF Refusal
<1>4. told' = told \/ told' = [told EXCEPT ![t] = answer]
  BY DEF Refuse
<1> HIDE DEF answer
<1>5. answer.reset = counter.reset
  BY DEF answer
<1> QED BY <1>2, <1>3, <1>4, <1>5 DEF TypeOK, ToldPastReset
-----------------------------------------------------------------------------
(* The requests in a handler.                                              *)

LEMMA HandlingFinite ==
  ASSUME NEW ip
  PROVE  /\ IsFiniteSet(Handling(ip)) /\ IsFiniteSet(Request)
         /\ Cardinality(Handling(ip)) \in Nat /\ Cardinality(Request) \in Nat
         /\ Cardinality(Handling(ip)) <= Cardinality(Request)
<1>1. Handling(ip) \in SUBSET Request
  BY DEF Handling
<1> QED BY <1>1, FiniteAssumption, FS_Subset, FS_CardinalityType

LEMMA HandlingFiniteNext ==
  ASSUME NEW ip
  PROVE  /\ IsFiniteSet(Handling(ip)')
         /\ Cardinality(Handling(ip)') \in Nat
         /\ Cardinality(Handling(ip)') <= Cardinality(Request)
<1>1. Handling(ip)' \in SUBSET Request
  BY DEF Handling
<1> QED BY <1>1, FiniteAssumption, FS_Subset, FS_CardinalityType

LEMMA Fewer ==
  ASSUME NEW ip, Handling(ip)' \subseteq Handling(ip)
  PROVE  Cardinality(Handling(ip)') <= Cardinality(Handling(ip))
BY HandlingFinite, FS_Subset

\* As long as no more are handling and the counters stay.
LEMMA RoomLeft ==
  ASSUME TypeOK, RoomForFailures, now' >= now, now' \in Nat,
         keys'["failures"] = keys["failures"],
         \A ip \in IP : Handling(ip)' \subseteq Handling(ip)
  PROVE  RoomForFailures'
<1> SUFFICES ASSUME FailureLimit > 0, NEW ip \in DOMAIN keys["failures"],
                    now' < keys["failures"][ip].reset
             PROVE  keys["failures"][ip].count + Cardinality(Handling(ip)')
                      <= FailureLimit + Cardinality(Request) - 1
  BY DEF RoomForFailures
<1>1. ip \in IP /\ keys["failures"][ip].count \in Int /\ keys["failures"][ip].reset \in Nat
      /\ now \in Nat
  BY TypedCounters DEF TypeOK, Table
<1>2. keys["failures"][ip].count + Cardinality(Handling(ip)) <= FailureLimit + Cardinality(Request) - 1
  BY <1>1 DEF RoomForFailures
<1> QED BY <1>1, <1>2, Fewer, HandlingFinite, HandlingFiniteNext, LimitAssumption

-----------------------------------------------------------------------------
(* The inductive invariant.                                                *)

LEMMA InitIInv == Init => IInv
<1> SUFFICES ASSUME Init PROVE IInv
  OBVIOUS
<1>1. \A t \in Table : DOMAIN keys[t] = {}
  BY DEF Init, NoKeys
<1>2. TypeOK
  BY <1>1, BoundsAssumption DEF Init, TypeOK
<1>3. RoomForFailures
  BY <1>1 DEF RoomForFailures, Table
<1>4. ToldPastReset
  BY DEF Init, ToldPastReset
<1>5. RecentWrites
  BY <1>1 DEF Init, RecentWrites, InItsWindow, BehindCounter, WindowsApart, Table
<1> QED BY <1>2, <1>3, <1>4, <1>5 DEF IInv

\* What a request counts leaves every counter typed.
LEMMA WritingCounts ==
  ASSUME TypeOK, NEW q \in Request, NEW ip \in IP, ArriveWriting(q, ip)
  PROVE  LET counters == Counted(keys["writes"], ip) IN
         /\ DOMAIN counters \subseteq IP /\ ip \in DOMAIN counters
         /\ \A k \in DOMAIN counters : counters[k] \in Counters
         /\ now <= counters[ip].reset
         /\ now' = now /\ keys' = [keys EXCEPT !["writes"] = counters]
<1>1. /\ WriteLimit > 0 /\ now' = now
      /\ keys' = [keys EXCEPT !["writes"] = Counted(keys["writes"], ip)]
  BY DEF ArriveWriting
<1>2. Limit["writes"] = WriteLimit /\ "writes" \in Table
  BY DEF Limit, Table
<1> DEFINE counters == Counted(keys["writes"], ip)
<1>3. /\ DOMAIN counters \subseteq IP /\ ip \in DOMAIN counters
      /\ \A k \in DOMAIN counters : counters[k] \in Counters
      /\ counters[ip].reset >= now
  BY <1>1, <1>2, CountedTyped
<1> HIDE DEF counters
<1>4. now \in Nat /\ counters[ip].reset \in Int
  BY <1>3, BoundsAssumption, ClockAssumption DEF Counters, TypeOK
<1>5. now <= counters[ip].reset
  BY <1>3, <1>4
<1> QED BY <1>1, <1>3, <1>5 DEF counters

LEMMA FailingCounts ==
  ASSUME TypeOK, NEW q \in Request, FailAuthentication(q), FailureLimit > 0
  PROVE  LET ip       == at[q].ip
             counters == Counted(keys["failures"], ip) IN
         /\ ip \in IP
         /\ DOMAIN counters \subseteq IP
         /\ \A k \in DOMAIN counters : counters[k] \in Counters
         /\ now' = now /\ keys' = [keys EXCEPT !["failures"] = counters]
<1> DEFINE ip == at[q].ip
<1>1. /\ at[q] # Idle /\ now' = now
      /\ keys' = [keys EXCEPT !["failures"] = Counted(keys["failures"], ip)]
  BY DEF FailAuthentication
<1>2. Limit["failures"] = FailureLimit /\ "failures" \in Table
  BY DEF Limit, Table
<1>3. ip \in IP
  BY <1>1 DEF TypeOK
<1> HIDE DEF ip
<1> QED BY <1>1, <1>2, <1>3, CountedTyped DEF ip

LEMMA NextKeys ==
  ASSUME TypeOK, Next
  PROVE  /\ now' \in 0 .. MaxTime
         /\ DOMAIN keys' = Table
         /\ \A t \in Table :
              /\ DOMAIN keys'[t] \subseteq IP
              /\ \A ip \in DOMAIN keys'[t] : keys'[t][ip] \in Counters'
<1> DEFINE Good == /\ now' \in 0 .. MaxTime
                  /\ DOMAIN keys' = Table
                  /\ \A t \in Table :
                       /\ DOMAIN keys'[t] \subseteq IP
                       /\ \A ip \in DOMAIN keys'[t] : keys'[t][ip] \in Counters'
<1>1. ASSUME NEW table \in Table, NEW counters, DOMAIN counters \subseteq IP,
             \A k \in DOMAIN counters : counters[k] \in Counters,
             keys' = [keys EXCEPT ![table] = counters], now' = now
      PROVE  Good
  <2>1. /\ DOMAIN keys' = Table /\ keys'[table] = counters
        /\ \A t \in Table \ {table} : keys'[t] = keys[t]
    BY <1>1 DEF TypeOK
  <2>2. Counters' = Counters
    BY <1>1 DEF Counters
  <2> QED BY <1>1, <2>1, <2>2 DEF TypeOK
<1>2. ASSUME UNCHANGED <<now, keys>> PROVE Good
  BY <1>2 DEF TypeOK, Counters
<1>3. ASSUME NEW q \in Request, NEW ip \in IP, ArriveWriting(q, ip) PROVE Good
  BY <1>1, <1>3, WritingCounts DEF Table
<1>4. ASSUME NEW q \in Request, FailAuthentication(q) PROVE Good
  <2>1. CASE FailureLimit > 0
    BY <1>1, <1>4, <2>1, FailingCounts DEF Table
  <2>2. CASE ~(FailureLimit > 0)
    BY <1>2, <1>4, <2>2 DEF FailAuthentication
  <2> QED BY <2>1, <2>2
<1>5. ASSUME Tick PROVE Good
  <2>1. now' = now + 1 /\ now < MaxTime /\ keys' = keys /\ now \in Nat
    BY <1>5, BoundsAssumption DEF Tick, TypeOK
  <2>2. \A c \in Counters : c \in Counters'
    BY <2>1, ClockAssumption DEF Counters
  <2> QED BY <2>1, <2>2, BoundsAssumption DEF TypeOK
<1>6. ASSUME Restart PROVE Good
  BY <1>6, BoundsAssumption DEF Restart, NoKeys
<1> HIDE DEF Good
<1>7. Good
  BY <1>2, <1>3, <1>4, <1>5, <1>6 DEF Next, ArriveReading, TooLarge, Admit, Succeed
<1> QED BY <1>7 DEF Good

LEMMA NextAt ==
  ASSUME TypeOK, Next
  PROVE  at' \in [Request -> [ip : IP, stage : {"passed", "handling"}] \cup {Idle}]
<1> DEFINE Good == at' \in [Request -> [ip : IP, stage : {"passed", "handling"}] \cup {Idle}]
<1>1. \A q \in Request, ip \in IP, stage \in {"passed", "handling"} : Goes(q, ip, stage) => Good
  BY DEF Goes, TypeOK
<1>2. \A q \in Request : Ends(q) => Good
  BY DEF Ends, TypeOK
<1>3. UNCHANGED at => Good
  BY DEF TypeOK
<1>4. \A q \in Request : at[q] # Idle => at[q].ip \in IP
  BY DEF TypeOK
<1>5. Restart => Good
  BY DEF Restart
<1> HIDE DEF Good
<1>6. \A q \in Request : \A ip \in IP : ArriveWriting(q, ip) \/ ArriveReading(q, ip) => Good
  BY <1>1, <1>3 DEF ArriveWriting, ArriveReading
<1>7. \A q \in Request : TooLarge(q) \/ Succeed(q) \/ FailAuthentication(q) => Good
  BY <1>2 DEF TooLarge, Succeed, FailAuthentication
<1>8. \A q \in Request : Admit(q) => Good
  BY <1>1, <1>2, <1>4 DEF Admit
<1>9. Good
  BY <1>3, <1>5, <1>6, <1>7, <1>8 DEF Next, Tick
<1> QED BY <1>9 DEF Good

LEMMA BlockedCounter ==
  ASSUME TypeOK, NEW q \in Request, at[q] # Idle,
         Blocked(keys["failures"], at[q].ip, "failures")
  PROVE  keys["failures"][at[q].ip] \in Counters
         /\ now <= keys["failures"][at[q].ip].reset
<1>1. /\ at[q].ip \in DOMAIN keys["failures"]
      /\ now < keys["failures"][at[q].ip].reset /\ "failures" \in Table
  BY DEF Blocked, Table
<1> QED BY <1>1, TypedCounters

\* A step that changes what was told is a refusal, or a restart.
LEMMA Tells ==
  ASSUME TypeOK, ToldPastReset, Next
  PROVE  \/ UNCHANGED told
         \/ told' = [t \in Table |-> Never]
         \/ \E t \in Table, ip \in IP : \E counter \in Counters :
              now <= counter.reset /\ now' = now /\ Refuse(t, ip, counter)
<1>1. ASSUME NEW q \in Request, NEW ip \in IP, ArriveWriting(q, ip), ~UNCHANGED told
      PROVE  \E t \in Table : \E counter \in Counters :
               now <= counter.reset /\ now' = now /\ Refuse(t, ip, counter)
  <2>1. Refuse("writes", ip, Counted(keys["writes"], ip)[ip])
    BY <1>1 DEF ArriveWriting
  <2>2. "writes" \in Table
    BY DEF Table
  <2> QED BY <1>1, <2>1, <2>2, WritingCounts
<1>2. ASSUME NEW q \in Request, Admit(q), ~UNCHANGED told
      PROVE  \E t \in Table, ip \in IP : \E counter \in Counters :
               now <= counter.reset /\ now' = now /\ Refuse(t, ip, counter)
  <2>1. /\ at[q] # Idle /\ now' = now /\ Blocked(keys["failures"], at[q].ip, "failures")
        /\ Refuse("failures", at[q].ip, keys["failures"][at[q].ip])
    BY <1>2 DEF Admit
  <2>2. "failures" \in Table /\ at[q].ip \in IP
    BY <2>1 DEF Table, TypeOK
  <2> QED BY <2>1, <2>2, BlockedCounter
<1> QED
  BY <1>1, <1>2 DEF Next, ArriveReading, TooLarge, Succeed, FailAuthentication, Tick, Restart

LEMMA NextTold ==
  ASSUME TypeOK, ToldPastReset, Next
  PROVE  told' \in [Table -> Refusal \cup {Never}] /\ ToldPastReset'
<1>1. CASE UNCHANGED told
  BY <1>1 DEF TypeOK, ToldPastReset
<1>2. CASE told' = [t \in Table |-> Never]
  BY <1>2 DEF ToldPastReset
<1>3. ASSUME NEW t \in Table, NEW ip, NEW counter \in Counters,
             now <= counter.reset, Refuse(t, ip, counter)
      PROVE  told' \in [Table -> Refusal \cup {Never}] /\ ToldPastReset'
  BY <1>3, RefuseTells DEF ToldPastReset
<1> QED BY <1>1, <1>2, <1>3, Tells
\* Whoever is let in finds room: it is the last one below the limit, however
\* many are in a handler.
LEMMA AdmitRoom ==
  ASSUME TypeOK, RoomForFailures, NEW q \in Request, Admit(q)
  PROVE  RoomForFailures'
<1> PICK mine \in IP : mine = at[q].ip
  BY DEF Admit, TypeOK
<1>1. /\ now' = now /\ keys' = keys /\ now \in Nat
      /\ at[q] # Idle /\ at[q].stage = "passed"
  BY BoundsAssumption DEF Admit, TypeOK
<1>2. \A p \in Request \ {q} : at'[p] = at[p]
  BY DEF Admit, Ends, Goes, TypeOK
<1>3. at'[q] = Idle \/ at'[q].ip = mine
  BY DEF Admit, Ends, Goes, TypeOK
<1>4. \A ip \in IP \ {mine} : Handling(ip)' \subseteq Handling(ip)
  BY <1>2, <1>3 DEF Handling
<1>5. CASE Ends(q)
  <2>1. at'[q] = Idle
    BY <1>5 DEF Ends, TypeOK
  <2>2. Handling(mine)' \subseteq Handling(mine)
    BY <1>2, <2>1 DEF Handling
  <2> QED BY <1>1, <1>4, <2>2, RoomLeft
<1>6. CASE ~(FailureLimit > 0 /\ Blocked(keys["failures"], mine, "failures"))
  <2> SUFFICES ASSUME FailureLimit > 0, NEW ip \in DOMAIN keys["failures"],
                      now < keys["failures"][ip].reset
               PROVE  keys["failures"][ip].count + Cardinality(Handling(ip)')
                        <= FailureLimit + Cardinality(Request) - 1
    BY <1>1 DEF RoomForFailures
  <2>1. /\ ip \in IP /\ keys["failures"][ip].count \in Int /\ FailureLimit \in Nat
        /\ Cardinality(Request) \in Nat
    BY TypedCounters, LimitAssumption, HandlingFinite DEF TypeOK, Table
  <2>2. CASE ip = mine
    <3>1. ~(keys["failures"][ip].count >= FailureLimit)
      BY <1>6, <2>2 DEF Blocked, Limit, Table
    <3>2. Cardinality(Handling(ip)') <= Cardinality(Request) /\ Cardinality(Handling(ip)') \in Nat
      BY HandlingFiniteNext
    <3> QED BY <2>1, <3>1, <3>2
  <2>3. CASE ip # mine
    <3>1. Cardinality(Handling(ip)') <= Cardinality(Handling(ip))
      BY <1>4, <2>1, <2>3, Fewer
    <3>2. keys["failures"][ip].count + Cardinality(Handling(ip))
            <= FailureLimit + Cardinality(Request) - 1
      BY DEF RoomForFailures
    <3> QED BY <2>1, <3>1, <3>2, HandlingFinite, HandlingFiniteNext
  <2> QED BY <2>2, <2>3
<1> QED BY <1>5, <1>6 DEF Admit

\* A failure leaves the handler as it is counted.
LEMMA FailRoom ==
  ASSUME TypeOK, RoomForFailures, NEW q \in Request, FailAuthentication(q)
  PROVE  RoomForFailures'
<1> DEFINE old == keys["failures"]
<1> PICK mine \in IP : mine = at[q].ip
  BY DEF FailAuthentication, TypeOK
<1>1. /\ now' = now /\ now \in Nat /\ at[q] # Idle /\ at[q].stage = "handling"
  BY BoundsAssumption DEF FailAuthentication, TypeOK
<1>2. at'[q] = Idle /\ \A p \in Request \ {q} : at'[p] = at[p]
  BY DEF FailAuthentication, Ends, TypeOK
<1>3. \A ip : Handling(ip)' \subseteq Handling(ip)
  BY <1>2 DEF Handling
<1>4. Handling(mine)' = Handling(mine) \ {q} /\ q \in Handling(mine)
  BY <1>1, <1>2 DEF Handling
<1>5. Cardinality(Handling(mine)') = Cardinality(Handling(mine)) - 1
  <2> DEFINE H == Handling(mine)
  <2>1. IsFiniteSet(H) /\ q \in H
    BY <1>4, HandlingFinite
  <2> HIDE DEF H
  <2>2. Cardinality(H \ {q}) = Cardinality(H) - 1
    BY <2>1, FS_RemoveElement
  <2> QED
    BY <1>4, <2>2 DEF H
<1> SUFFICES ASSUME FailureLimit > 0, NEW ip \in DOMAIN keys'["failures"],
                    now < keys'["failures"][ip].reset
             PROVE  keys'["failures"][ip].count + Cardinality(Handling(ip)')
                      <= FailureLimit + Cardinality(Request) - 1
  BY <1>1 DEF RoomForFailures
<1>6. keys'["failures"] = Counted(old, mine)
  BY FailingCounts DEF TypeOK, Table
<1>7. \A k \in DOMAIN old : old[k] \in Counter
  BY TypedCounters DEF Table
<1>8. /\ ip \in DOMAIN old \cup {mine}
      /\ ip # mine => keys'["failures"][ip] = old[ip]
      /\ ip = mine =>
           IF mine \in DOMAIN old /\ ~Over(old[mine])
           THEN keys'["failures"][ip] = [count |-> old[mine].count + 1, reset |-> old[mine].reset]
           ELSE keys'["failures"][ip] = [count |-> 1, reset |-> now + Window]
  <2> DEFINE after == Counted(old, mine)
  <2>1. /\ DOMAIN after \subseteq DOMAIN old \cup {mine}
        /\ \A k \in DOMAIN after \ {mine} : after[k] = old[k]
        /\ IF mine \in DOMAIN old /\ ~Over(old[mine])
           THEN after[mine] = [count |-> old[mine].count + 1, reset |-> old[mine].reset]
           ELSE after[mine] = [count |-> 1, reset |-> now + Window]
    BY CountedOnce DEF Table
  <2> HIDE DEF after, old
  <2>2. keys'["failures"] = after
    BY <1>6 DEF after
  <2> QED BY <2>1, <2>2
<1>9. /\ FailureLimit \in Nat
      /\ Cardinality(Request) \in Nat /\ Cardinality(Handling(ip)) \in Nat
      /\ Cardinality(Handling(ip)') \in Nat /\ Cardinality(Handling(ip)) <= Cardinality(Request)
  BY LimitAssumption, HandlingFinite, HandlingFiniteNext
<1>10. \A k \in DOMAIN old : old[k].count \in Int /\ old[k].reset \in Int
  BY <1>7 DEF Counter
<1>11. \A k \in DOMAIN old : now < old[k].reset =>
         old[k].count + Cardinality(Handling(k)) <= FailureLimit + Cardinality(Request) - 1
  BY DEF RoomForFailures
<1> HIDE DEF old
<1>12. CASE ip # mine
  <2>1. Cardinality(Handling(ip)') <= Cardinality(Handling(ip))
    BY <1>3, Fewer
  <2> QED BY <1>8, <1>9, <1>10, <1>11, <1>12, <2>1
<1>13. CASE ip = mine /\ mine \in DOMAIN old /\ ~Over(old[mine])
  BY <1>5, <1>8, <1>9, <1>10, <1>11, <1>13
<1>14. CASE ip = mine /\ ~(mine \in DOMAIN old /\ ~Over(old[mine]))
  BY <1>5, <1>8, <1>9, <1>14
<1> QED BY <1>12, <1>13, <1>14

LEMMA NextRoom ==
  ASSUME TypeOK, RoomForFailures, Next
  PROVE  RoomForFailures'
<1>1. now \in Nat
  BY BoundsAssumption DEF TypeOK
<1>2. ASSUME NEW q \in Request, \A p \in Request \ {q} : at'[p] = at[p],
             at'[q] = Idle \/ at'[q].stage = "passed"
      PROVE  \A ip \in IP : Handling(ip)' \subseteq Handling(ip)
  BY <1>2 DEF Handling
<1>3. ASSUME NEW q \in Request, NEW ip \in IP, ArriveWriting(q, ip) PROVE RoomForFailures'
  <2>1. /\ now' = now /\ keys'["failures"] = keys["failures"]
    BY <1>3, WritingCounts DEF TypeOK, Table
  <2>2. \A k \in IP : Handling(k)' \subseteq Handling(k)
    <3>1. CASE UNCHANGED at
      BY <3>1 DEF Handling
    <3>2. CASE Goes(q, ip, "passed")
      BY <1>2, <3>2 DEF Goes, TypeOK
    <3> QED BY <1>3, <3>1, <3>2 DEF ArriveWriting
  <2> QED BY <1>1, <2>1, <2>2, RoomLeft
<1>4. ASSUME NEW q \in Request, NEW ip \in IP, ArriveReading(q, ip) PROVE RoomForFailures'
  <2>1. \A k \in IP : Handling(k)' \subseteq Handling(k)
    BY <1>2, <1>4 DEF ArriveReading, Goes, TypeOK
  <2> QED BY <1>1, <1>4, <2>1, RoomLeft DEF ArriveReading
<1>5. ASSUME NEW q \in Request, TooLarge(q) \/ Succeed(q) PROVE RoomForFailures'
  <2>1. \A k \in IP : Handling(k)' \subseteq Handling(k)
    BY <1>2, <1>5 DEF TooLarge, Succeed, Ends, TypeOK
  <2> QED BY <1>1, <1>5, <2>1, RoomLeft DEF TooLarge, Succeed
<1>6. ASSUME Tick PROVE RoomForFailures'
  <2>1. \A k \in IP : Handling(k)' \subseteq Handling(k)
    BY <1>6 DEF Tick, Handling
  <2> QED BY <1>1, <1>6, <2>1, RoomLeft DEF Tick
<1>7. ASSUME Restart PROVE RoomForFailures'
  BY <1>7 DEF Restart, RoomForFailures, NoKeys, Table
<1> QED
  BY <1>3, <1>4, <1>5, <1>6, <1>7, AdmitRoom, FailRoom DEF Next

-----------------------------------------------------------------------------
(* The writes let through.                                                 *)

LEMMA WriteTyped ==
  ASSUME TypeOK, NEW p \in passed
  PROVE  /\ p.time \in Int /\ p.window \in Int /\ p.number \in Int
         /\ p.number >= 1 /\ p.number <= WriteLimit
BY BoundsAssumption, ClockAssumption, LimitAssumption DEF TypeOK, Write

\* The watched address counts one, and is let through.
LEMMA LetThroughRecent ==
  ASSUME TypeOK, RecentWrites, NEW q \in Request, ArriveWriting(q, Watched),
         passed' = passed \cup {LetThrough(Counted(keys["writes"], Watched)[Watched])},
         ~Exceeds(Counted(keys["writes"], Watched)[Watched], "writes")
  PROVE  passed' \subseteq Write /\ RecentWrites'
<1> DEFINE old     == keys["writes"]
           after   == Counted(old, Watched)
           counter == after[Watched]
           new     == LetThrough(counter)
<1>1. Watched \in IP /\ "writes" \in Table
  BY WatchedAssumption DEF Table
<1>2. /\ Watched \in DOMAIN after
      /\ counter \in Counters /\ now <= counter.reset
      /\ now' = now /\ keys'["writes"] = after
  BY <1>1, WritingCounts DEF TypeOK
<1>3. IF Watched \in DOMAIN old /\ ~Over(old[Watched])
      THEN counter = [count |-> old[Watched].count + 1, reset |-> old[Watched].reset]
      ELSE counter = [count |-> 1, reset |-> now + Window]
  BY <1>1, CountedOnce
<1>4. /\ now \in Nat /\ now <= MaxTime /\ Window \in Nat /\ Window > 0 /\ MaxTime \in Nat
      /\ WriteLimit \in Nat
  BY BoundsAssumption, ClockAssumption, LimitAssumption DEF TypeOK
<1>5. counter.count <= WriteLimit
  BY <1>2, <1>4, Limits DEF Exceeds, Limit, Table, Counters
<1>6. /\ counter.count \in Int /\ counter.count >= 1
      /\ counter.reset \in Nat /\ counter.reset <= now + Window
  BY <1>1, <1>2, <1>4, Limits, BoundsAssumption DEF Counters
<1>7. new.time = now /\ new.window = counter.reset /\ new.number = counter.count
  BY DEF LetThrough
<1>8. new \in Write
  BY <1>4, <1>5, <1>6 DEF LetThrough, Write
<1>9. Watched \in DOMAIN old => old[Watched].count \in Int /\ old[Watched].count >= 1
                                /\ old[Watched].reset \in Int
  BY <1>1, <1>4, Limits, BoundsAssumption DEF TypeOK, Counters
<1>10. passed' = passed \cup {new}
  OBVIOUS
<1>11. \A p \in passed : /\ p.time \in Int /\ p.window \in Int /\ p.number \in Int
                          /\ p.number >= 1
  BY WriteTyped
<1>12. InItsWindow /\ BehindCounter /\ WindowsApart
  BY DEF RecentWrites
<1> HIDE DEF new, counter, after, old
<1>13. \A p \in passed : \/ (p.window = counter.reset /\ p.number < counter.count)
                          \/ p.window < counter.reset - Window
  <2> TAKE p \in passed
  <2>1. CASE Watched \in DOMAIN old /\ ~Over(old[Watched])
    <3>1. counter.count = old[Watched].count + 1 /\ counter.reset = old[Watched].reset
      BY <1>3, <2>1
    <3>2. now <= old[Watched].reset
      BY <1>4, <1>9, <2>1 DEF Over
    <3>3. p.window = old[Watched].reset => p.number <= old[Watched].count
      BY <1>12, <3>2 DEF BehindCounter, old
    <3>4. p.window = old[Watched].reset \/ p.window < old[Watched].reset - Window
      BY <1>12, <2>1 DEF WindowsApart, old
    <3> QED BY <1>9, <1>11, <2>1, <3>1, <3>3, <3>4
  <2>2. CASE ~(Watched \in DOMAIN old /\ ~Over(old[Watched]))
    <3>1. counter.reset = now + Window
      BY <1>3, <2>2
    <3>2. ~(now <= p.window)
      BY <1>4, <1>9, <1>12, <2>2 DEF BehindCounter, Over, old
    <3> QED BY <1>4, <1>11, <3>1, <3>2
  <2> QED BY <2>1, <2>2
<1>14. new.number = 1 => new.time = new.window - Window
  <2>1. CASE Watched \in DOMAIN old /\ ~Over(old[Watched])
    <3>1. counter.count = old[Watched].count + 1
      BY <1>3, <2>1
    <3>2. new.number # 1
      BY <1>7, <1>9, <2>1, <3>1
    <3> QED BY <3>2
  <2>2. CASE ~(Watched \in DOMAIN old /\ ~Over(old[Watched]))
    BY <1>3, <1>4, <1>7, <2>2
  <2> QED BY <2>1, <2>2
<1>15. InItsWindow'
  BY <1>2, <1>4, <1>6, <1>7, <1>10, <1>12, <1>14 DEF InItsWindow
<1>16. BehindCounter'
  <2> SUFFICES ASSUME NEW p \in passed', now <= p.window
               PROVE  p.window = counter.reset /\ p.number <= counter.count
    BY <1>2 DEF BehindCounter, counter
  <2>1. CASE p = new
    BY <1>6, <1>7, <2>1
  <2>2. CASE p \in passed
    BY <1>4, <1>6, <1>11, <1>13, <2>2
  <2> QED BY <1>10, <2>1, <2>2
<1>17. WindowsApart'
  <2>1. ASSUME NEW p \in passed', NEW r \in passed'
        PROVE  /\ p.window = r.window /\ p.number = r.number => p = r
               /\ p.window < r.window => p.window < r.window - Window
    <3>1. CASE p \in passed /\ r \in passed
      BY <1>12, <3>1 DEF WindowsApart
    <3>2. CASE p \in passed /\ r = new
      BY <1>4, <1>6, <1>7, <1>11, <1>13, <3>2
    <3>3. CASE p = new /\ r \in passed
      <4>1. ~(r.window = p.window /\ r.number = p.number) /\ ~(p.window < r.window)
        BY <1>4, <1>6, <1>7, <1>11, <1>13, <3>3
      <4> QED BY <4>1
    <3>4. CASE p = new /\ r = new
      BY <1>6, <1>7, <3>4
    <3> QED BY <1>10, <2>1, <3>1, <3>2, <3>3, <3>4
  <2>2. \A p \in passed' : p.window = counter.reset \/ p.window < counter.reset - Window
    BY <1>7, <1>10, <1>13
  <2> QED BY <1>2, <2>1, <2>2 DEF WindowsApart, counter
<1> QED BY <1>8, <1>10, <1>15, <1>16, <1>17 DEF RecentWrites, TypeOK

\* No write is let through: the windows under way keep their counter, and a new
\* one begins past them.
LEMMA KeptRecent ==
  ASSUME TypeOK, RecentWrites, passed' \subseteq passed, now' \in Int, now' >= now,
         \A p \in passed' : now' - p.time <= Window,
         \A p \in passed' : now <= p.window =>
           /\ Watched \in DOMAIN keys'["writes"]
           /\ keys'["writes"][Watched].reset = keys["writes"][Watched].reset
           /\ keys'["writes"][Watched].count \in Int
           /\ keys'["writes"][Watched].count >= keys["writes"][Watched].count,
         Watched \in DOMAIN keys'["writes"] => \A p \in passed' :
           \/ p.window = keys'["writes"][Watched].reset
           \/ p.window < keys'["writes"][Watched].reset - Window
  PROVE  passed' \subseteq Write /\ RecentWrites'
<1>1. InItsWindow /\ BehindCounter /\ WindowsApart
  BY DEF RecentWrites
<1>2. now \in Int /\ "writes" \in Table
  BY BoundsAssumption DEF TypeOK, Table
<1>3. \A p \in passed : p.time \in Int /\ p.window \in Int /\ p.number \in Int
  BY WriteTyped
<1>4. InItsWindow'
  BY <1>1, <1>2, <1>3 DEF InItsWindow
<1>5. BehindCounter'
  <2> SUFFICES ASSUME NEW p \in passed', now' <= p.window
               PROVE  /\ Watched \in DOMAIN keys'["writes"]
                      /\ keys'["writes"][Watched].reset = p.window
                      /\ p.number <= keys'["writes"][Watched].count
    BY DEF BehindCounter
  <2>1. p \in passed /\ now <= p.window
    BY <1>2, <1>3
  <2>2. /\ Watched \in DOMAIN keys["writes"] /\ keys["writes"][Watched].reset = p.window
        /\ p.number <= keys["writes"][Watched].count
    BY <1>1, <2>1 DEF BehindCounter
  <2>3. keys["writes"][Watched].count \in Int
    BY <1>2, <2>2, TypedCounters
  <2> QED BY <1>3, <2>1, <2>2, <2>3
<1>6. WindowsApart'
  BY <1>1 DEF WindowsApart
<1> QED BY <1>4, <1>5, <1>6 DEF RecentWrites, TypeOK

LEMMA NotLetThrough ==
  ASSUME TypeOK, RecentWrites, NEW q \in Request, NEW ip \in IP, ArriveWriting(q, ip),
         passed' = passed
  PROVE  passed' \subseteq Write /\ RecentWrites'
<1> DEFINE old   == keys["writes"]
           after == Counted(old, ip)
<1>1. "writes" \in Table
  BY DEF Table
<1>2. now' = now /\ keys'["writes"] = after
  BY <1>1, WritingCounts DEF TypeOK
<1>3. /\ ip \in DOMAIN after /\ DOMAIN after \subseteq DOMAIN old \cup {ip}
      /\ \A k \in DOMAIN after \ {ip} : after[k] = old[k]
      /\ \A k \in DOMAIN old : ~Over(old[k]) => k \in DOMAIN after
      /\ IF ip \in DOMAIN old /\ ~Over(old[ip])
         THEN after[ip] = [count |-> old[ip].count + 1, reset |-> old[ip].reset]
         ELSE after[ip] = [count |-> 1, reset |-> now + Window]
  BY <1>1, CountedOnce
<1>4. now \in Nat /\ Window \in Nat
  BY BoundsAssumption, ClockAssumption DEF TypeOK
<1>5. \A k \in DOMAIN old : old[k].count \in Int /\ old[k].reset \in Int
  BY <1>1, TypedCounters
<1>6. \A p \in passed : p.window \in Int
  BY WriteTyped
<1>7. \A p \in passed :
        now <= p.window => Watched \in DOMAIN old /\ old[Watched].reset = p.window
  BY DEF RecentWrites, BehindCounter
<1>8. Watched \in DOMAIN old => \A p \in passed :
        p.window = old[Watched].reset \/ p.window < old[Watched].reset - Window
  BY DEF RecentWrites, WindowsApart
<1>9. \A p \in passed : now - p.time <= Window
  BY DEF RecentWrites, InItsWindow
<1> HIDE DEF old, after
<1>10. ASSUME NEW p \in passed, now <= p.window
       PROVE  /\ Watched \in DOMAIN after
              /\ after[Watched].reset = old[Watched].reset
              /\ after[Watched].count \in Int
              /\ after[Watched].count >= old[Watched].count
  <2>1. Watched \in DOMAIN old /\ ~Over(old[Watched])
    BY <1>4, <1>6, <1>7, <1>10 DEF Over
  <2>2. CASE ip = Watched
    <3>1. /\ after[Watched].count = old[Watched].count + 1
          /\ after[Watched].reset = old[Watched].reset
      BY <1>3, <2>1, <2>2
    <3> QED BY <1>3, <1>5, <2>1, <2>2, <3>1
  <2>3. CASE ip # Watched
    BY <1>3, <1>5, <2>1, <2>3
  <2> QED BY <2>2, <2>3
<1>11. ASSUME Watched \in DOMAIN after, NEW p \in passed
       PROVE  p.window = after[Watched].reset \/ p.window < after[Watched].reset - Window
  <2>1. CASE ip # Watched
    BY <1>3, <1>8, <1>11, <2>1
  <2>2. CASE ip = Watched /\ Watched \in DOMAIN old /\ ~Over(old[Watched])
    BY <1>3, <1>8, <2>2
  <2>3. CASE ip = Watched /\ ~(Watched \in DOMAIN old /\ ~Over(old[Watched]))
    <3>1. after[Watched].reset = now + Window
      BY <1>3, <2>3
    <3>2. ~(now <= p.window)
      BY <1>4, <1>5, <1>6, <1>7, <2>3 DEF Over
    <3> QED BY <1>4, <1>6, <3>1, <3>2
  <2> QED BY <2>1, <2>2, <2>3
<1>12. /\ now' \in Int /\ now' >= now
       /\ \A p \in passed' : now' - p.time <= Window
  BY <1>2, <1>4, <1>9
<1> QED BY <1>2, <1>10, <1>11, <1>12, KeptRecent DEF old

\* Whatever leaves the counters of writes, and the clock or the history behind.
LEMMA ElsewhereRecent ==
  ASSUME TypeOK, RecentWrites, passed' \subseteq passed, now' \in Int, now' >= now,
         \A p \in passed' : now' - p.time <= Window,
         keys'["writes"] = keys["writes"]
  PROVE  passed' \subseteq Write /\ RecentWrites'
<1>1. "writes" \in Table
  BY DEF Table
<1>2. \A p \in passed : now <= p.window => Watched \in DOMAIN keys["writes"]
  BY DEF RecentWrites, BehindCounter
<1>3. Watched \in DOMAIN keys["writes"] => keys["writes"][Watched].count \in Int
  BY <1>1, TypedCounters
<1>4. \A p \in passed' : now <= p.window =>
        /\ Watched \in DOMAIN keys["writes"]
        /\ keys["writes"][Watched].count \in Int
        /\ keys["writes"][Watched].count >= keys["writes"][Watched].count
  BY <1>2, <1>3
<1>5. Watched \in DOMAIN keys["writes"] => \A p \in passed' :
        \/ p.window = keys["writes"][Watched].reset
        \/ p.window < keys["writes"][Watched].reset - Window
  BY DEF RecentWrites, WindowsApart
<1> QED BY <1>4, <1>5, KeptRecent

LEMMA NextRecent ==
  ASSUME TypeOK, RecentWrites, [Next]_vars
  PROVE  passed' \subseteq Write /\ RecentWrites'
<1> DEFINE Good == passed' \subseteq Write /\ RecentWrites'
<1>1. /\ now \in Nat /\ Window \in Nat
      /\ \A p \in passed : now - p.time <= Window
  BY BoundsAssumption, ClockAssumption DEF TypeOK, RecentWrites, InItsWindow
<1>2. ASSUME now' = now, passed' = passed, keys'["writes"] = keys["writes"] PROVE Good
  BY <1>1, <1>2, ElsewhereRecent
<1>3. ASSUME NEW q \in Request, NEW ip \in IP, ArriveWriting(q, ip) PROVE Good
  <2>1. CASE passed' = passed
    BY <1>3, <2>1, NotLetThrough
  <2>2. CASE passed' # passed
    BY <1>3, <2>2, LetThroughRecent DEF ArriveWriting
  <2> QED BY <2>1, <2>2
<1>4. ASSUME NEW q \in Request, FailAuthentication(q) PROVE Good
  BY <1>2, <1>4 DEF FailAuthentication, TypeOK, Table
<1>5. ASSUME Tick PROVE Good
  BY <1>1, <1>5, ElsewhereRecent DEF Tick
<1>6. ASSUME Restart PROVE Good
  <2>1. passed' = {}
    BY <1>6 DEF Restart
  <2> QED BY <2>1 DEF RecentWrites, InItsWindow, BehindCounter, WindowsApart
<1> HIDE DEF Good
<1>7. Good
  BY <1>2, <1>3, <1>4, <1>5, <1>6
     DEF Next, ArriveReading, TooLarge, Admit, Succeed, vars
<1> QED BY <1>7 DEF Good

LEMMA NextIInv ==
  ASSUME IInv, [Next]_vars
  PROVE  IInv'
<1>1. passed' \subseteq Write /\ RecentWrites'
  BY NextRecent DEF IInv
<1>2. CASE Next
  <2>1. TypeOK'
    BY <1>1, <1>2, NextKeys, NextAt, NextTold DEF IInv, TypeOK
  <2> QED BY <1>1, <1>2, <2>1, NextRoom, NextTold DEF IInv
<1>3. CASE UNCHANGED vars
  BY <1>1, <1>3 DEF vars, IInv, TypeOK, Counters, RoomForFailures, Handling, ToldPastReset
<1> QED BY <1>2, <1>3

-----------------------------------------------------------------------------
(* The theorems.                                                           *)

\* The inductive invariant: typed counters, room for the failures under way,
\* refusals that point past their windows, and writes numbered in windows that
\* do not overlap.
THEOREM Invariance == Spec => []IInv
BY InitIInv, NextIInv, PTL DEF Spec

\* The counters, the requests and the refusals are well typed.
THEOREM TypeCorrect == Spec => []TypeOK
<1>1. IInv => TypeOK
  BY DEF IInv
<1> QED BY <1>1, Invariance, PTL

\* A window holds no more failures than the limit and the other requests in
\* flight, for any number of them.
THEOREM OvershootBounded == Spec => []OvershootIsConcurrency
<1>1. ASSUME IInv PROVE OvershootIsConcurrency
  <2> SUFFICES ASSUME FailureLimit > 0, NEW ip \in DOMAIN keys["failures"],
                      now < keys["failures"][ip].reset
               PROVE  keys["failures"][ip].count <= FailureLimit + Cardinality(Request) - 1
    BY DEF OvershootIsConcurrency
  <2>1. keys["failures"][ip].count + Cardinality(Handling(ip))
          <= FailureLimit + Cardinality(Request) - 1
    BY <1>1 DEF IInv, RoomForFailures
  <2>2. keys["failures"][ip].count \in Int
    BY <1>1, TypedCounters DEF IInv, Table
  <2> QED BY <2>1, <2>2, HandlingFinite, LimitAssumption
<1> QED BY <1>1, Invariance, PTL

\* Three windows do not fit in a minute; and of two, the older one has not kept
\* its first write.
LEMMA TwoWindows ==
  ASSUME IInv, NEW p \in passed, NEW q \in passed, p.window < q.window
  PROVE  /\ p.number # 1
         /\ \A r \in passed : r.window = p.window \/ r.window = q.window
<1>1. /\ now \in Nat /\ Window \in Nat /\ Window > 0
      /\ \A r \in passed : r.time \in Int /\ r.window \in Int
  BY WriteTyped, BoundsAssumption, ClockAssumption DEF IInv, TypeOK
<1>2. \A r \in passed :
        /\ r.window - Window <= r.time /\ r.time <= r.window
        /\ r.time <= now /\ now - r.time <= Window
        /\ r.number = 1 => r.time = r.window - Window
  BY DEF IInv, RecentWrites, InItsWindow
<1>3. \A r, s \in passed : r.window < s.window => r.window < s.window - Window
  BY DEF IInv, RecentWrites, WindowsApart
<1>4. p.number # 1
  BY <1>1, <1>2, <1>3
<1>5. ASSUME NEW a \in passed, NEW b \in passed, NEW c \in passed,
             a.window < b.window, b.window < c.window
      PROVE  FALSE
  <2>1. a.window < b.window - Window /\ b.window < c.window - Window
    BY <1>3, <1>5
  <2>2. a.time <= a.window /\ c.window - Window <= c.time /\ c.time <= now
        /\ now - a.time <= Window
    BY <1>2
  <2> QED BY <1>1, <2>1, <2>2
<1>6. ASSUME NEW r \in passed, r.window # p.window, r.window # q.window PROVE FALSE
  BY <1>1, <1>5, <1>6
<1> QED BY <1>4, <1>6

\* Less than twice the limit of writes are let through in a minute: they are
\* numbered, first those of the later window and then those of the older one.
THEOREM LessThanTwice == Spec => []LessThanTwiceTheLimit
<1>1. ASSUME IInv, WriteLimit > 0 PROVE Cardinality(passed) < 2 * WriteLimit
  <2>1. WriteLimit \in Nat
    BY LimitAssumption
  <2>2. \A r \in passed : /\ r.window \in Int /\ r.number \in Int
                          /\ r.number >= 1 /\ r.number <= WriteLimit
    BY <1>1, WriteTyped DEF IInv
  <2>3. \A r, s \in passed : r.window = s.window /\ r.number = s.number => r = s
    BY <1>1 DEF IInv, RecentWrites, WindowsApart
  <2> DEFINE last == 2 * WriteLimit - 1
  <2>4. \E f \in Injection(passed, 1 .. last) : TRUE
    <3>1. CASE \A r, s \in passed : r.window = s.window
      <4> DEFINE f == [r \in passed |-> r.number]
      <4>1. f \in [passed -> 1 .. last]
        BY <1>1, <2>1, <2>2
      <4>2. \A r, s \in passed : f[r] = f[s] => r = s
        BY <2>3, <3>1
      <4>3. f \in Injection(passed, 1 .. last)
        BY <4>1, <4>2 DEF Injection, IsInjective
      <4> QED BY <4>3
    <3>2. CASE ~(\A r, s \in passed : r.window = s.window)
      <4>1. PICK p \in passed, q \in passed : p.window < q.window
        BY <2>2, <3>2
      <4>2. \A r \in passed : r.window = q.window \/ (r.window = p.window /\ r.number # 1)
        <5>1. \A r \in passed : r.window = p.window => r.number # 1
          BY <1>1, <4>1, TwoWindows
        <5>2. \A r \in passed : r.window = p.window \/ r.window = q.window
          BY <1>1, <4>1, TwoWindows
        <5> QED BY <5>1, <5>2
      <4> DEFINE f == [r \in passed |-> IF r.window = q.window THEN r.number
                                        ELSE WriteLimit + r.number - 1]
      <4>3. f \in [passed -> 1 .. last]
        BY <1>1, <2>1, <2>2, <4>2
      <4>4. ASSUME NEW r \in passed, NEW s \in passed, f[r] = f[s] PROVE r = s
        <5>1. r.window = s.window /\ r.number = s.number
          BY <2>1, <2>2, <4>2, <4>4
        <5> QED BY <2>3, <5>1
      <4>5. f \in Injection(passed, 1 .. last)
        BY <4>3, <4>4 DEF Injection, IsInjective
      <4> QED BY <4>5
    <3> QED BY <3>1, <3>2
  <2>5. last \in Int /\ last >= 1
    BY <1>1, <2>1
  <2>6. IsFiniteSet(1 .. last) /\ Cardinality(1 .. last) = last
    BY <2>5, FS_Interval
  <2> HIDE DEF last
  <2>7. IsFiniteSet(passed) /\ Cardinality(passed) <= last
    BY <2>4, <2>6, FS_Injection
  <2>8. Cardinality(passed) \in Nat
    BY <2>7, FS_CardinalityType
  <2> QED BY <2>1, <2>7, <2>8 DEF last
<1>2. IInv => LessThanTwiceTheLimit
  BY <1>1 DEF LessThanTwiceTheLimit
<1> QED BY <1>2, Invariance, PTL

\* Whoever waits as long as it was told is not refused by the same window.
THEOREM WaitsAreEnough == Spec => RetryAfterIsTrue
<1> DEFINE A == \A t \in Table :
       /\ told[t] # Never /\ told'[t] # Never /\ told'[t] # told[t]
       /\ now >= told[t].until
       => told'[t].reset # told[t].reset
<1>1. ASSUME IInv, [Next]_vars PROVE A
  <2> SUFFICES ASSUME Next, NEW t \in Table,
                      told[t] # Never, told'[t] # Never, told'[t] # told[t],
                      now >= told[t].until
               PROVE  told'[t].reset # told[t].reset
    BY <1>1 DEF vars
  <2>1. TypeOK /\ ToldPastReset
    BY <1>1 DEF IInv
  <2>2. told[t] \in Refusal /\ now \in Nat
    BY <2>1, BoundsAssumption DEF TypeOK
  <2>3. told[t].until \in Nat /\ told[t].reset \in Int /\ told[t].until > told[t].reset
    BY <2>1, <2>2, BoundsAssumption, ClockAssumption DEF Refusal, ToldPastReset
  <2>4. PICK u \in Table, ip \in IP : \E counter \in Counters :
          now <= counter.reset /\ Refuse(u, ip, counter)
    BY <2>1, Tells
  <2>5. PICK counter \in Counters : now <= counter.reset /\ Refuse(u, ip, counter)
    BY <2>4
  <2>6. told'[t].reset = counter.reset
    BY <2>1, <2>5, RefuseTells
  <2> QED BY <2>2, <2>3, <2>5, <2>6 DEF Counters
<1> QED BY <1>1, Invariance, PTL DEF Spec, RetryAfterIsTrue

\* What one counted request does to the windows of its table.
LEMMA CountedCourse ==
  ASSUME TypeOK, NEW t \in Table, NEW ip \in IP
  PROVE  LET after == Counted(keys[t], ip) IN
         /\ \A k \in DOMAIN keys[t] :
              now <= keys[t][k].reset =>
                /\ k \in DOMAIN after
                /\ after[k].reset = keys[t][k].reset
                /\ after[k].count >= keys[t][k].count
         /\ DOMAIN after \ DOMAIN keys[t] # {} /\ Cardinality(DOMAIN after) > Threshold
            => \A k \in DOMAIN after : now <= after[k].reset
<1> DEFINE after == Counted(keys[t], ip)
           kept  == Swept(keys[t])
<1>1. /\ ip \in DOMAIN after /\ DOMAIN after \subseteq DOMAIN keys[t] \cup {ip}
      /\ \A k \in DOMAIN after \ {ip} : after[k] = keys[t][k]
      /\ \A k \in DOMAIN keys[t] : ~Over(keys[t][k]) => k \in DOMAIN after
      /\ IF ip \in DOMAIN keys[t] /\ ~Over(keys[t][ip])
         THEN after[ip] = [count |-> keys[t][ip].count + 1, reset |-> keys[t][ip].reset]
         ELSE after[ip] = [count |-> 1, reset |-> now + Window]
  BY CountedOnce
<1>2. /\ now \in Nat /\ Window \in Nat /\ Threshold \in Nat
      /\ \A k \in DOMAIN keys[t] : keys[t][k].count \in Int /\ keys[t][k].reset \in Int
  BY TypedCounters, BoundsAssumption, ClockAssumption, LimitAssumption DEF TypeOK
<1>3. ASSUME NEW k \in DOMAIN keys[t], now <= keys[t][k].reset
      PROVE  /\ k \in DOMAIN after
             /\ after[k].reset = keys[t][k].reset
             /\ after[k].count >= keys[t][k].count
  <2>1. ~Over(keys[t][k])
    BY <1>2, <1>3 DEF Over
  <2> HIDE DEF after
  <2> QED BY <1>1, <1>2, <2>1
<1>4. ASSUME DOMAIN after \ DOMAIN keys[t] # {}, Cardinality(DOMAIN after) > Threshold,
             NEW k \in DOMAIN after
      PROVE  now <= after[k].reset
  <2>1. ip \notin DOMAIN keys[t]
    BY <1>1, <1>4
  <2>2. after[ip].reset >= now
    BY <1>1, <1>2, <2>1
  <2>3. DOMAIN after = DOMAIN kept \cup {ip}
    BY <2>1 DEF Counted
  <2>4. IsFiniteSet(DOMAIN keys[t])
    BY FiniteAssumption, FS_Subset DEF TypeOK
  <2>5. ~(Cardinality(DOMAIN keys[t]) < Threshold)
    <3> SUFFICES ASSUME Cardinality(DOMAIN keys[t]) < Threshold PROVE FALSE
      OBVIOUS
    <3>1. DOMAIN after = DOMAIN keys[t] \cup {ip}
      BY <2>3 DEF Swept
    <3>2. Cardinality(DOMAIN after) = Cardinality(DOMAIN keys[t]) + 1
      BY <2>1, <2>4, <3>1, FS_AddElement
    <3>3. Cardinality(DOMAIN keys[t]) \in Nat
      BY <2>4, FS_CardinalityType
    <3> QED BY <1>2, <1>4, <3>2, <3>3
  <2>6. \A x \in DOMAIN kept : x \in DOMAIN keys[t] /\ ~Over(keys[t][x])
    BY <2>5 DEF Swept
  <2> HIDE DEF after, kept
  <2>7. CASE k = ip
    BY <1>1, <1>2, <2>1, <2>7
  <2>8. CASE k # ip
    <3>1. k \in DOMAIN keys[t] /\ ~Over(keys[t][k]) /\ after[k] = keys[t][k]
      BY <1>1, <1>4, <2>3, <2>6, <2>8
    <3> QED BY <1>2, <3>1 DEF Over
  <2> QED BY <2>7, <2>8
<1> HIDE DEF after
<1> QED BY <1>3, <1>4 DEF after

\* No request takes a window back, and a sweep leaves nothing that is over.
THEOREM WindowsHold == Spec => WindowsRunTheirCourse
<1> DEFINE Course(t) ==
       /\ \A ip \in DOMAIN keys[t] :
            now <= keys[t][ip].reset =>
              /\ ip \in DOMAIN keys'[t]
              /\ keys'[t][ip].reset = keys[t][ip].reset
              /\ keys'[t][ip].count >= keys[t][ip].count
       /\ DOMAIN keys'[t] \ DOMAIN keys[t] # {}
            /\ Cardinality(DOMAIN keys'[t]) > Threshold
          => \A ip \in DOMAIN keys'[t] : now <= keys'[t][ip].reset
<1>1. ASSUME IInv, [Next]_vars, \E t \in Table : DOMAIN keys'[t] # {}, NEW t \in Table
      PROVE  Course(t)
  <2>1. TypeOK
    BY <1>1 DEF IInv
  <2>2. ASSUME keys'[t] = keys[t] PROVE Course(t)
    <3>1. \A ip \in DOMAIN keys[t] : keys[t][ip].count \in Int
      BY <2>1, TypedCounters
    <3> QED BY <2>2, <3>1
  <2>3. ASSUME NEW u \in Table, NEW ip \in IP, keys' = [keys EXCEPT ![u] = Counted(keys[u], ip)]
        PROVE  Course(t)
    <3>1. CASE t = u
      <4>1. keys'[t] = Counted(keys[t], ip)
        BY <2>1, <2>3, <3>1 DEF TypeOK
      <4> QED BY <2>1, <4>1, CountedCourse
    <3>2. CASE t # u
      BY <2>1, <2>2, <2>3, <3>2 DEF TypeOK
    <3> QED BY <3>1, <3>2
  <2>4. ASSUME NEW q \in Request, NEW ip \in IP, ArriveWriting(q, ip) PROVE Course(t)
    BY <2>1, <2>3, <2>4, WritingCounts DEF Table
  <2>5. ASSUME NEW q \in Request, FailAuthentication(q) PROVE Course(t)
    <3>1. CASE FailureLimit > 0
      BY <2>1, <2>3, <2>5, <3>1, FailingCounts DEF Table
    <3>2. CASE ~(FailureLimit > 0)
      BY <2>2, <2>5, <3>2 DEF FailAuthentication
    <3> QED BY <3>1, <3>2
  <2>6. ~Restart
    BY <1>1 DEF Restart, NoKeys
  <2> HIDE DEF Course
  <2> QED
    BY <1>1, <2>2, <2>4, <2>5, <2>6 DEF Next, ArriveReading, TooLarge, Admit, Succeed, Tick, vars
<1>2. IInv /\ [Next]_vars =>
        [(\E t \in Table : DOMAIN keys'[t] # {}) => \A t \in Table : Course(t)]_vars
  BY <1>1
<1> QED BY <1>2, Invariance, PTL DEF Spec, WindowsRunTheirCourse
=============================================================================
