----------------------------- MODULE WebProofs -----------------------------
(***************************************************************************)
(* The pages show what the inventory and the search say, and a revocation  *)
(* is exact: for any number of writes, searches, refreshes and tokens on   *)
(* their way, and however long the visit. The inductive invariant adds,    *)
(* for the search, which request may still change what it shows; for the   *)
(* refreshes, that none is behind the page's own writes; and for the       *)
(* tokens, that keys count up and that a noted id has kept its key.        *)
(***************************************************************************)
EXTENDS Web, FiniteSetTheorems, TLAPS

\* The requests of a search.
Flights(on) ==
  /\ on = [n \in DOMAIN on |-> on[n]]
  /\ \A n \in DOMAIN on :
       on[n] \in [text : Text, key : {on[n].key}, reply : {on[n].reply}, aborted : BOOLEAN]

\* A search loads while its last request may still land, which is then about
\* the query, or the timer runs for it.
SearchInv ==
  LET c == search.controller  on == search.flights IN
  /\ search \in [query : Text \cup {Short}, timer : Text \cup {None},
                 flights : {on}, controller : {c},
                 candidates : Text \cup {None}, problem : Text \cup {None}, loading : BOOLEAN]
  /\ Flights(on)
  /\ \A n \in DOMAIN on \ {c} : on[n].aborted
  /\ search.loading <=> c \in DOMAIN on /\ ~on[c].aborted
  /\ IF search.timer # None THEN search.timer = search.query
     ELSE search.loading => on[c].text = search.query
  /\ SettledShowsTheQuery

\* What a refresh has read is no older than the page's own writes, unless it
\* was overtaken.
Fresh(read) == \A v \in read : v >= page.mine

PageInv ==
  /\ version \in Nat
  /\ page \in [status : {"idle", "loading", "ready", "error"}, read : SUBSET (0 .. version),
               problem : BOOLEAN, mine : 0 .. version, overlapped : BOOLEAN]
  /\ loads = [n \in DOMAIN loads |-> loads[n]]
  /\ \A n \in DOMAIN loads :
       /\ loads[n] \in [key : {loads[n].key}, pending : 0 .. 3, read : SUBSET (0 .. version),
                        failed : BOOLEAN]
       /\ ~page.overlapped => Fresh(loads[n].read)
  /\ OwnWritesAreShown

WritesInv ==
  /\ writes = [n \in DOMAIN writes |-> writes[n]]
  /\ \A n \in DOMAIN writes :
       writes[n] \in [key : {writes[n].key}, stage : {"sent", "admitted", "done", "failed"},
                      made : 0 .. version]

\* Keys are numbered as they are made, whether they are revoked later or not.
KeyCount == Cardinality(DOMAIN tokens) + Cardinality(revoked)

TokensInv ==
  /\ lastToken \in Nat /\ DOMAIN tokens \subseteq 1 .. lastToken
  /\ tokens \in [DOMAIN tokens -> [key : 1 .. KeyCount, write : BOOLEAN]]
  /\ IsFiniteSet(revoked) /\ revoked \subseteq 1 .. KeyCount
  /\ \A id \in DOMAIN tokens : tokens[id].key \notin revoked
  /\ \A i, j \in DOMAIN tokens : tokens[i].key = tokens[j].key => i = j
  /\ noted # None => /\ noted.id \in 1 .. lastToken
                     /\ noted.id \in DOMAIN tokens => noted.key = tokens[noted.id].key
  /\ setting \in Keys \cup {NoKey}

IInv == SearchInv /\ PageInv /\ WritesInv /\ TokensInv

-----------------------------------------------------------------------------
(* The operators on functions, and the larger of two numbers.              *)

LEMMA LargerOf ==
  ASSUME NEW a \in Nat, NEW b \in Nat
  PROVE  Max({a, b}) \in {a, b} /\ Max({a, b}) >= a /\ Max({a, b}) >= b
<1>1. \E x \in {a, b} : \A y \in {a, b} : x >= y
  OBVIOUS
<1> QED BY <1>1 DEF Max

LEMMA IInvInit == Init => IInv
<1> SUFFICES ASSUME Init PROVE IInv
  OBVIOUS
<1> USE TextAssumption DEF Init
<1>1. SearchInv
  BY DEF SearchInv, Flights, NoSearch, SettledShowsTheQuery
<1>2. PageInv
  BY DEF PageInv, NoPage, NoLoads, OwnWritesAreShown
<1>3. WritesInv
  BY DEF WritesInv, NoLoads
<1>4. TokensInv
  <2>1. KeyCount = 1 /\ IsFiniteSet(revoked)
    <3>1. DOMAIN tokens = {1}
      OBVIOUS
    <3> QED BY <3>1, FS_Singleton, FS_EmptySet DEF KeyCount
  <2>2. tokens[1].key = 1 /\ tokens[1].write = TRUE /\ DOMAIN tokens = {1}
    OBVIOUS
  <2>3. tokens \in [DOMAIN tokens -> [key : 1 .. KeyCount, write : BOOLEAN]]
    BY <2>1
  <2>4. setting \in Keys \cup {NoKey}
    BY <2>2 DEF Keys
  <2> QED BY <2>1, <2>2, <2>3, <2>4, SMT DEF TokensInv
<1> QED BY <1>1, <1>2, <1>3, <1>4 DEF IInv

-----------------------------------------------------------------------------
(* The search.                                                             *)

LEMMA AllAborted ==
  ASSUME SearchInv
  PROVE  LET on == AbortCurrent(search).flights IN
         /\ AbortCurrent(search) = [search EXCEPT !.flights = on]
         /\ DOMAIN on = DOMAIN search.flights
         /\ Flights(on)
         /\ \A n \in DOMAIN on : on[n].aborted
<1> DEFINE f == search.flights
           on == [n \in DOMAIN f |-> IF n = search.controller THEN [f[n] EXCEPT !.aborted = TRUE]
                                     ELSE f[n]]
<1>1. AbortCurrent(search) = [search EXCEPT !.flights = on]
  BY DEF AbortCurrent
<1>2. AbortCurrent(search).flights = on
  BY <1>1 DEF SearchInv
<1>3. ASSUME NEW n \in DOMAIN f
      PROVE  /\ on[n] \in [text : Text, key : {on[n].key}, reply : {on[n].reply},
                           aborted : BOOLEAN]
             /\ on[n].aborted
  BY DEF SearchInv, Flights
<1> HIDE DEF on
<1>4. DOMAIN on = DOMAIN f /\ on = [n \in DOMAIN on |-> on[n]]
  BY DEF on
<1> QED BY <1>1, <1>2, <1>3, <1>4 DEF Flights

LEMMA SearchStep == SearchInv /\ [Next]_vars => SearchInv'
<1> SUFFICES ASSUME SearchInv, [Next]_vars PROVE SearchInv'
  OBVIOUS
<1> USE TextAssumption
<1>0. search = [query |-> search.query, timer |-> search.timer, flights |-> search.flights,
                controller |-> search.controller, candidates |-> search.candidates,
                problem |-> search.problem, loading |-> search.loading]
  BY DEF SearchInv
<1>1. ASSUME NEW text \in Text \cup {Short}, Type(text) PROVE SearchInv'
  <2>1. CASE text = Short
    <3> DEFINE on == AbortCurrent(search).flights
    <3>1. search' = [query |-> Short, timer |-> None, flights |-> on,
                     controller |-> search.controller, candidates |-> None,
                     problem |-> None, loading |-> FALSE]
      BY <1>0, <1>1, <2>1, AllAborted DEF Type
    <3> HIDE DEF on
    <3>2. Flights(on) /\ \A n \in DOMAIN on : on[n].aborted
      BY AllAborted DEF on
    <3> QED BY <3>1, <3>2 DEF SearchInv, SettledShowsTheQuery
  <2>2. CASE text # Short
    <3>1. search' = [query |-> text, timer |-> text, flights |-> search.flights,
                     controller |-> search.controller, candidates |-> search.candidates,
                     problem |-> search.problem, loading |-> search.loading]
      BY <1>0, <1>1, <2>2 DEF Type
    <3> QED BY <3>1, <2>2 DEF SearchInv, SettledShowsTheQuery
  <2> QED BY <2>1, <2>2
<1>2. CASE RunSearch
  <2> DEFINE on == AbortCurrent(search).flights
             N == Max(DOMAIN search.flights \cup {search.controller}) + 1
             new == [text |-> search.timer, key |-> setting, reply |-> None, aborted |-> FALSE]
  <2>1. search' = [query |-> search.query, timer |-> None, flights |-> With(on, N, new),
                   controller |-> N, candidates |-> search.candidates,
                   problem |-> search.problem, loading |-> TRUE]
    BY <1>0, <1>2, AllAborted DEF RunSearch
  <2>2. Flights(on) /\ \A n \in DOMAIN on : on[n].aborted
    BY AllAborted
  <2>3. search.timer \in Text /\ search.timer = search.query
    BY <1>2 DEF RunSearch, SearchInv
  <2> HIDE DEF on, N
  <2> QED BY <2>1, <2>2, <2>3 DEF With, SearchInv, Flights, SettledShowsTheQuery
<1>3. ASSUME NEW n \in DOMAIN search.flights, AnswerSearch(n) PROVE SearchInv'
  <2>1. PICK reply : search' = [search EXCEPT !.flights[n].reply = reply]
    BY <1>3 DEF AnswerSearch
  <2> DEFINE on == [search.flights EXCEPT ![n].reply = reply]
  <2>2. search' = [query |-> search.query, timer |-> search.timer, flights |-> on,
                   controller |-> search.controller, candidates |-> search.candidates,
                   problem |-> search.problem, loading |-> search.loading]
    BY <1>0, <2>1
  <2>3. /\ DOMAIN on = DOMAIN search.flights /\ Flights(on)
        /\ \A m \in DOMAIN on : /\ on[m].aborted = search.flights[m].aborted
                                /\ on[m].text = search.flights[m].text
    BY DEF SearchInv, Flights
  <2> HIDE DEF on
  <2> QED BY <2>2, <2>3 DEF SearchInv, SettledShowsTheQuery
<1>4. ASSUME NEW n \in DOMAIN search.flights, LandSearch(n) PROVE SearchInv'
  <2> DEFINE on == Without(search.flights, n)
             flight == search.flights[n]
             found == flight.reply = "found"
             landing == search.loading /\ search.controller # n
  <2>0. /\ DOMAIN on = DOMAIN search.flights \ {n} /\ Flights(on)
        /\ \A m \in DOMAIN on : on[m] = search.flights[m]
    BY DEF Without, SearchInv, Flights
  <2> HIDE DEF on
  <2>1. CASE flight.aborted
    <3>1. search' = [query |-> search.query, timer |-> search.timer, flights |-> on,
                     controller |-> search.controller, candidates |-> search.candidates,
                     problem |-> search.problem, loading |-> landing]
      BY <1>0, <1>4, <2>1 DEF LandSearch, on
    <3> QED BY <2>0, <2>1, <3>1 DEF SearchInv, SettledShowsTheQuery
  <2>2. CASE ~flight.aborted
    <3>1. search' = [query |-> search.query, timer |-> search.timer, flights |-> on,
                     controller |-> search.controller,
                     candidates |-> IF found THEN flight.text ELSE None,
                     problem |-> IF found THEN None ELSE flight.text, loading |-> landing]
      BY <1>0, <1>4, <2>2 DEF LandSearch, on
    <3>2. search.controller = n /\ search.loading /\ flight.text \in Text
      BY <2>2 DEF SearchInv, Flights
    <3>3. \A m \in DOMAIN on \ {n} : on[m].aborted
      BY <2>0, <3>2 DEF SearchInv
    <3>4. IF search.timer # None THEN search.timer = search.query ELSE flight.text = search.query
      BY <3>2 DEF SearchInv
    <3>5. /\ {search'.candidates, search'.problem} \ {None} = {flight.text}
          /\ search'.loading = FALSE /\ search'.timer = search.timer
          /\ search'.query = search.query
      BY <3>1, <3>2
    <3>6. SettledShowsTheQuery'
      BY <3>2, <3>4, <3>5 DEF SettledShowsTheQuery
    <3>7. search' \in [query : Text \cup {Short}, timer : Text \cup {None}, flights : {on},
                       controller : {n}, candidates : Text \cup {None},
                       problem : Text \cup {None}, loading : {FALSE}]
      BY <3>1, <3>2 DEF SearchInv
    <3>8. n \notin DOMAIN on
      BY <2>0
    <3> QED BY <2>0, <3>3, <3>4, <3>5, <3>6, <3>7, <3>8 DEF SearchInv
  <2> QED BY <2>1, <2>2
<1>5. ASSUME UNCHANGED search PROVE SearchInv'
  BY <1>5 DEF SearchInv, SettledShowsTheQuery
<1> QED
  BY <1>1, <1>2, <1>3, <1>4, <1>5
  DEF Next, Goes, CreateToken, ListTokens, RevokeToken, SaveSettings, EnsureLoaded, SendWrite,
      OtherWrite, AnswerList, LandRefresh, Admit, HandleWrite, LandWrite, vars
-----------------------------------------------------------------------------
(* The shared inventory, and the writes it is refreshed after.              *)

\* A refresh that begins has read nothing, and those before it are stale
\* only if there are any.
LEMMA RefreshStep ==
  ASSUME PageInv, NEW own \in page.mine .. version, RefreshInventory(own), version' = version
  PROVE  PageInv'
<1> DEFINE n == NewIn(loads)
           new == [key |-> setting, pending |-> 3, read |-> {}, failed |-> FALSE]
<1>1. page' = [status |-> "loading", read |-> page.read, problem |-> FALSE, mine |-> own,
               overlapped |-> loads # NoLoads]
  BY DEF RefreshInventory, PageInv
<1>2. page' \in [status : {"idle", "loading", "ready", "error"}, read : SUBSET (0 .. version),
                 problem : BOOLEAN, mine : 0 .. version, overlapped : BOOLEAN]
  BY <1>1 DEF PageInv
<1>3. loads' = With(loads, n, new)
  BY DEF RefreshInventory
<1> HIDE DEF n
<1>4. /\ DOMAIN loads' = DOMAIN loads \cup {n} /\ loads' = [x \in DOMAIN loads' |-> loads'[x]]
      /\ \A x \in DOMAIN loads' : x # n => loads'[x] = loads[x]
      /\ loads'[n] = new
  BY <1>3 DEF With
<1>5. ~page'.overlapped => DOMAIN loads = {}
  BY <1>1 DEF NoLoads
<1>6. ASSUME NEW x \in DOMAIN loads'
      PROVE  loads'[x] \in [key : {loads'[x].key}, pending : 0 .. 3, read : SUBSET (0 .. version),
                            failed : BOOLEAN]
  <2>1. CASE x = n
    <3>1. new \in [key : {new.key}, pending : 0 .. 3, read : SUBSET (0 .. version),
                   failed : BOOLEAN]
      OBVIOUS
    <3> HIDE DEF new
    <3> QED BY <1>4, <2>1, <3>1
  <2>2. CASE x # n
    <3>1. x \in DOMAIN loads /\ loads'[x] = loads[x]
      BY <1>4, <2>2
    <3> QED BY <3>1 DEF PageInv
  <2> QED BY <2>1, <2>2
<1>7. (\A x \in DOMAIN loads : ~page.overlapped => Fresh(loads[x].read))'
  BY <1>4, <1>5 DEF Fresh
<1> QED BY <1>1, <1>2, <1>4, <1>6, <1>7 DEF PageInv, OwnWritesAreShown

\* Writes raise the version; what was read before stays below it.
LEMMA VersionStep ==
  ASSUME PageInv, UNCHANGED <<loads, page>>, version' \in {version, version + 1}
  PROVE  PageInv'
<1>1. version \in Nat /\ version' \in Nat /\ 0 .. version \subseteq 0 .. version'
  BY DEF PageInv
<1>2. page' \in [status : {"idle", "loading", "ready", "error"}, read : SUBSET (0 .. version'),
                 problem : BOOLEAN, mine : 0 .. version', overlapped : BOOLEAN]
  BY <1>1 DEF PageInv
<1>3. (\A n \in DOMAIN loads :
         /\ loads[n] \in [key : {loads[n].key}, pending : 0 .. 3, read : SUBSET (0 .. version),
                          failed : BOOLEAN]
         /\ ~page.overlapped => Fresh(loads[n].read))'
  BY <1>1 DEF PageInv, Fresh
<1> QED BY <1>1, <1>2, <1>3 DEF PageInv, OwnWritesAreShown

LEMMA PageStep == PageInv /\ WritesInv /\ [Next]_vars => PageInv'
<1> SUFFICES ASSUME PageInv, WritesInv, [Next]_vars PROVE PageInv'
  OBVIOUS
<1>1. CASE EnsureLoaded
  BY <1>1, RefreshStep DEF EnsureLoaded, PageInv, server
<1>2. ASSUME NEW n \in DOMAIN loads, AnswerList(n) PROVE PageInv'
  <2>1. UNCHANGED <<version, page>> /\ DOMAIN loads' = DOMAIN loads
    BY <1>2 DEF AnswerList, server
  <2>2. loads' = [x \in DOMAIN loads' |-> loads'[x]] /\ \A x \in DOMAIN loads \ {n} : loads'[x] = loads[x]
    BY <1>2 DEF AnswerList, PageInv
  <2>3. \/ loads'[n] = [loads[n] EXCEPT !.failed = TRUE]
        \/ /\ loads[n].pending > 0
           /\ loads'[n] = [loads[n] EXCEPT !.pending = @ - 1, !.read = @ \cup {version}]
    BY <1>2 DEF AnswerList, PageInv
  <2>4. /\ loads'[n] \in [key : {loads'[n].key}, pending : 0 .. 3, read : SUBSET (0 .. version),
                          failed : BOOLEAN]
        /\ loads'[n].read \subseteq loads[n].read \cup {version}
    <3>1. /\ loads[n] \in [key : {loads[n].key}, pending : 0 .. 3, read : SUBSET (0 .. version),
                           failed : BOOLEAN]
          /\ version \in 0 .. version
      BY DEF PageInv
    <3>2. CASE loads'[n] = [loads[n] EXCEPT !.failed = TRUE]
      BY <3>1, <3>2
    <3>3. CASE /\ loads[n].pending > 0
               /\ loads'[n] = [loads[n] EXCEPT !.pending = @ - 1, !.read = @ \cup {version}]
      <4>1. /\ loads[n].pending - 1 \in 0 .. 3
            /\ loads[n].read \cup {version} \in SUBSET (0 .. version)
        BY <3>1, <3>3
      <4> QED BY <3>1, <3>3, <4>1
    <3> QED BY <2>3, <3>2, <3>3
  <2>5. ~page.overlapped => Fresh(loads'[n].read)
    BY <2>4 DEF PageInv, Fresh
  <2> QED BY <2>1, <2>2, <2>4, <2>5 DEF PageInv, Fresh, OwnWritesAreShown
<1>3. ASSUME NEW n \in DOMAIN loads, LandRefresh(n) PROVE PageInv'
  <2>1. /\ version' = version /\ DOMAIN loads' = DOMAIN loads \ {n}
        /\ loads' = [x \in DOMAIN loads' |-> loads'[x]]
        /\ \A x \in DOMAIN loads' : loads'[x] = loads[x]
    BY <1>3 DEF LandRefresh, Without, server
  <2>2. /\ page' \in [status : {"ready", "error"}, read : SUBSET (0 .. version),
                      problem : BOOLEAN, mine : {page.mine}, overlapped : {page.overlapped}]
        /\ page'.status = "ready" => page'.read = loads[n].read
    BY <1>3 DEF LandRefresh, PageInv
  <2> QED BY <2>1, <2>2 DEF PageInv, Fresh, OwnWritesAreShown
<1>4. ASSUME NEW n \in DOMAIN writes, HandleWrite(n) PROVE PageInv'
  BY <1>4, VersionStep DEF HandleWrite
<1>5. ASSUME NEW n \in DOMAIN writes, LandWrite(n) PROVE PageInv'
  <2>1. page.mine \in Nat /\ writes[n].made \in Nat
        /\ page.mine <= version /\ writes[n].made <= version /\ version \in Nat
    BY DEF PageInv, WritesInv
  <2>2. Max({page.mine, writes[n].made}) \in page.mine .. version
    BY <2>1, LargerOf
  <2>3. version' = version
    BY <1>5 DEF LandWrite, server
  <2> QED BY <1>5, <2>2, <2>3, RefreshStep, VersionStep DEF LandWrite
<1>6. CASE OtherWrite
  BY <1>6, VersionStep DEF OtherWrite, refresh
<1>7. CASE UNCHANGED <<version, loads, page>>
  BY <1>7, VersionStep
<1> QED
  BY <1>1, <1>2, <1>3, <1>4, <1>5, <1>6, <1>7
  DEF Next, Goes, CreateToken, ListTokens, RevokeToken, SaveSettings, Type, RunSearch,
      AnswerSearch, LandSearch, SendWrite, Admit, server, refresh, vars

LEMMA WritesStep == PageInv /\ WritesInv /\ [Next]_vars => WritesInv'
<1> SUFFICES ASSUME PageInv, WritesInv, [Next]_vars PROVE WritesInv'
  OBVIOUS
<1>1. CASE SendWrite
  <2> DEFINE n == NewIn(writes)
  <2>1. writes' = With(writes, n, [key |-> setting, stage |-> "sent", made |-> 0])
        /\ version' = version
    BY <1>1 DEF SendWrite, server
  <2> HIDE DEF n
  <2> QED BY <2>1 DEF With, WritesInv, PageInv
<1>2. ASSUME NEW n \in DOMAIN writes, Admit(n) PROVE WritesInv'
  <2>1. PICK stage \in {"failed", "admitted"} : writes' = [writes EXCEPT ![n].stage = stage]
    BY <1>2 DEF Admit
  <2>2. version' = version
    BY <1>2 DEF Admit, server
  <2> QED BY <2>1, <2>2 DEF WritesInv
<1>3. ASSUME NEW n \in DOMAIN writes, HandleWrite(n) PROVE WritesInv'
  <2>1. version \in Nat /\ version' \in {version, version + 1}
    BY <1>3 DEF HandleWrite, PageInv
  <2>2. /\ DOMAIN writes' = DOMAIN writes /\ writes' = [x \in DOMAIN writes' |-> writes'[x]]
        /\ \A x \in DOMAIN writes \ {n} : writes'[x] = writes[x]
    BY <1>3 DEF HandleWrite, WritesInv
  <2>3. writes'[n] \in [key : {writes'[n].key}, stage : {"done", "failed"}, made : 0 .. version']
    BY <1>3, <2>1 DEF HandleWrite, WritesInv
  <2> QED BY <2>1, <2>2, <2>3 DEF WritesInv
<1>4. ASSUME NEW n \in DOMAIN writes, LandWrite(n) PROVE WritesInv'
  BY <1>4 DEF LandWrite, Without, WritesInv, server
<1>5. ASSUME UNCHANGED writes, version' \in {version, version + 1} PROVE WritesInv'
  BY <1>5 DEF WritesInv, PageInv
<1> QED
  BY <1>1, <1>2, <1>3, <1>4, <1>5
  DEF Next, Goes, CreateToken, ListTokens, RevokeToken, SaveSettings, Type, RunSearch,
      AnswerSearch, LandSearch, EnsureLoaded, OtherWrite, AnswerList, LandRefresh, server,
      refresh, vars

-----------------------------------------------------------------------------
(* The tokens.                                                             *)

LEMMA KeysCounted == TokensInv => IsFiniteSet(DOMAIN tokens) /\ KeyCount \in Nat
<1> SUFFICES ASSUME TokensInv PROVE IsFiniteSet(DOMAIN tokens) /\ KeyCount \in Nat
  OBVIOUS
<1>1. IsFiniteSet(1 .. lastToken) /\ DOMAIN tokens \in SUBSET (1 .. lastToken)
  <2>1. lastToken \in Int /\ DOMAIN tokens \in SUBSET (1 .. lastToken)
    BY DEF TokensInv
  <2>2. 1 \in Int
    OBVIOUS
  <2> QED BY <2>1, <2>2, FS_Interval
<1>2. IsFiniteSet(DOMAIN tokens)
  BY <1>1, FS_Subset
<1> QED BY <1>2, FS_CardinalityType DEF TokensInv, KeyCount

\* A new token has an id and a key that no token ever had.
LEMMA CreateTokenStep ==
  ASSUME TokensInv, NEW write \in BOOLEAN, CreateToken(write)
  PROVE  TokensInv'
<1> DEFINE key == KeyCount + 1
           id == lastToken + 1
           new == [key |-> key, write |-> write]
<1>1. KeyCount \in Nat /\ IsFiniteSet(DOMAIN tokens) /\ lastToken \in Nat
  BY KeysCounted DEF TokensInv
<1>2. /\ tokens' = With(tokens, id, new)
      /\ lastToken' = id /\ UNCHANGED <<noted, revoked, setting>>
  BY DEF CreateToken, NewTokenId, KeyCount
<1>3. id \notin DOMAIN tokens /\ id # 0
  BY <1>1 DEF TokensInv
<1>4. /\ DOMAIN tokens' = DOMAIN tokens \cup {id} /\ tokens'[id] = new
      /\ tokens' = [x \in DOMAIN tokens' |-> tokens'[x]]
      /\ \A x \in DOMAIN tokens : tokens'[x] = tokens[x]
  BY <1>2, <1>3 DEF With
<1>5. KeyCount' = key
  <2>1. Cardinality(DOMAIN tokens') = Cardinality(DOMAIN tokens) + 1
    BY <1>1, <1>3, <1>4, FS_AddElement
  <2>2. Cardinality(DOMAIN tokens) \in Nat /\ Cardinality(revoked) \in Nat
    BY <1>1, FS_CardinalityType DEF TokensInv
  <2> QED BY <1>2, <2>1, <2>2 DEF KeyCount
<1> HIDE DEF key, id
<1>6. key = KeyCount + 1 /\ key \in Nat /\ 1 .. KeyCount \subseteq 1 .. key /\ key \in 1 .. key
      /\ key \notin 1 .. KeyCount
  BY <1>1 DEF key
<1>7. id = lastToken + 1 /\ id \in Nat /\ DOMAIN tokens' \subseteq 1 .. id
      /\ 1 .. lastToken \subseteq 1 .. id /\ id \notin 1 .. lastToken
  BY <1>1, <1>4 DEF id, TokensInv
<1>8. tokens' \in [DOMAIN tokens' -> [key : 1 .. key, write : BOOLEAN]]
  BY <1>4, <1>6 DEF TokensInv
<1>9. /\ IsFiniteSet(revoked) /\ revoked \subseteq 1 .. key
      /\ \A x \in DOMAIN tokens' : tokens'[x].key \notin revoked
      /\ \A i, j \in DOMAIN tokens' : tokens'[i].key = tokens'[j].key => i = j
  BY <1>4, <1>6 DEF TokensInv
<1>10. noted # None => /\ noted.id \in 1 .. id
                       /\ noted.id \in DOMAIN tokens' => noted.key = tokens'[noted.id].key
  BY <1>4, <1>7 DEF TokensInv
<1>11. setting \in Keys' \cup {NoKey}
  BY <1>2, <1>4 DEF Keys, TokensInv
<1> QED BY <1>2, <1>5, <1>7, <1>8, <1>9, <1>10, <1>11 DEF TokensInv

\* A token that is revoked takes its key with it, and the others keep theirs.
LEMMA RevokeTokenStep ==
  ASSUME TokensInv, RevokeToken
  PROVE  TokensInv' /\ revoked' \subseteq revoked \cup {noted.key} /\ Keys' = Keys
<1> DEFINE id == noted.id
<1>1. /\ noted # None /\ id \in 1 .. lastToken
      /\ UNCHANGED <<lastToken, noted, setting>>
      /\ tokens' = Without(tokens, id)
      /\ revoked' = revoked \cup {tokens[x].key : x \in DOMAIN tokens \cap {id}}
  BY DEF RevokeToken, TokensInv
<1>2. /\ DOMAIN tokens' = DOMAIN tokens \ {id}
      /\ tokens' = [x \in DOMAIN tokens' |-> tokens'[x]]
      /\ \A x \in DOMAIN tokens' : tokens'[x] = tokens[x]
  BY <1>1 DEF Without
<1>3. CASE id \notin DOMAIN tokens
  <2>1. tokens' = tokens /\ revoked' = revoked
    BY <1>1, <1>2, <1>3 DEF TokensInv
  <2> QED BY <1>1, <2>1 DEF TokensInv, KeyCount, Keys
<1>4. CASE id \in DOMAIN tokens
  <2> DEFINE key == tokens[id].key
  <2>1. revoked' = revoked \cup {key} /\ key = noted.key /\ key \notin revoked /\ key \in 1 .. KeyCount
    BY <1>1, <1>4 DEF TokensInv
  <2>2. KeyCount' = KeyCount /\ IsFiniteSet(revoked')
    <3>1. IsFiniteSet(DOMAIN tokens) /\ IsFiniteSet(revoked)
      BY KeysCounted DEF TokensInv
    <3>2. Cardinality(DOMAIN tokens') = Cardinality(DOMAIN tokens) - 1
      BY <1>2, <1>4, <3>1, FS_RemoveElement
    <3>3. Cardinality(revoked') = Cardinality(revoked) + 1 /\ IsFiniteSet(revoked')
      BY <2>1, <3>1, FS_AddElement
    <3>4. Cardinality(DOMAIN tokens) \in Nat /\ Cardinality(revoked) \in Nat
      BY <3>1, FS_CardinalityType
    <3> QED BY <3>2, <3>3, <3>4 DEF KeyCount
  <2>3. Keys' = Keys
    BY <1>2, <1>4, <2>1 DEF Keys
  <2>4. /\ DOMAIN tokens' \subseteq 1 .. lastToken
        /\ tokens' \in [DOMAIN tokens' -> [key : 1 .. KeyCount, write : BOOLEAN]]
        /\ revoked' \subseteq 1 .. KeyCount
    BY <1>2, <2>1 DEF TokensInv
  <2>5. /\ \A x \in DOMAIN tokens' : tokens'[x].key \notin revoked'
        /\ \A i, j \in DOMAIN tokens' : tokens'[i].key = tokens'[j].key => i = j
    BY <1>2, <1>4, <2>1 DEF TokensInv
  <2> QED BY <1>1, <1>2, <2>1, <2>2, <2>3, <2>4, <2>5 DEF TokensInv
<1> QED BY <1>3, <1>4

LEMMA TokensStep == TokensInv /\ [Next]_vars => TokensInv'
<1> SUFFICES ASSUME TokensInv, [Next]_vars PROVE TokensInv'
  OBVIOUS
<1>1. ASSUME NEW id \in DOMAIN tokens, ListTokens(id) PROVE TokensInv'
  BY <1>1 DEF ListTokens, TokensInv, KeyCount, Keys
<1>2. ASSUME NEW key \in Keys \cup {NoKey}, SaveSettings(key) PROVE TokensInv'
  BY <1>2 DEF SaveSettings, TokensInv, KeyCount, Keys, server
<1>3. CASE UNCHANGED <<tokens, lastToken, noted, revoked, setting>>
  BY <1>3 DEF TokensInv, KeyCount, Keys
<1> QED
  BY <1>1, <1>2, <1>3, CreateTokenStep, RevokeTokenStep
  DEF Next, Goes, Type, RunSearch, AnswerSearch, LandSearch, EnsureLoaded, AnswerList,
      LandRefresh, SendWrite, Admit, HandleWrite, LandWrite, OtherWrite, server, vars

-----------------------------------------------------------------------------
(* Theorems.                                                               *)

\* The inductive invariant, which the web interface's own clients, their
\* searches and the operator's commands never leave.
THEOREM InductiveInvariant == Spec => []IInv
<1>1. Init => IInv
  BY IInvInit
<1>2. IInv /\ [Next]_vars => IInv'
  BY SearchStep, PageStep, WritesStep, TokensStep DEF IInv
<1> QED BY <1>1, <1>2, PTL DEF Spec

\* Every variable keeps its type; a token's id is one that was given out, and
\* the browser's key is one that was made.
THEOREM TypeCorrect == Spec => []TypeOK
<1>1. IInv => TypeOK
  BY DEF IInv, SearchInv, PageInv, TokensInv, TypeOK
<1> QED BY <1>1, InductiveInvariant, PTL

\* However the searches overtake each other and the timer, what is shown once
\* nothing is on its way is about the query in the box (routes/+page.svelte).
THEOREM SearchSettles == Spec => []SettledShowsTheQuery
<1>1. IInv => SettledShowsTheQuery
  BY DEF IInv, SearchInv
<1> QED BY <1>1, InductiveInvariant, PTL

\* The shared inventory is not behind the page's own writes unless refreshes
\* overlapped (lib/inventory.svelte.ts).
THEOREM OwnWritesShown == Spec => []OwnWritesAreShown
<1>1. IInv => OwnWritesAreShown
  BY DEF IInv, PageInv
<1> QED BY <1>1, InductiveInvariant, PTL

\* What a step may take from the tokens, and whom it may admit.
ExactStep ==
  /\ revoked' \ revoked \subseteq {noted.key : x \in {noted} \ {None}}
  /\ \A n \in DOMAIN writes \cap DOMAIN writes' :
       writes[n].stage = "sent" /\ writes'[n].stage = "admitted" => writes[n].key \notin revoked

LEMMA RevocationStep == IInv /\ [Next]_vars => ExactStep
<1> SUFFICES ASSUME IInv, [Next]_vars PROVE ExactStep
  OBVIOUS
<1>1. CASE RevokeToken
  <2>1. noted # None /\ UNCHANGED writes
    BY <1>1 DEF RevokeToken, refresh
  <2> QED BY <1>1, <2>1, RevokeTokenStep DEF ExactStep, IInv
<1>2. ASSUME NEW n \in DOMAIN writes, Admit(n) PROVE ExactStep
  <2>1. PICK stage \in {"failed"} \cup IF MayWrite(writes[n].key) THEN {"admitted"} ELSE {} :
          writes' = [writes EXCEPT ![n].stage = stage]
    BY <1>2 DEF Admit
  <2>2. \A m \in DOMAIN writes \ {n} : writes'[m] = writes[m]
    BY <2>1 DEF IInv, WritesInv
  <2>3. writes'[n].stage = stage
    BY <2>1 DEF IInv, WritesInv
  <2>4. MayWrite(writes[n].key) => writes[n].key \notin revoked
    BY DEF MayWrite, IInv, TokensInv
  <2>5. revoked' = revoked
    BY <1>2 DEF Admit, server
  <2> QED BY <2>1, <2>2, <2>3, <2>4, <2>5 DEF ExactStep
<1>3. ASSUME NEW n \in DOMAIN writes, HandleWrite(n) PROVE ExactStep
  <2>1. revoked' = revoked /\ writes[n].stage = "admitted"
    BY <1>3 DEF HandleWrite
  <2>2. \A m \in DOMAIN writes \ {n} : writes'[m] = writes[m]
    BY <1>3 DEF HandleWrite, IInv, WritesInv
  <2> QED BY <2>1, <2>2 DEF ExactStep
<1>4. ASSUME NEW n \in DOMAIN writes, LandWrite(n) PROVE ExactStep
  BY <1>4 DEF LandWrite, Without, server, ExactStep
<1>5. CASE SendWrite
  <2> DEFINE n == NewIn(writes)
  <2>1. writes' = With(writes, n, [key |-> setting, stage |-> "sent", made |-> 0])
        /\ revoked' = revoked
    BY <1>5 DEF SendWrite, server
  <2> HIDE DEF n
  <2> QED BY <2>1 DEF With, ExactStep
<1>6. CASE UNCHANGED <<revoked, writes>>
  BY <1>6 DEF ExactStep
<1> QED
  BY <1>1, <1>2, <1>3, <1>4, <1>5, <1>6
  DEF Next, Goes, CreateToken, ListTokens, SaveSettings, Type, RunSearch, AnswerSearch, LandSearch,
      EnsureLoaded, AnswerList, LandRefresh, OtherWrite, server, refresh, vars

\* Revoking takes the noted token or none, and no request with a revoked key
\* is let in, whatever tokens were made since (storage/tokens.go, bearerAuth).
THEOREM RevocationExact == Spec => RevocationIsExact
<1>1. IInv /\ [Next]_vars => [ExactStep]_vars
  BY RevocationStep
<1> QED BY <1>1, InductiveInvariant, PTL DEF Spec, RevocationIsExact, ExactStep
=============================================================================
