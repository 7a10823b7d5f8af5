-------------------------------- MODULE Web --------------------------------
(***************************************************************************)
(* A visit to the web interface (web/src): the shared copy of the          *)
(* inventory that the pages show, refreshed after each of their writes,    *)
(* and the dashboard's search as one types; with the tokens its requests   *)
(* carry (internal/auth, internal/storage/tokens.go, internal/server),     *)
(* which an operator creates and revokes from the command line.            *)
(*                                                                         *)
(* The inventory is the number of writes committed to it. Answers take any *)
(* time and come in any order; a request may fail on its way there, on its *)
(* way back, or in between.                                                *)
(***************************************************************************)
EXTENDS Integers, FiniteSets, FiniteSetsExt

CONSTANTS
  Text,     \* queries long enough to search for
  Short,    \* a query that is not
  None,     \* no text, no reply, nothing noted
  Visits    \* bounds on a visit: how often one types, writes and deals with tokens

ASSUME TextAssumption == Text \cap {Short, None} = {}

VARIABLES
  version,   \* the writes committed so far
  tokens,    \* api_tokens: id -> the key (the plaintext's hash) and whether it may write
  lastToken, \* its AUTOINCREMENT sequence
  noted,     \* the token the operator has in mind, from a list: its id and key
  revoked,   \* history: the keys of the revoked tokens
  setting,   \* the key in the browser's settings
  search,    \* the dashboard's search
  loads,     \* the refreshes on their way
  page,      \* the shared copy of the inventory
  writes,    \* the pages' writes on their way
  left       \* what is left of the bounds

vars == <<version, tokens, lastToken, noted, revoked, setting, search, loads, page, writes, left>>
server   == <<version, tokens, lastToken, noted, revoked>>
refresh  == <<loads, page, writes>>

Spend(what) == left[what] > 0 /\ left' = [left EXCEPT ![what] = @ - 1]
Without(f, x) == [y \in DOMAIN f \ {x} |-> f[y]]
With(f, x, v) == [y \in DOMAIN f \cup {x} |-> IF y = x THEN v ELSE f[y]]
NewIn(f) == CHOOSE n \in 1 .. Cardinality(DOMAIN f) + 1 : n \notin DOMAIN f

-----------------------------------------------------------------------------
(* Tokens. *)

NoKey == 0   \* no token in the settings

Valid(key)    == \E id \in DOMAIN tokens : tokens[id].key = key
MayWrite(key) == \E id \in DOMAIN tokens : tokens[id].key = key /\ tokens[id].write

\* Mutant: an id is taken again once it is free.
FreeTokenId == Max(DOMAIN tokens \cup {0}) + 1
NewTokenId  == lastToken + 1

\* homey token create: a new key each time, numbered here.
CreateToken(write) ==
  LET key == Cardinality(DOMAIN tokens) + Cardinality(revoked) + 1 IN
  /\ Spend("keys")
  /\ tokens' = With(tokens, NewTokenId, [key |-> key, write |-> write])
  /\ lastToken' = NewTokenId
  /\ UNCHANGED <<version, noted, revoked, setting, search, refresh>>

\* homey token list
ListTokens(id) ==
  /\ id \in DOMAIN tokens
  /\ noted' = [id |-> id, key |-> tokens[id].key]
  /\ UNCHANGED <<version, tokens, lastToken, revoked, setting, search, refresh, left>>

\* homey token revoke, of the id that was noted; it may be given twice, and by
\* now there may be no such token.
RevokeToken ==
  /\ Spend("keys") /\ noted # None
  /\ tokens' = Without(tokens, noted.id)
  /\ revoked' = revoked \cup {tokens[id].key : id \in DOMAIN tokens \cap {noted.id}}
  /\ UNCHANGED <<version, lastToken, noted, setting, search, refresh>>

SaveSettings(key) ==
  /\ Spend("keys") /\ setting' = key
  /\ UNCHANGED <<server, search, refresh>>

-----------------------------------------------------------------------------
(* The dashboard's search. *)

NoSearch == [query |-> Short, timer |-> None, flights |-> [n \in {} |-> None], controller |-> 0,
             candidates |-> None, problem |-> None, loading |-> FALSE]

\* Mutant: the search on its way is left to land.
KeepCurrent(s) == s
AbortCurrent(s) ==
  [s EXCEPT !.flights =
     [n \in DOMAIN @ |-> IF n = s.controller THEN [@[n] EXCEPT !.aborted = TRUE] ELSE @[n]]]

\* Text too short is not searched for; other text when one has stopped typing.
Type(text) ==
  /\ Spend("typed")
  /\ search' =
       IF text = Short
       THEN [AbortCurrent(search) EXCEPT !.query = text, !.timer = None, !.candidates = None,
                                         !.problem = None, !.loading = FALSE]
       ELSE [search EXCEPT !.query = text, !.timer = text]
  /\ UNCHANGED <<server, setting, refresh>>

RunSearch ==
  LET n == Max(DOMAIN search.flights \cup {search.controller}) + 1 IN
  /\ search.timer # None
  /\ search' = [AbortCurrent(search) EXCEPT
                  !.timer = None, !.controller = n, !.loading = TRUE,
                  !.flights = With(@, n, [text |-> search.timer, key |-> setting,
                                          reply |-> None, aborted |-> FALSE])]
  /\ UNCHANGED <<server, setting, refresh, left>>

AnswerSearch(n) ==
  /\ search.flights[n].reply = None
  /\ \E reply \in {"failed"} \cup IF Valid(search.flights[n].key) THEN {"found"} ELSE {} :
       search' = [search EXCEPT !.flights[n].reply = reply]
  /\ UNCHANGED <<server, setting, refresh, left>>

\* Mutant: a search that fails goes on loading.
LandSearchLoading(n) ==
  LET flight == search.flights[n] IN
  /\ flight.aborted \/ flight.reply # None
  /\ search' =
       IF flight.aborted THEN [search EXCEPT !.flights = Without(@, n)]
       ELSE [search EXCEPT
               !.flights = Without(@, n), !.loading = flight.reply = "failed",
               !.candidates = IF flight.reply = "found" THEN flight.text ELSE None,
               !.problem    = IF flight.reply = "found" THEN None ELSE flight.text]
  /\ UNCHANGED <<server, setting, refresh, left>>

\* What was aborted lands at once, to no effect.
LandSearch(n) ==
  LET flight == search.flights[n]
      landed == [search EXCEPT !.flights = Without(@, n),
                               !.loading = @ /\ search.controller # n]
  IN /\ flight.aborted \/ flight.reply # None
     /\ search' =
          IF flight.aborted THEN landed
          ELSE [landed EXCEPT
                  !.candidates = IF flight.reply = "found" THEN flight.text ELSE None,
                  !.problem    = IF flight.reply = "found" THEN None ELSE flight.text]
     /\ UNCHANGED <<server, setting, refresh, left>>

-----------------------------------------------------------------------------
(* The shared inventory. A refresh asks for the three lists at once; it     *)
(* lands when it has them all, or as soon as one fails.                     *)

NoLoads == [n \in {} |-> None]
NoPage  == [status |-> "idle", read |-> {}, problem |-> FALSE, mine |-> 0, overlapped |-> FALSE]

\* `read` are the versions that lists were read at. History, for a property:
\* `mine` is the last own write whose answer the page has had, `overlapped`
\* whether a refresh began while another was on its way.
RefreshInventory(mine) ==
  /\ loads' = With(loads, NewIn(loads),
                   [key |-> setting, pending |-> 3, read |-> {}, failed |-> FALSE])
  /\ page' = [page EXCEPT !.status = "loading", !.problem = FALSE, !.mine = mine,
                          !.overlapped = loads # NoLoads]

\* Once per visit, whichever page comes first.
EnsureLoaded ==
  /\ page.status = "idle" /\ RefreshInventory(page.mine)
  /\ UNCHANGED <<server, setting, search, writes, left>>

\* Mutant: answers are counted past the last.
AnswerListTwice(n) ==
  /\ ~loads[n].failed /\ Valid(loads[n].key)
  /\ loads' = [loads EXCEPT ![n].pending = @ - 2, ![n].read = @ \cup {version}]
  /\ UNCHANGED <<server, setting, search, page, writes, left>>

AnswerList(n) ==
  /\ loads[n].pending > 0 /\ ~loads[n].failed
  /\ \/ loads' = [loads EXCEPT ![n].failed = TRUE]
     \/ /\ Valid(loads[n].key)
        /\ loads' = [loads EXCEPT ![n].pending = @ - 1, ![n].read = @ \cup {version}]
  /\ UNCHANGED <<server, setting, search, page, writes, left>>

LandRefresh(n) ==
  /\ loads[n].failed \/ loads[n].pending = 0
  /\ loads' = Without(loads, n)
  /\ page' = IF loads[n].failed THEN [page EXCEPT !.status = "error", !.problem = TRUE]
             ELSE [page EXCEPT !.status = "ready", !.read = loads[n].read]
  /\ UNCHANGED <<server, setting, search, writes, left>>

-----------------------------------------------------------------------------
(* A page's writes: the request, then a refresh once it has been answered.  *)

SendWrite ==
  /\ Spend("writes")
  /\ writes' = With(writes, NewIn(writes), [key |-> setting, stage |-> "sent", made |-> 0])
  /\ UNCHANGED <<server, setting, search, loads, page>>

\* bearerAuth. A lookup that fails is as good as no token.
Admit(n) ==
  /\ writes[n].stage = "sent"
  /\ \E stage \in {"failed"} \cup IF MayWrite(writes[n].key) THEN {"admitted"} ELSE {} :
       writes' = [writes EXCEPT ![n].stage = stage]
  /\ UNCHANGED <<server, setting, search, loads, page, left>>

\* The handler's mutation; it may be refused, and nothing need be heard of it.
HandleWrite(n) ==
  /\ writes[n].stage = "admitted"
  /\ \/ version' = version + 1
        /\ \E stage \in {"done", "failed"} :
             writes' = [writes EXCEPT ![n].stage = stage, ![n].made = version + 1]
     \/ UNCHANGED version /\ writes' = [writes EXCEPT ![n].stage = "failed"]
  /\ UNCHANGED <<tokens, lastToken, noted, revoked, setting, search, loads, page, left>>

\* Mutant: the page shows what it has.
LandWriteAlone(n) ==
  /\ writes[n].stage \in {"done", "failed"}
  /\ writes' = Without(writes, n)
  /\ page' = [page EXCEPT !.mine = Max({@, writes[n].made})]
  /\ UNCHANGED <<server, setting, search, loads, left>>

LandWrite(n) ==
  /\ writes[n].stage \in {"done", "failed"}
  /\ writes' = Without(writes, n)
  /\ IF writes[n].stage = "done"
     THEN RefreshInventory(Max({page.mine, writes[n].made}))
     ELSE UNCHANGED <<loads, page>>
  /\ UNCHANGED <<server, setting, search, left>>

\* Another client's write.
OtherWrite ==
  /\ Spend("writes") /\ version' = version + 1
  /\ UNCHANGED <<tokens, lastToken, noted, revoked, setting, search, refresh>>

-----------------------------------------------------------------------------
Init ==
  /\ version = 0 /\ tokens = [id \in {1} |-> [key |-> 1, write |-> TRUE]] /\ lastToken = 1
  /\ noted = None /\ revoked = {} /\ setting = 1
  /\ search = NoSearch /\ loads = NoLoads /\ page = NoPage /\ writes = NoLoads
  /\ left \in Visits

Keys == {tokens[id].key : id \in DOMAIN tokens} \cup revoked

\* What goes on by itself: the timer, the server and the network.
Goes ==
  \/ RunSearch
  \/ \E n \in DOMAIN search.flights : AnswerSearch(n) \/ LandSearch(n)
  \/ \E n \in DOMAIN loads : AnswerList(n) \/ LandRefresh(n)
  \/ \E n \in DOMAIN writes : Admit(n) \/ HandleWrite(n) \/ LandWrite(n)

Next ==
  \/ \E write \in BOOLEAN : CreateToken(write)
  \/ \E id \in DOMAIN tokens : ListTokens(id)
  \/ RevokeToken
  \/ \E key \in Keys \cup {NoKey} : SaveSettings(key)
  \/ \E text \in Text \cup {Short} : Type(text)
  \/ EnsureLoaded \/ SendWrite \/ OtherWrite
  \/ Goes

Spec == Init /\ [][Next]_vars

\* The browser fires its timers, and every request is answered or fails.
FairSpec == Spec /\ WF_vars(Goes)

-----------------------------------------------------------------------------
(* What must hold.                                                         *)

TypeOK ==
  /\ version \in Nat /\ lastToken \in Nat /\ DOMAIN tokens \subseteq 1 .. lastToken
  /\ setting \in Keys \cup {NoKey}
  /\ search.query \in Text \cup {Short}
  /\ {search.timer, search.candidates, search.problem} \subseteq Text \cup {None}
  /\ page.status \in {"idle", "loading", "ready", "error"} /\ page.read \subseteq 0 .. version
  /\ \A n \in DOMAIN loads : loads[n].pending \in 0 .. 3

\* Whatever was typed, and in whichever order the answers came: once nothing
\* is on its way the search shows the candidates of the query in the box, or
\* its problem, and for a query too short neither. (Until then it may show
\* those of an earlier query, or say of a new one that nothing matches.)
SettledShowsTheQuery ==
  search.timer = None /\ ~search.loading =>
    {search.candidates, search.problem} \ {None} = {search.query} \ {Short}

\* A page that is ready has every own write it has been told of, unless one
\* refresh began while another was on its way: then the older may land last.
OwnWritesAreShown ==
  page.status = "ready" /\ ~page.overlapped => \A v \in page.read : v >= page.mine

\* A revocation takes away the token the operator noted, or none, however
\* late or often the command is given; and what was revoked is never admitted
\* again, whichever tokens come after it.
RevocationIsExact ==
  [][/\ revoked' \ revoked \subseteq {noted.key : x \in {noted} \ {None}}
     /\ \A n \in DOMAIN writes \cap DOMAIN writes' :
          writes[n].stage = "sent" /\ writes'[n].stage = "admitted" =>
            writes[n].key \notin revoked]_vars

\* What is on its way ends: a query that is left alone is settled in the end,
\* and a page that loads is ready or has a problem.
PageSettles ==
  /\ \A text \in Text :
       search.query = text ~> (search.query # text \/ (search.timer = None /\ ~search.loading))
  /\ page.status = "loading" ~> page.status # "loading"
=============================================================================
