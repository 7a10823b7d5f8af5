--------------------------- MODULE Confirmations ---------------------------
(***************************************************************************)
(* delete_item, delete_room and delete_container (internal/tools), for     *)
(* callers that may write: the call reads the thing, is authorised, and    *)
(* deletes it. Authorising it takes the Confirmer, a map of short-lived    *)
(* tokens behind a mutex, unless the caller is sure or trusted.            *)
(* The three steps are not one: other calls, other deletions and the clock *)
(* come in between, and a restart empties the map.                         *)
(***************************************************************************)
EXTENDS Integers, FiniteSets

CONSTANTS
  Client,          \* the tool calls in flight at a time
  Tool,            \* the destructive tools; ids are per tool
  Token,           \* what the random source can give
  NoToken, NoCall,
  TTL,             \* how long a token lives
  MaxRow,          \* bounds on the rows ever created, on the clock
  MaxTime,         \* and on the restarts
  MaxBoot

Entity == [tool : Tool, id : 1 .. MaxRow]
Call == [stage : {"looked", "minted", "confirmed", "bypassed"}, entity : Entity,
         token : Token \cup {NoToken}, sure : BOOLEAN]

ASSUME TTLAssumption     == TTL \in Nat \ {0}
ASSUME LimitsAssumption  == MaxRow \in Nat /\ MaxTime \in Nat /\ MaxBoot \in Nat
ASSUME NoTokenAssumption == NoToken \notin Token
ASSUME NoCallAssumption  == NoCall \notin Call

VARIABLES
  now,      \* the clock
  tokens,   \* Confirmer.tokens: what each pending token stands for
  alive,    \* the rows there are
  last,     \* the sequence of each table
  call,     \* where each call is
  minted,   \* what each token was minted for: issue's locals, then history
  log,      \* the audit trail: how the deletion of each row was authorised
  boot      \* which run of the process this is

vars == <<now, tokens, alive, last, call, minted, log, boot>>

NoTokens == [t \in {} |-> t]
Put(map, t, value) == [x \in DOMAIN map \cup {t} |-> IF x = t THEN value ELSE map[x]]
Only(map, T) == [x \in DOMAIN map \cap T |-> map[x]]

Expired(pending) == now >= pending.expires

-----------------------------------------------------------------------------
Init ==
  /\ now = 0 /\ tokens = NoTokens /\ minted = NoTokens /\ log = NoTokens
  /\ alive = {} /\ last = [t \in Tool |-> 0]
  /\ call = [c \in Client |-> NoCall] /\ boot = 0

\* Mutant: without AUTOINCREMENT, the number after the last live row.
NextIDReused(tool) ==
  LET used == {e.id : e \in {x \in alive : x.tool = tool}} IN
  CHOOSE n \in 1 .. MaxRow + 1 : (\A m \in used : m < n) /\ (n = 1 \/ n - 1 \in used)

NextID(tool) == last[tool] + 1

Create(tool) ==
  /\ Cardinality(alive \cup DOMAIN log) < MaxRow
  /\ alive' = alive \cup {[tool |-> tool, id |-> NextID(tool)]}
  /\ last' = [last EXCEPT ![tool] = @ + 1]
  /\ UNCHANGED <<now, tokens, call, minted, log, boot>>

\* Deleted over REST, which asks for no confirmation.
DeleteElsewhere(e) ==
  /\ e \in alive
  /\ alive' = alive \ {e}
  /\ log' = Put(log, e, [mode |-> "", token |-> NoToken])
  /\ UNCHANGED <<now, tokens, last, call, minted, boot>>

To(c, at) == call' = [call EXCEPT ![c] = at]
Ends(c) == To(c, NoCall)
At(c, stage) == call[c] # NoCall /\ call[c].stage = stage

\* The tokens that callers have been answered.
Answered ==
  DOMAIN minted \ {call[c].token : c \in {x \in Client : At(x, "minted")}}

\* The read that comes first: a missing thing is an error, before any token is
\* spent. sure is confirm=true, or a caller trusted by its own policy.
Look(c, e, token, sure) ==
  /\ call[c] = NoCall
  /\ e \in alive
  /\ token \in Answered \cup {NoToken}
  /\ To(c, [stage |-> "looked", entity |-> e, token |-> token, sure |-> sure])
  /\ UNCHANGED <<now, tokens, alive, last, minted, log, boot>>

Bypass(c) ==
  /\ At(c, "looked") /\ call[c].sure
  /\ To(c, [call[c] EXCEPT !.stage = "bypassed"])
  /\ UNCHANGED <<now, tokens, alive, last, minted, log, boot>>

\* Mutant: a redeemed token stays.
SpendsExpired(token, e) == {t \in DOMAIN tokens \cap {token} : Expired(tokens[t])}
\* Mutant: whatever the token was issued for, it goes.
SpendsAnyway(token, e) == DOMAIN tokens \cap {token}
\* The tokens a redemption takes out of the map, and whether it answers true.
Spends(token, e) ==
  {t \in DOMAIN tokens \cap {token} : Expired(tokens[t]) \/ tokens[t].entity = e}
\* Mutant: the token of another tool fits too.
FitsAnyTool(token, e) ==
  /\ token \in DOMAIN tokens
  /\ ~Expired(tokens[token])
  /\ tokens[token].entity.id = e.id
Fits(token, e) ==
  /\ token \in DOMAIN tokens
  /\ ~Expired(tokens[token])
  /\ tokens[token].entity = e

\* Under the mutex. A token that does not fit ends the call with an error.
Redeem(c) ==
  /\ At(c, "looked") /\ ~call[c].sure /\ call[c].token # NoToken
  /\ tokens' = Only(tokens, DOMAIN tokens \ Spends(call[c].token, call[c].entity))
  /\ IF Fits(call[c].token, call[c].entity)
     THEN To(c, [call[c] EXCEPT !.stage = "confirmed"])
     ELSE Ends(c)
  /\ UNCHANGED <<now, alive, last, minted, log, boot>>

\* issue, before the mutex: a fresh token, with the expiry it will have.
Mint(c, token) ==
  /\ At(c, "looked") /\ ~call[c].sure /\ call[c].token = NoToken
  /\ token \notin DOMAIN minted
  /\ To(c, [call[c] EXCEPT !.stage = "minted", !.token = token])
  /\ minted' = Put(minted, token, [entity |-> call[c].entity, expires |-> now + TTL])
  /\ UNCHANGED <<now, tokens, alive, last, log, boot>>

\* Mutant: the clock is read again under the mutex.
ProposeLate(c) ==
  /\ At(c, "minted")
  /\ LET live == Only(tokens, {t \in DOMAIN tokens : ~Expired(tokens[t])})
     IN  tokens' = Put(live, call[c].token,
                       [entity |-> call[c].entity, expires |-> now + TTL])
  /\ Ends(c)
  /\ UNCHANGED <<now, alive, last, minted, log, boot>>

\* issue, under it: drop the expired, add the new one, answer the proposal.
Propose(c) ==
  /\ At(c, "minted")
  /\ LET live == Only(tokens, {t \in DOMAIN tokens : ~Expired(tokens[t])})
     IN  tokens' = Put(live, call[c].token, minted[call[c].token])
  /\ Ends(c)
  /\ UNCHANGED <<now, alive, last, minted, log, boot>>

\* The repository deletes the row, or finds it gone, or refuses: the room or
\* the container still holds something, the database is busy.
Delete(c) ==
  /\ At(c, "confirmed") \/ At(c, "bypassed")
  /\ \/ /\ call[c].entity \in alive
        /\ alive' = alive \ {call[c].entity}
        /\ log' = Put(log, call[c].entity,
                      [mode |-> call[c].stage,
                       token |-> IF call[c].sure THEN NoToken ELSE call[c].token])
     \/ UNCHANGED <<alive, log>>
  /\ Ends(c)
  /\ UNCHANGED <<now, tokens, last, minted, boot>>

Tick == now < MaxTime /\ now' = now + 1 /\ UNCHANGED <<tokens, alive, last, call, minted, log, boot>>

Restart ==
  /\ boot < MaxBoot /\ boot' = boot + 1
  /\ tokens' = NoTokens
  /\ call' = [c \in Client |-> NoCall]
  /\ UNCHANGED <<now, alive, last, minted, log>>

\* A caller that may only read, a thing that is not there, a read-only tool.
Refuse == UNCHANGED vars

Next ==
  \/ \E tool \in Tool : Create(tool)
  \/ \E e \in Entity : DeleteElsewhere(e)
  \/ \E c \in Client :
       \/ \E e \in Entity, token \in Token \cup {NoToken}, sure \in BOOLEAN :
            Look(c, e, token, sure)
       \/ \E token \in Token : Mint(c, token)
       \/ Bypass(c) \/ Redeem(c) \/ Propose(c) \/ Delete(c)
  \/ Tick
  \/ Restart
  \/ Refuse

Spec == Init /\ [][Next]_vars

-----------------------------------------------------------------------------
(* What must hold.                                                         *)

Confirmed == {c \in Client : At(c, "confirmed")}
ConfirmedRows == {e \in DOMAIN log : log[e].mode = "confirmed"}

Pending == [entity : Entity, expires : 0 .. MaxTime + TTL]

TypeOK ==
  /\ now \in 0 .. MaxTime
  /\ DOMAIN tokens \subseteq DOMAIN minted /\ DOMAIN minted \subseteq Token
  /\ \A t \in DOMAIN tokens : tokens[t] = minted[t]
  /\ \A t \in DOMAIN minted : minted[t] \in Pending
  /\ alive \subseteq Entity /\ last \in [Tool -> 0 .. MaxRow]
  /\ call \in [Client -> Call \cup {NoCall}]
  /\ DOMAIN log \subseteq Entity /\ boot \in 0 .. MaxBoot

\* One token, one deletion: however often and by however many callers a token
\* is sent, it authorises one call, which deletes one row at most, and the
\* audit trail calls no other deletion confirmed by it.
TokensAreSpentOnce ==
  /\ \A c \in Confirmed :
       /\ call[c].token \notin DOMAIN tokens
       /\ \A d \in Confirmed \ {c} : call[d].token # call[c].token
       /\ \A e \in ConfirmedRows : log[e].token # call[c].token
  /\ \A e \in ConfirmedRows :
       /\ log[e].token \notin DOMAIN tokens
       /\ \A f \in ConfirmedRows \ {e} : log[f].token # log[e].token

\* A deletion that is confirmed was proposed: its token was issued for that
\* very tool and row, no longer ago than its lifetime when it was accepted.
ConfirmedWasProposed ==
  [][\A c \in Client :
       ~At(c, "confirmed") /\ call'[c] # NoCall /\ call'[c].stage = "confirmed" =>
         /\ minted[call[c].token].entity = call[c].entity
         /\ now < minted[call[c].token].expires]_vars

\* A pending confirmation is cancelled by nothing but its own redemption, its
\* expiry or a restart: in particular not by a call that sends it for another
\* thing.
MistakesCancelNothing ==
  [][\A t \in DOMAIN tokens \ DOMAIN tokens' :
       \/ Expired(tokens[t])
       \/ \E c \in Client : At(c, "looked") /\ call[c].token = t
                              /\ call[c].entity = tokens[t].entity /\ call'[c] # NoCall
       \/ boot' # boot]_vars

\* What was shown is what goes: no pending token, and no call under way, ever
\* stands for a row created after it.
NothingNewIsCondemned ==
  [][\A e \in alive' \ alive :
       /\ \A t \in DOMAIN tokens : tokens[t].entity # e
       /\ \A c \in Client : call[c] # NoCall => call[c].entity # e]_vars
=============================================================================
