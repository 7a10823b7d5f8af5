------------------------ MODULE ConfirmationsProofs ------------------------
(***************************************************************************)
(* A token is spent once, on what it was issued for, and never on a row    *)
(* that was created after it: for any number of callers, tools and tokens, *)
(* and however the steps of the calls, the clock and restarts come.        *)
(* The inductive invariant follows a token through its life: minted by one *)
(* call and in no map yet, then pending, then taken by one call, then named*)
(* by one entry of the audit trail. It is in one of these places at most.  *)
(***************************************************************************)
EXTENDS Confirmations, FiniteSetTheorems, TLAPS

Minting == {c \in Client : At(c, "minted")}

\* The rows there ever were are those up to the sequence of their table.
RowsCounted ==
  /\ IsFiniteSet(alive) /\ IsFiniteSet(DOMAIN log)
  /\ \A e \in alive \cup DOMAIN log : e.id <= last[e.tool]
  /\ \A tool \in Tool : \A n \in 1 .. last[tool] :
       [tool |-> tool, id |-> n] \in alive \cup DOMAIN log

\* What is asked about has existed.
NamesThePast ==
  /\ \A t \in DOMAIN minted : minted[t].entity.id <= last[minted[t].entity.tool]
  /\ \A c \in Client : call[c] # NoCall => call[c].entity.id <= last[call[c].entity.tool]

\* A token that was minted and not answered is of one call, and nowhere else.
MintedApart ==
  \A c \in Minting :
    /\ call[c].token \in DOMAIN minted
    /\ minted[call[c].token].entity = call[c].entity
    /\ call[c].token \notin DOMAIN tokens
    /\ \A d \in Minting \ {c} : call[d].token # call[c].token
    /\ \A d \in Confirmed : call[d].token # call[c].token
    /\ \A e \in ConfirmedRows : log[e].token # call[c].token

\* What is confirmed was confirmed by a token.
ConfirmedByToken ==
  /\ \A c \in Confirmed : ~call[c].sure /\ call[c].token \in DOMAIN minted
  /\ \A e \in ConfirmedRows : log[e].token \in DOMAIN minted

Tokens == TokensAreSpentOnce /\ MintedApart /\ ConfirmedByToken

IInv ==
  /\ TypeOK
  /\ RowsCounted
  /\ NamesThePast
  /\ Tokens

-----------------------------------------------------------------------------
(* The sequences.                                                          *)

\* As long as rows may be created, each sequence is short of its bound.
LEMMA RoomForARow ==
  ASSUME TypeOK, RowsCounted, NEW tool \in Tool,
         Cardinality(alive \cup DOMAIN log) < MaxRow
  PROVE  last[tool] + 1 <= MaxRow
<1> DEFINE rows == alive \cup DOMAIN log
           S == 1 .. last[tool]
           f == [n \in S |-> [tool |-> tool, id |-> n]]
<1>1. last[tool] \in Nat
  BY LimitsAssumption DEF TypeOK
<1>2. IsFiniteSet(rows)
  BY FS_Union DEF RowsCounted
<1>3. f \in Injection(S, rows)
  <2>1. f \in [S -> rows]
    BY DEF RowsCounted
  <2>2. \A m, n \in S : f[m] = f[n] => m = n
    OBVIOUS
  <2> QED BY <2>1, <2>2 DEF Injection, IsInjective
<1>5. IsFiniteSet(S) /\ Cardinality(S) <= Cardinality(rows)
  BY <1>2, <1>3, FS_Injection
<1>6. Cardinality(S) = last[tool]
  BY <1>1, FS_Interval
<1>7. Cardinality(rows) \in Nat
  BY <1>2, FS_CardinalityType
<1> QED BY <1>1, <1>5, <1>6, <1>7, LimitsAssumption
-----------------------------------------------------------------------------
(* The inductive invariant.                                                *)

LEMMA InitIInv == Init => IInv
<1> SUFFICES ASSUME Init PROVE IInv
  OBVIOUS
<1>1. DOMAIN tokens = {} /\ DOMAIN minted = {} /\ DOMAIN log = {}
  BY DEF Init, NoTokens
<1>2. TypeOK
  BY <1>1, LimitsAssumption, TTLAssumption DEF Init, TypeOK
<1>3. RowsCounted
  BY <1>1, FS_EmptySet DEF Init, RowsCounted
<1>4. NamesThePast /\ Tokens
  BY <1>1 DEF Init, NamesThePast, Tokens, TokensAreSpentOnce, MintedApart, ConfirmedByToken,
    Minting, Confirmed, ConfirmedRows, At
<1> QED BY <1>2, <1>3, <1>4 DEF IInv

LEMMA NextTypeOK ==
  ASSUME IInv, Next
  PROVE  TypeOK'
<1>1. TypeOK /\ RowsCounted
  BY DEF IInv
<1>2. ASSUME NEW tool \in Tool, Create(tool) PROVE TypeOK'
  <2>1. last[tool] + 1 \in 1 .. MaxRow
    <3>1. last[tool] + 1 <= MaxRow
      BY <1>1, <1>2, RoomForARow DEF Create
    <3> QED BY <1>1, <3>1, LimitsAssumption DEF TypeOK
  <2>2. [tool |-> tool, id |-> NextID(tool)] \in Entity
    BY <2>1, LimitsAssumption DEF NextID, Entity
  <2>3. alive' \subseteq Entity /\ last' \in [Tool -> 0 .. MaxRow]
    BY LimitsAssumption, <1>1, <1>2, <2>1, <2>2 DEF Create, TypeOK
  <2> QED BY <1>1, <1>2, <2>3 DEF Create, TypeOK
<1>3. ASSUME NEW e \in Entity, DeleteElsewhere(e) PROVE TypeOK'
  <2>1. DOMAIN log' = DOMAIN log \cup {e}
    BY <1>3 DEF DeleteElsewhere, Put
  <2> QED BY <1>1, <1>3, <2>1 DEF DeleteElsewhere, TypeOK
<1>4. ASSUME NEW c \in Client, NEW e \in Entity, NEW token \in Token \cup {NoToken},
             NEW sure \in BOOLEAN, Look(c, e, token, sure)
      PROVE TypeOK'
  BY <1>1, <1>4 DEF Look, To, TypeOK, Call
<1>5. ASSUME NEW c \in Client, NEW token \in Token, Mint(c, token) PROVE TypeOK'
  <2>1. call[c] \in Call
    BY <1>1, <1>5 DEF Mint, At, TypeOK
  <2>2. call' \in [Client -> Call \cup {NoCall}]
    BY <1>1, <1>5, <2>1 DEF Mint, To, TypeOK, Call
  <2>3. [entity |-> call[c].entity, expires |-> now + TTL] \in Pending
    BY <1>1, <2>1, LimitsAssumption, TTLAssumption DEF Pending, Call, TypeOK
  <2>4. /\ DOMAIN minted' = DOMAIN minted \cup {token}
        /\ minted'[token] \in Pending
        /\ \A t \in DOMAIN minted : minted'[t] = minted[t]
    BY <1>5, <2>3 DEF Mint, Put
  <2>5. DOMAIN tokens \subseteq DOMAIN minted /\ \A t \in DOMAIN tokens : tokens[t] = minted'[t]
    BY <1>1, <2>4 DEF TypeOK
  <2> QED BY <1>1, <1>5, <2>2, <2>4, <2>5 DEF Mint, TypeOK
<1>6. ASSUME NEW c \in Client, Bypass(c) PROVE TypeOK'
  <2>1. call[c] \in Call
    BY <1>1, <1>6 DEF Bypass, At, TypeOK
  <2>2. call' \in [Client -> Call \cup {NoCall}]
    BY <1>1, <1>6, <2>1 DEF Bypass, To, TypeOK, Call
  <2> QED BY <1>1, <1>6, <2>2 DEF Bypass, TypeOK
<1>7. ASSUME NEW c \in Client, Redeem(c) PROVE TypeOK'
  <2>1. call[c] \in Call
    BY <1>1, <1>7 DEF Redeem, At, TypeOK
  <2>2. call' \in [Client -> Call \cup {NoCall}]
    BY <1>1, <1>7, <2>1 DEF Redeem, To, Ends, TypeOK, Call
  <2>3. DOMAIN tokens' \subseteq DOMAIN tokens /\ \A t \in DOMAIN tokens' : tokens'[t] = tokens[t]
    BY <1>7 DEF Redeem, Only
  <2> QED BY <1>1, <1>7, <2>2, <2>3 DEF Redeem, TypeOK
<1>8. ASSUME NEW c \in Client, Propose(c) PROVE TypeOK'
  <2>1. call' \in [Client -> Call \cup {NoCall}]
    BY <1>1, <1>8 DEF Propose, To, Ends, TypeOK
  <2>2. call[c].token \in DOMAIN minted
    BY <1>8 DEF Propose, IInv, Tokens, MintedApart, Minting
  <2>3. /\ DOMAIN tokens' \subseteq DOMAIN tokens \cup {call[c].token}
        /\ \A t \in DOMAIN tokens' \ {call[c].token} : tokens'[t] = tokens[t]
        /\ call[c].token \in DOMAIN tokens' => tokens'[call[c].token] = minted[call[c].token]
    <3> DEFINE live == Only(tokens, {t \in DOMAIN tokens : ~Expired(tokens[t])})
    <3>1. DOMAIN live \subseteq DOMAIN tokens /\ \A t \in DOMAIN live : live[t] = tokens[t]
      BY DEF Only
    <3>2. tokens' = Put(live, call[c].token, minted[call[c].token])
      BY <1>8 DEF Propose
    <3> HIDE DEF live
    <3> QED BY <3>1, <3>2 DEF Put
  <2>4. \A t \in DOMAIN tokens' : t \in DOMAIN minted /\ tokens'[t] = minted[t]
    BY <1>1, <2>2, <2>3 DEF TypeOK
  <2> QED BY <1>1, <1>8, <2>1, <2>4 DEF Propose, TypeOK
<1>9. ASSUME NEW c \in Client, Delete(c) PROVE TypeOK'
  <2>1. alive' \subseteq alive /\ DOMAIN log' \subseteq DOMAIN log \cup alive
    <3>1. CASE UNCHANGED <<alive, log>>
      BY <3>1
    <3>2. CASE call[c].entity \in alive /\ alive' = alive \ {call[c].entity}
               /\ \E entry : log' = Put(log, call[c].entity, entry)
      BY <3>2 DEF Put
    <3> QED BY <1>9, <3>1, <3>2 DEF Delete
  <2> QED BY <1>1, <1>9, <2>1 DEF Delete, To, Ends, TypeOK
<1>10. ASSUME Tick PROVE TypeOK'
  BY <1>1, <1>10, LimitsAssumption DEF Tick, TypeOK
<1>11. ASSUME Restart PROVE TypeOK'
  BY <1>1, <1>11, LimitsAssumption DEF Restart, NoTokens, TypeOK
<1>12. ASSUME Refuse PROVE TypeOK'
  BY <1>1, <1>12 DEF Refuse, vars, TypeOK
<1> QED BY <1>2, <1>3, <1>4, <1>5, <1>6, <1>7, <1>8, <1>9, <1>10, <1>11, <1>12 DEF Next

\* A row is created under the next number of its sequence; deleting one moves
\* it to the audit trail.
LEMMA NextRowsCounted ==
  ASSUME IInv, Next
  PROVE  RowsCounted'
<1>1. TypeOK /\ RowsCounted
  BY DEF IInv
<1>2. ASSUME NEW tool \in Tool, Create(tool) PROVE RowsCounted'
  <2> DEFINE new == [tool |-> tool, id |-> last[tool] + 1]
  <2>1. alive' = alive \cup {new} /\ log' = log
    BY <1>2 DEF Create, NextID
  <2>2. last' = [last EXCEPT ![tool] = last[tool] + 1]
    BY <1>2 DEF Create
  <2>3. last \in [Tool -> Int] /\ last[tool] \in Nat
    BY <1>1, LimitsAssumption DEF TypeOK
  <2>4. IsFiniteSet(alive')
    BY <1>1, <2>1, FS_AddElement DEF RowsCounted
  <2>5. ASSUME NEW e \in alive' \cup DOMAIN log' PROVE e.id <= last'[e.tool]
    <3>1. CASE e = new
      BY <3>1, <2>2, <2>3
    <3>2. CASE e \in alive \cup DOMAIN log
      <4>1. e \in Entity /\ e.id <= last[e.tool]
        BY <3>2, <1>1 DEF TypeOK, RowsCounted
      <4>2. e.tool \in Tool /\ e.id \in Int
        BY <4>1, LimitsAssumption DEF Entity
      <4> QED BY <4>1, <4>2, <2>2, <2>3
    <3> QED BY <2>1, <2>5, <3>1, <3>2
  <2>6. ASSUME NEW other \in Tool, NEW n \in 1 .. last'[other]
        PROVE  [tool |-> other, id |-> n] \in alive' \cup DOMAIN log'
    <3>1. CASE n \in 1 .. last[other]
      BY <3>1, <1>1, <2>1 DEF RowsCounted
    <3>2. CASE other = tool /\ n = last[tool] + 1
      BY <3>2, <2>1
    <3>3. n \in 1 .. last[other] \/ (other = tool /\ n = last[tool] + 1)
      BY <2>2, <2>3, <2>6
    <3> QED BY <3>1, <3>2, <3>3
  <2> QED BY <1>1, <2>1, <2>4, <2>5, <2>6 DEF RowsCounted
<1>3. ASSUME NEW e \in alive, alive' = alive \ {e}, DOMAIN log' = DOMAIN log \cup {e}, last' = last
      PROVE  RowsCounted'
  <2>1. IsFiniteSet(alive') /\ IsFiniteSet(DOMAIN log')
    BY <1>1, <1>3, FS_AddElement, FS_RemoveElement DEF RowsCounted
  <2>2. alive' \cup DOMAIN log' = alive \cup DOMAIN log
    BY <1>3
  <2> QED BY <1>1, <1>3, <2>1, <2>2 DEF RowsCounted
<1>4. ASSUME UNCHANGED <<alive, log, last>> PROVE RowsCounted'
  BY <1>1, <1>4 DEF RowsCounted
<1>5. ASSUME NEW e, DeleteElsewhere(e) PROVE RowsCounted'
  <2>1. DOMAIN log' = DOMAIN log \cup {e}
    BY <1>5 DEF DeleteElsewhere, Put
  <2> QED BY <1>3, <1>5, <2>1 DEF DeleteElsewhere
<1>6. ASSUME NEW c \in Client, Delete(c) PROVE RowsCounted'
  <2>1. CASE UNCHANGED <<alive, log>>
    BY <1>4, <1>6, <2>1 DEF Delete
  <2>2. CASE call[c].entity \in alive /\ alive' = alive \ {call[c].entity}
             /\ \E entry : log' = Put(log, call[c].entity, entry)
    <3>1. DOMAIN log' = DOMAIN log \cup {call[c].entity}
      BY <2>2 DEF Put
    <3>2. last' = last
      BY <1>6 DEF Delete
    <3> QED BY <1>3, <2>2, <3>1, <3>2
  <2> QED BY <1>6, <2>1, <2>2 DEF Delete
<1> QED
  BY <1>2, <1>4, <1>5, <1>6 DEF Next, Look, Mint, Bypass, Redeem, Propose, Tick, Restart, Refuse, vars

\* A call is about a row it has read, and a token about the row of its call.
LEMMA NextNamesThePast ==
  ASSUME IInv, Next
  PROVE  NamesThePast'
<1>1. TypeOK /\ RowsCounted /\ NamesThePast
  BY DEF IInv
<1>2. ASSUME NEW tool \in Tool, Create(tool) PROVE NamesThePast'
  <2>1. last' = [last EXCEPT ![tool] = last[tool] + 1] /\ UNCHANGED <<minted, call>>
    BY <1>2 DEF Create
  <2>2. ASSUME NEW e \in Entity, e.id <= last[e.tool] PROVE e.id <= last'[e.tool]
    <3>1. e.tool \in Tool /\ e.id \in Int
      BY <2>2, LimitsAssumption DEF Entity
    <3>2. last \in [Tool -> Int]
      BY <1>1, LimitsAssumption DEF TypeOK
    <3> QED BY <2>1, <2>2, <3>1, <3>2
  <2>3. \A t \in DOMAIN minted : minted[t].entity \in Entity
    BY <1>1 DEF TypeOK, Pending
  <2>4. \A c \in Client : call[c] # NoCall => call[c].entity \in Entity
    BY <1>1 DEF TypeOK, Call
  <2> QED BY <1>1, <2>1, <2>2, <2>3, <2>4 DEF NamesThePast
<1>3. ASSUME NEW c \in Client, NEW e \in Entity, NEW token, NEW sure, Look(c, e, token, sure)
      PROVE NamesThePast'
  <2>1. e.id <= last[e.tool]
    BY <1>1, <1>3 DEF Look, RowsCounted
  <2> QED BY <1>1, <1>3, <2>1 DEF Look, To, NamesThePast, TypeOK
<1>4. ASSUME NEW c \in Client, NEW token, Mint(c, token) PROVE NamesThePast'
  <2>1. call[c] # NoCall /\ call[c] \in Call
    BY <1>1, <1>4 DEF Mint, At, TypeOK
  <2>2. /\ DOMAIN minted' = DOMAIN minted \cup {token}
        /\ minted'[token].entity = call[c].entity
        /\ \A t \in DOMAIN minted : minted'[t] = minted[t]
    BY <1>4 DEF Mint, Put
  <2>3. /\ \A d \in Client \ {c} : call'[d] = call[d]
        /\ call'[c].entity = call[c].entity
    BY <1>1, <1>4, <2>1 DEF Mint, To, TypeOK, Call
  <2>4. last' = last
    BY <1>4 DEF Mint
  <2> QED BY <1>1, <2>1, <2>2, <2>3, <2>4 DEF NamesThePast
<1>5. ASSUME NEW c \in Client, UNCHANGED <<minted, last>>,
             \A d \in Client \ {c} : call'[d] = call[d],
             call'[c] # NoCall => call[c] # NoCall /\ call'[c].entity = call[c].entity
      PROVE  NamesThePast'
  BY <1>1, <1>5 DEF NamesThePast
<1>6. ASSUME NEW c \in Client, Bypass(c) \/ Redeem(c) \/ Propose(c) \/ Delete(c)
      PROVE  NamesThePast'
  <2>1. call[c] # NoCall /\ call[c] \in Call
    BY <1>1, <1>6 DEF Bypass, Redeem, Propose, Delete, At, TypeOK
  <2>2. \A d \in Client \ {c} : call'[d] = call[d]
    BY <1>1, <1>6 DEF Bypass, Redeem, Propose, Delete, To, Ends, TypeOK
  <2>3. call'[c] = NoCall \/ call'[c].entity = call[c].entity
    BY <1>1, <1>6, <2>1 DEF Bypass, Redeem, Propose, Delete, To, Ends, TypeOK, Call
  <2>4. UNCHANGED <<minted, last>>
    BY <1>6 DEF Bypass, Redeem, Propose, Delete
  <2> QED BY <1>5, <2>1, <2>2, <2>3, <2>4
<1>7. ASSUME Restart PROVE NamesThePast'
  BY <1>1, <1>7 DEF Restart, NamesThePast
<1>8. ASSUME UNCHANGED <<minted, last, call>> PROVE NamesThePast'
  BY <1>1, <1>8 DEF NamesThePast
<1> QED
  BY <1>2, <1>3, <1>4, <1>6, <1>7, <1>8 DEF Next, DeleteElsewhere, Tick, Refuse, vars

\* A token moves on from the call that minted it to the map, to the call that
\* redeems it, to the audit trail; each step takes it from where it was.
LEMMA NextTokens ==
  ASSUME IInv, Next
  PROVE  Tokens'
<1> USE DEF Tokens, TokensAreSpentOnce, MintedApart, ConfirmedByToken
<1>1. TypeOK /\ Tokens
  BY DEF IInv
<1>2. ASSUME Confirmed' \subseteq Confirmed, Minting' \subseteq Minting,
             \A c \in Confirmed' \cup Minting' : call'[c] = call[c],
             ConfirmedRows' \subseteq ConfirmedRows,
             \A e \in ConfirmedRows' : log'[e] = log[e],
             DOMAIN tokens' \subseteq DOMAIN tokens,
             minted' = minted
      PROVE  Tokens'
  BY <1>1, <1>2
<1>3. ASSUME UNCHANGED <<call, minted, tokens>>,
             ConfirmedRows' \subseteq ConfirmedRows,
             \A e \in ConfirmedRows' : log'[e] = log[e]
      PROVE  Tokens'
  <2>1. Confirmed' = Confirmed /\ Minting' = Minting
    BY <1>3 DEF Confirmed, Minting, At
  <2> QED BY <1>2, <1>3, <2>1
<1>4. ASSUME NEW c \in Client, call' = [call EXCEPT ![c] = call'[c]],
             call'[c] = NoCall \/ call'[c].stage \in {"looked", "bypassed"},
             DOMAIN tokens' \subseteq DOMAIN tokens, UNCHANGED <<minted, log>>
      PROVE  Tokens'
  <2>1. \A d \in Client \ {c} : call'[d] = call[d]
    BY <1>1, <1>4 DEF TypeOK
  <2>2. c \notin Confirmed' \cup Minting'
    BY <1>4 DEF Confirmed, Minting, At
  <2>3. Confirmed' \subseteq Confirmed /\ Minting' \subseteq Minting
    BY <2>1, <2>2 DEF Confirmed, Minting, At
  <2>4. \A d \in Confirmed' \cup Minting' : call'[d] = call[d]
    BY <2>1, <2>2 DEF Confirmed, Minting
  <2>5. ConfirmedRows' = ConfirmedRows
    BY <1>4 DEF ConfirmedRows
  <2> QED BY <1>2, <1>4, <2>3, <2>4, <2>5
<1>5. ASSUME NEW e, DeleteElsewhere(e) PROVE Tokens'
  <2>1. /\ DOMAIN log' = DOMAIN log \cup {e}
        /\ log'[e].mode = ""
        /\ \A f \in DOMAIN log \ {e} : log'[f] = log[f]
    BY <1>5 DEF DeleteElsewhere, Put
  <2>2. ConfirmedRows' \subseteq ConfirmedRows /\ \A f \in ConfirmedRows' : log'[f] = log[f]
    BY <2>1 DEF ConfirmedRows
  <2> QED BY <1>3, <1>5, <2>2 DEF DeleteElsewhere
<1>6. ASSUME NEW c \in Client, NEW e, NEW token, NEW sure, Look(c, e, token, sure)
      PROVE  Tokens'
  <2>1. call'[c].stage = "looked" /\ call' = [call EXCEPT ![c] = call'[c]]
    BY <1>1, <1>6 DEF Look, To, TypeOK
  <2> QED BY <1>4, <1>6, <2>1 DEF Look
<1>7. ASSUME NEW c \in Client, Bypass(c) PROVE Tokens'
  <2>1. call[c] \in Call
    BY <1>1, <1>7 DEF Bypass, At, TypeOK
  <2>2. call'[c].stage = "bypassed" /\ call' = [call EXCEPT ![c] = call'[c]]
    BY <1>1, <1>7, <2>1 DEF Bypass, To, TypeOK, Call
  <2> QED BY <1>4, <1>7, <2>2 DEF Bypass
<1>8. ASSUME NEW c \in Client, NEW token \in Token, Mint(c, token) PROVE Tokens'
  <2>1. call[c] \in Call /\ c \notin Confirmed
    BY <1>1, <1>8 DEF Mint, At, TypeOK, Confirmed
  <2>2. call'[c].stage = "minted" /\ call'[c].entity = call[c].entity /\ call'[c].token = token
    BY <1>1, <1>8, <2>1 DEF Mint, To, TypeOK, Call
  <2>3. \A d \in Client \ {c} : call'[d] = call[d]
    BY <1>1, <1>8 DEF Mint, To, TypeOK
  <2>4. Confirmed' = Confirmed /\ Minting' \subseteq Minting \cup {c}
    BY <2>1, <2>2, <2>3 DEF Confirmed, Minting, At
  <2>5. /\ DOMAIN minted' = DOMAIN minted \cup {token}
        /\ minted'[token].entity = call[c].entity
        /\ \A t \in DOMAIN minted : minted'[t] = minted[t]
    BY <1>8 DEF Mint, Put
  <2>6. token \notin DOMAIN minted /\ UNCHANGED <<tokens, log>>
    BY <1>8 DEF Mint
  <2>7. ConfirmedRows' = ConfirmedRows
    BY <2>6 DEF ConfirmedRows
  <2>8. token \notin DOMAIN tokens
    BY <1>1, <2>6 DEF TypeOK
  <2>9. \A d \in Confirmed' : d \in Confirmed /\ call'[d] = call[d]
    BY <2>1, <2>3, <2>4 DEF Confirmed
  <2>10. \A d \in Minting' \ {c} : d \in Minting /\ call'[d] = call[d]
    BY <2>3, <2>4 DEF Minting
  <2>11. TokensAreSpentOnce' /\ ConfirmedByToken'
    BY <1>1, <2>5, <2>6, <2>7, <2>9
  <2>12. MintedApart'
    BY <1>1, <2>2, <2>5, <2>6, <2>7, <2>8, <2>9, <2>10
  <2> QED BY <2>11, <2>12
<1>9. ASSUME NEW c \in Client, Redeem(c) PROVE Tokens'
  <2> DEFINE t == call[c].token
  <2>1. call[c] \in Call /\ ~call[c].sure /\ c \notin Confirmed /\ c \notin Minting
    BY <1>1, <1>9 DEF Redeem, At, TypeOK, Confirmed, Minting
  <2>2. UNCHANGED <<minted, log>> /\ DOMAIN tokens' = DOMAIN tokens \ Spends(t, call[c].entity)
    BY <1>9 DEF Redeem, Only
  <2>3. CASE Ends(c)
    <3>1. call'[c] = NoCall /\ call' = [call EXCEPT ![c] = call'[c]]
      BY <1>1, <2>3 DEF Ends, To, TypeOK
    <3> QED BY <1>4, <2>2, <3>1
  <2>4. CASE Fits(t, call[c].entity) /\ To(c, [call[c] EXCEPT !.stage = "confirmed"])
    <3>1. \A d \in Client \ {c} : call'[d] = call[d]
      BY <1>1, <2>4 DEF To, TypeOK
    <3>2. call'[c].stage = "confirmed" /\ call'[c].token = t /\ ~call'[c].sure
      BY <1>1, <2>1, <2>4 DEF To, TypeOK, Call
    <3>3. t \in DOMAIN tokens /\ t \notin DOMAIN tokens'
      BY <2>2, <2>4 DEF Fits, Spends
    <3>4. Confirmed' \subseteq Confirmed \cup {c} /\ Minting' \subseteq Minting
      BY <2>1, <3>1, <3>2 DEF Confirmed, Minting, At
    <3>5. \A d \in Confirmed' \ {c} : d \in Confirmed /\ call'[d] = call[d]
      BY <3>1, <3>4 DEF Confirmed
    <3>6. \A d \in Minting' : d \in Minting /\ d # c /\ call'[d] = call[d]
      BY <2>1, <3>1, <3>4 DEF Minting
    <3>7. ConfirmedRows' = ConfirmedRows
      BY <2>2 DEF ConfirmedRows
    <3>8. t \in DOMAIN minted /\ DOMAIN tokens' \subseteq DOMAIN tokens
      BY <1>1, <2>2, <3>3 DEF TypeOK
    <3> HIDE DEF t
    <3>9. TokensAreSpentOnce'
      BY <1>1, <2>2, <3>2, <3>3, <3>5, <3>7, <3>8
    <3>10. MintedApart'
      BY <1>1, <2>2, <3>2, <3>3, <3>5, <3>6, <3>7, <3>8
    <3>11. ConfirmedByToken'
      BY <1>1, <2>2, <3>2, <3>5, <3>7, <3>8
    <3> QED BY <3>9, <3>10, <3>11
  <2> QED BY <1>9, <2>3, <2>4 DEF Redeem
<1>10. ASSUME NEW c \in Client, Propose(c) PROVE Tokens'
  <2>1. c \in Minting /\ c \notin Confirmed
    BY <1>10 DEF Propose, Minting, Confirmed, At
  <2>2. call'[c] = NoCall /\ \A d \in Client \ {c} : call'[d] = call[d]
    BY <1>1, <1>10 DEF Propose, Ends, To, TypeOK
  <2>3. DOMAIN tokens' \subseteq DOMAIN tokens \cup {call[c].token}
    BY <1>10 DEF Propose, Put, Only
  <2>4. UNCHANGED <<minted, log>>
    BY <1>10 DEF Propose
  <2>5. \A d \in Confirmed' : d \in Confirmed /\ call'[d] = call[d]
    BY <2>2 DEF Confirmed, At
  <2>6. \A d \in Minting' : d \in Minting \ {c} /\ call'[d] = call[d]
    BY <2>2 DEF Minting, At
  <2>7. ConfirmedRows' = ConfirmedRows
    BY <2>4 DEF ConfirmedRows
  <2>8. TokensAreSpentOnce'
    BY <1>1, <2>1, <2>3, <2>4, <2>5, <2>7
  <2>9. MintedApart' /\ ConfirmedByToken'
    BY <1>1, <2>1, <2>3, <2>4, <2>5, <2>6, <2>7
  <2> QED BY <2>8, <2>9
<1>11. ASSUME NEW c \in Client, Delete(c) PROVE Tokens'
  <2> DEFINE e == call[c].entity
  <2>1. call[c] \in Call
    BY <1>1, <1>11 DEF Delete, At, TypeOK
  <2>2. call'[c] = NoCall /\ call' = [call EXCEPT ![c] = call'[c]]
    BY <1>1, <1>11 DEF Delete, Ends, To, TypeOK
  <2>3. UNCHANGED <<tokens, minted>>
    BY <1>11 DEF Delete
  <2>4. CASE UNCHANGED log
    BY <1>4, <2>2, <2>3, <2>4
  <2>5. CASE log' = Put(log, e, [mode |-> call[c].stage,
                                 token |-> IF call[c].sure THEN NoToken ELSE call[c].token])
    <3>1. /\ log'[e].mode = call[c].stage
          /\ log'[e].token = IF call[c].sure THEN NoToken ELSE call[c].token
          /\ DOMAIN log' = DOMAIN log \cup {e}
          /\ \A f \in DOMAIN log \ {e} : log'[f] = log[f]
      BY <2>5 DEF Put
    <3>2. \A d \in Client \ {c} : call'[d] = call[d]
      BY <1>1, <2>2 DEF TypeOK
    <3>3. \A d \in Confirmed' : d \in Confirmed \ {c} /\ call'[d] = call[d]
      BY <2>2, <3>2 DEF Confirmed, At
    <3>4. \A d \in Minting' : d \in Minting \ {c} /\ call'[d] = call[d]
      BY <2>2, <3>2 DEF Minting, At
    <3>5. \A f \in ConfirmedRows' \ {e} : f \in ConfirmedRows /\ log'[f] = log[f]
      BY <3>1 DEF ConfirmedRows
    <3>6. e \in ConfirmedRows' => c \in Confirmed
      BY <1>11, <3>1 DEF ConfirmedRows, Delete, Confirmed, At
    <3>7. e \in ConfirmedRows' => log'[e].token = call[c].token
      BY <1>1, <3>1, <3>6
    <3> HIDE DEF e
    <3>8. TokensAreSpentOnce'
      BY <1>1, <2>3, <3>3, <3>5, <3>6, <3>7
    <3>9. MintedApart'
      BY <1>1, <2>3, <3>3, <3>4, <3>5, <3>6, <3>7
    <3>10. ConfirmedByToken'
      BY <1>1, <2>3, <3>3, <3>5, <3>6, <3>7
    <3> QED BY <3>8, <3>9, <3>10
  <2> QED BY <1>11, <2>4, <2>5 DEF Delete
<1>12. ASSUME Restart PROVE Tokens'
  <2>1. Confirmed' = {} /\ Minting' = {} /\ DOMAIN tokens' = {}
    BY <1>12 DEF Restart, Confirmed, Minting, At, NoTokens
  <2>2. UNCHANGED <<minted, log>>
    BY <1>12 DEF Restart
  <2>3. ConfirmedRows' = ConfirmedRows
    BY <2>2 DEF ConfirmedRows
  <2> QED BY <1>2, <2>1, <2>2, <2>3
<1>13. ASSUME UNCHANGED <<call, minted, tokens, log>> PROVE Tokens'
  <2>1. ConfirmedRows' = ConfirmedRows
    BY <1>13 DEF ConfirmedRows
  <2> QED BY <1>3, <1>13, <2>1
<1> QED
  BY <1>5, <1>6, <1>7, <1>8, <1>9, <1>10, <1>11, <1>12, <1>13 DEF Next, Create, Tick, Refuse, vars

LEMMA NextIInv ==
  ASSUME IInv, [Next]_vars
  PROVE  IInv'
<1>1. Next
  BY DEF Next, Refuse
<1> QED BY <1>1, NextTypeOK, NextRowsCounted, NextNamesThePast, NextTokens DEF IInv

-----------------------------------------------------------------------------
(* The theorems.                                                           *)

\* The inductive invariant: where each token is, which rows there were, and
\* that all is about rows that were there.
THEOREM Invariance == Spec => []IInv
BY InitIInv, NextIInv, PTL DEF Spec

\* The Confirmer, the rows and the calls are well typed; what is pending is
\* what was minted.
THEOREM TypeCorrect == Spec => []TypeOK
<1>1. IInv => TypeOK
  BY DEF IInv
<1> QED BY <1>1, Invariance, PTL

\* However often a token is sent, and by however many callers at once, it
\* confirms one deletion.
THEOREM SpentOnce == Spec => []TokensAreSpentOnce
<1>1. IInv => TokensAreSpentOnce
  BY DEF IInv, Tokens
<1> QED BY <1>1, Invariance, PTL

\* A deletion confirmed by a token was proposed under it, for the same tool and
\* row, within its lifetime.
THEOREM ProposedFirst == Spec => ConfirmedWasProposed
<1> DEFINE A == \A c \in Client :
       ~At(c, "confirmed") /\ call'[c] # NoCall /\ call'[c].stage = "confirmed" =>
         /\ minted[call[c].token].entity = call[c].entity
         /\ now < minted[call[c].token].expires
<1>1. ASSUME IInv, [Next]_vars PROVE A \/ UNCHANGED vars
  <2> SUFFICES ASSUME Next, NEW c \in Client,
                      ~At(c, "confirmed"), call'[c] # NoCall, call'[c].stage = "confirmed"
               PROVE  /\ minted[call[c].token].entity = call[c].entity
                      /\ now < minted[call[c].token].expires
    BY <1>1
  <2>1. TypeOK
    BY <1>1 DEF IInv
  <2>2. call'[c] # call[c]
    BY DEF At
  <2>3. \A d \in Client \ {c} : \A to : To(d, to) => call'[c] = call[c]
    BY <2>1 DEF To, TypeOK
  <2>4. \A to : To(c, to) => to # NoCall /\ to.stage = "confirmed"
    BY <2>1 DEF To, TypeOK
  <2>5. Redeem(c)
    <3>1. PICK d \in Client : Bypass(d) \/ Redeem(d) \/ Propose(d) \/ Delete(d)
                                \/ (\E token \in Token : Mint(d, token))
                                \/ (\E e, token, sure : Look(d, e, token, sure))
      BY <2>2 DEF Next, Create, DeleteElsewhere, Tick, Restart, Refuse, vars
    <3>2. d = c
      BY <2>2, <2>3, <3>1 DEF Bypass, Redeem, Propose, Delete, Mint, Look, Ends
    <3>3. call[c] # NoCall => call[c] \in Call
      BY <2>1 DEF TypeOK
    <3>4. ~Propose(c) /\ ~Delete(c)
      BY <2>4 DEF Propose, Delete, Ends
    <3>5. ~Bypass(c)
      BY <2>4, <3>3 DEF Bypass, At, Call
    <3>6. \A token : ~Mint(c, token)
      <4> SUFFICES ASSUME NEW token, Mint(c, token) PROVE FALSE
        OBVIOUS
      <4>1. [call[c] EXCEPT !.stage = "minted", !.token = token].stage = "minted"
        BY <3>3 DEF Mint, At, Call
      <4> QED BY <2>4, <4>1 DEF Mint
    <3>7. \A e, token, sure : ~Look(c, e, token, sure)
      BY <2>4 DEF Look
    <3> QED BY <3>1, <3>2, <3>4, <3>5, <3>6, <3>7
  <2>6. Fits(call[c].token, call[c].entity)
    BY <2>4, <2>5 DEF Redeem, Ends
  <2>7. tokens[call[c].token] = minted[call[c].token] /\ minted[call[c].token] \in Pending
    BY <2>1, <2>6 DEF Fits, TypeOK
  <2>8. minted[call[c].token].expires \in Int /\ now \in Int
    BY <2>1, <2>7, LimitsAssumption, TTLAssumption DEF TypeOK, Pending
  <2> QED BY <2>6, <2>7, <2>8 DEF Fits, Expired
<1> QED BY <1>1, Invariance, PTL DEF Spec, ConfirmedWasProposed

\* A pending token leaves the map expired, redeemed for what it was issued for,
\* or in a restart.
THEOREM NothingElseCancels == Spec => MistakesCancelNothing
<1> DEFINE Why(t) ==
       \/ Expired(tokens[t])
       \/ \E c \in Client : At(c, "looked") /\ call[c].token = t
                              /\ call[c].entity = tokens[t].entity /\ call'[c] # NoCall
       \/ boot' # boot
<1>1. ASSUME IInv, [Next]_vars PROVE \A t \in DOMAIN tokens \ DOMAIN tokens' : Why(t)
  <2> SUFFICES ASSUME NEW t \in DOMAIN tokens \ DOMAIN tokens', ~Expired(tokens[t])
               PROVE  Why(t)
    OBVIOUS
  <2>1. TypeOK
    BY <1>1 DEF IInv
  <2>2. ASSUME NEW c \in Client, Redeem(c) PROVE Why(t)
    <3>1. call[c] \in Call
      BY <2>1, <2>2 DEF Redeem, At, TypeOK
    <3>2. t \in Spends(call[c].token, call[c].entity)
      BY <2>2 DEF Redeem, Only
    <3>3. t = call[c].token /\ tokens[t].entity = call[c].entity
      BY <3>2 DEF Spends
    <3>4. To(c, [call[c] EXCEPT !.stage = "confirmed"])
      BY <2>2, <3>3 DEF Redeem, Fits
    <3>5. call'[c] \in Call
      BY <2>1, <3>1, <3>4 DEF To, TypeOK, Call
    <3> QED BY <2>2, <3>3, <3>5, NoCallAssumption DEF Redeem
  <2>3. ASSUME NEW c \in Client, Propose(c) PROVE FALSE
    BY <2>3 DEF Propose, Put, Only
  <2>4. ASSUME Restart PROVE Why(t)
    BY <2>1, <2>4, LimitsAssumption DEF Restart, TypeOK
  <2> QED
    BY <1>1, <2>2, <2>3, <2>4 DEF Next, Create, DeleteElsewhere, Look, Mint, Bypass, Delete,
      Tick, Refuse, vars
<1> QED BY <1>1, Invariance, PTL DEF Spec, MistakesCancelNothing

\* No token and no call can stand for a row that does not exist yet: a number
\* is given once, and what is asked about was there.
THEOREM NothingFuture == Spec => NothingNewIsCondemned
<1> DEFINE A == \A e \in alive' \ alive :
       /\ \A t \in DOMAIN tokens : tokens[t].entity # e
       /\ \A c \in Client : call[c] # NoCall => call[c].entity # e
<1>1. ASSUME IInv, [Next]_vars PROVE A
  <2> SUFFICES ASSUME NEW e \in alive' \ alive
               PROVE  /\ \A t \in DOMAIN tokens : tokens[t].entity # e
                      /\ \A c \in Client : call[c] # NoCall => call[c].entity # e
    OBVIOUS
  <2>1. TypeOK /\ NamesThePast
    BY <1>1 DEF IInv
  <2>2. PICK tool \in Tool : Create(tool)
    BY <1>1 DEF Next, DeleteElsewhere, Look, Mint, Bypass, Redeem, Propose, Delete, Tick,
      Restart, Refuse, vars
  <2>3. e.tool = tool /\ e.id = last[tool] + 1 /\ last[tool] \in Int
    BY <2>1, <2>2, LimitsAssumption DEF Create, NextID, TypeOK
  <2>4. ~(e.id <= last[e.tool])
    BY <2>3
  <2>5. \A t \in DOMAIN tokens : tokens[t].entity.id <= last[tokens[t].entity.tool]
    BY <2>1 DEF TypeOK, NamesThePast
  <2> QED BY <2>1, <2>4, <2>5 DEF NamesThePast
<1> QED BY <1>1, Invariance, PTL DEF Spec, NothingNewIsCondemned
=============================================================================
