------------------------- MODULE TransactionsProofs -------------------------
(***************************************************************************)
(* Transactions, statement by statement, implements Inventory, where each  *)
(* mutation happens at once: for any number of clients, any set of calls,  *)
(* and whatever is cancelled or crashes between two statements.            *)
(*                                                                         *)
(* A commit is the mutation, every other step a stutter. The argument is   *)
(* what SQLite's snapshots are for: a transaction that has checked is      *)
(* stale, or what it has checked is the committed database; only one that  *)
(* is not stale gets the lock; and while it holds the lock nothing else is *)
(* committed.                                                              *)
(***************************************************************************)
EXTENDS Transactions, InventoryProofs

\* A call whose checks pass, whose write is not refused, within the bounds.
Accepted(d, op) == Checks(d, op) = Ok /\ Clash(d, op) = Ok /\ WithinBounds(d, op)

\* What a client has in hand agrees with the committed database.
CheckedOrStale ==
  \A c \in Client : stage[c] = "checked" => c \in stale \/ Checks(db, call[c]) = Ok

WriterIsCurrent ==
  \A c \in Client : stage[c] \in {"written", "recorded"} =>
    /\ writer = c
    /\ Accepted(db, call[c])
    /\ work = Effect(db, call[c])
    /\ stage[c] = "recorded" => event = EventOf(db, call[c])

InCall == \A c \in Client : stage[c] \notin {"idle", "failing"} => call[c] \in Calls

IInv ==
  /\ TypeOK
  /\ Household(db)
  /\ InCall
  /\ CheckedOrStale
  /\ WriterIsCurrent

-----------------------------------------------------------------------------
(* A call that is accepted is a mutation of Inventory.                     *)

LEMMA RoomCalls ==
  ASSUME NEW op \in Call, op.do \in {"CreateRoom", "UpdateRoom", "DeleteRoom"},
         Household(db), Accepted(db, op)
  PROVE  /\ Household(Effect(db, op))
         /\ db' = Effect(db, op) /\ audit' = INV!Replay(audit, EventOf(db, op)) => INV!Next
<1> USE DEF Accepted, Checks, Clash, WithinBounds, Effect, EventOf, WriteFirst, INV!Commit
<1>1. CASE op.do = "CreateRoom"
  <2>1. op.row \in RoomRow
    BY <1>1 DEF Call
  <2>2. Household(Effect(db, op))
    BY <1>1, <2>1, RoomCreateSound
  <2>3. ASSUME db' = Effect(db, op), audit' = INV!Replay(audit, EventOf(db, op))
        PROVE  INV!CreateRoom(op.row)
    BY <1>1, <2>3, SameRooms, SameEvents DEF INV!CreateRoom
  <2> QED BY <2>1, <2>2, <2>3, SameSets DEF INV!Next
<1>2. CASE op.do = "UpdateRoom"
  <2>1. op.id \in RoomID /\ op.row \in RoomRow
    BY <1>2 DEF Call
  <2>2. Household(Effect(db, op))
    BY <1>2, <2>1, RoomUpdateSound
  <2>3. ASSUME db' = Effect(db, op), audit' = INV!Replay(audit, EventOf(db, op))
        PROVE  INV!UpdateRoom(op.id, op.row)
    BY <1>2, <2>3, SameRooms, SameEvents DEF INV!UpdateRoom
  <2> QED BY <2>1, <2>2, <2>3, SameSets DEF INV!Next
<1>3. CASE op.do = "DeleteRoom"
  <2>1. op.id \in RoomID
    BY <1>3 DEF Call
  <2>2. Household(Effect(db, op))
    BY <1>3, <2>1, RoomDeleteSound
  <2>3. ASSUME db' = Effect(db, op), audit' = INV!Replay(audit, EventOf(db, op))
        PROVE  INV!DeleteRoom(op.id)
    BY <1>3, <2>3, SameRooms, SameEvents DEF INV!DeleteRoom
  <2> QED BY <2>1, <2>2, <2>3, SameSets DEF INV!Next
<1> QED BY <1>1, <1>2, <1>3

LEMMA ContainerCalls ==
  ASSUME NEW op \in Call,
         op.do \in {"CreateContainer", "UpdateContainer", "MoveContainer", "DeleteContainer"},
         Household(db), Accepted(db, op)
  PROVE  /\ Household(Effect(db, op))
         /\ db' = Effect(db, op) /\ audit' = INV!Replay(audit, EventOf(db, op)) => INV!Next
<1> USE DEF Accepted, Checks, Clash, WithinBounds, Effect, EventOf, WriteFirst, INV!Commit
<1>1. CASE op.do = "CreateContainer"
  <2>1. op.row \in ContainerRow
    BY <1>1 DEF Call
  <2>2. Household(Effect(db, op))
    BY <1>1, <2>1, ContainerCreateSound
  <2>3. ASSUME db' = Effect(db, op), audit' = INV!Replay(audit, EventOf(db, op))
        PROVE  INV!CreateContainer(op.row)
    BY <1>1, <2>3, SameContainers, SameEvents DEF INV!CreateContainer
  <2> QED BY <2>1, <2>2, <2>3, SameSets DEF INV!Next
<1>2. CASE op.do = "UpdateContainer"
  <2>1. op.id \in ContainerID /\ op.row \in ContainerRow
    BY <1>2 DEF Call
  <2>2. Household(Effect(db, op))
    BY <1>2, <2>1, ContainerUpdateSound
  <2>3. ASSUME db' = Effect(db, op), audit' = INV!Replay(audit, EventOf(db, op))
        PROVE  INV!UpdateContainer(op.id, op.row)
    BY <1>2, <2>3, SameContainers, SameEvents DEF INV!UpdateContainer
  <2> QED BY <2>1, <2>2, <2>3, SameSets DEF INV!Next
<1>3. CASE op.do = "MoveContainer"
  <2>1. op.id \in ContainerID /\ op.to \in Location
    BY <1>3 DEF Call
  <2>2. Household(Effect(db, op))
    BY <1>3, <2>1, ContainerMoveSound
  <2>3. ASSUME db' = Effect(db, op), audit' = INV!Replay(audit, EventOf(db, op))
        PROVE  INV!MoveContainer(op.id, op.to)
    BY <1>3, <2>3, SameContainers, SameEvents DEF INV!MoveContainer
  <2> QED BY <2>1, <2>2, <2>3, SameSets DEF INV!Next
<1>4. CASE op.do = "DeleteContainer"
  <2>1. op.id \in ContainerID
    BY <1>4 DEF Call
  <2>2. Household(Effect(db, op))
    BY <1>4, <2>1, ContainerDeleteSound
  <2>3. ASSUME db' = Effect(db, op), audit' = INV!Replay(audit, EventOf(db, op))
        PROVE  INV!DeleteContainer(op.id)
    BY <1>4, <2>3, SameContainers, SameEvents DEF INV!DeleteContainer
  <2> QED BY <2>1, <2>2, <2>3, SameSets DEF INV!Next
<1> QED BY <1>1, <1>2, <1>3, <1>4

LEMMA ItemCalls ==
  ASSUME NEW op \in Call,
         op.do \in {"CreateItem", "UpdateItem", "MoveItem", "DeleteItem"},
         Household(db), Accepted(db, op)
  PROVE  /\ Household(Effect(db, op))
         /\ db' = Effect(db, op) /\ audit' = INV!Replay(audit, EventOf(db, op)) => INV!Next
<1> USE DEF Accepted, Checks, Clash, WithinBounds, Effect, EventOf, WriteFirst, INV!Commit
<1>1. CASE op.do = "CreateItem"
  <2>1. op.row \in ItemRow
    BY <1>1 DEF Call
  <2>2. Household(Effect(db, op))
    BY <1>1, <2>1, ItemCreateSound
  <2>3. ASSUME db' = Effect(db, op), audit' = INV!Replay(audit, EventOf(db, op))
        PROVE  INV!CreateItem(op.row)
    BY <1>1, <2>3, SameItems, SameEvents DEF INV!CreateItem
  <2> QED BY <2>1, <2>2, <2>3, SameSets DEF INV!Next
<1>2. CASE op.do = "UpdateItem"
  <2>1. op.id \in ItemID /\ op.row \in ItemRow
    BY <1>2 DEF Call
  <2>2. Household(Effect(db, op))
    BY <1>2, <2>1, ItemUpdateSound
  <2>3. ASSUME db' = Effect(db, op), audit' = INV!Replay(audit, EventOf(db, op))
        PROVE  INV!UpdateItem(op.id, op.row)
    BY <1>2, <2>3, SameItems, SameEvents DEF INV!UpdateItem
  <2> QED BY <2>1, <2>2, <2>3, SameSets DEF INV!Next
<1>3. CASE op.do = "MoveItem"
  <2>1. op.id \in ItemID /\ op.to \in Location
    BY <1>3 DEF Call
  <2>2. Household(Effect(db, op))
    BY <1>3, <2>1, ItemMoveSound
  <2>3. ASSUME db' = Effect(db, op), audit' = INV!Replay(audit, EventOf(db, op))
        PROVE  INV!MoveItem(op.id, op.to)
    BY <1>3, <2>3, SameItems, SameEvents DEF INV!MoveItem
  <2> QED BY <2>1, <2>2, <2>3, SameSets DEF INV!Next
<1>4. CASE op.do = "DeleteItem"
  <2>1. op.id \in ItemID
    BY <1>4 DEF Call
  <2>2. Household(Effect(db, op))
    BY <1>4, <2>1, ItemDeleteSound
  <2>3. ASSUME db' = Effect(db, op), audit' = INV!Replay(audit, EventOf(db, op))
        PROVE  INV!DeleteItem(op.id)
    BY <1>4, <2>3, SameItems, SameEvents DEF INV!DeleteItem
  <2> QED BY <2>1, <2>2, <2>3, SameSets DEF INV!Next
<1> QED BY <1>1, <1>2, <1>3, <1>4

LEMMA CallSound ==
  ASSUME NEW op \in Call, Household(db), Accepted(db, op)
  PROVE  /\ Household(Effect(db, op))
         /\ db' = Effect(db, op) /\ audit' = INV!Replay(audit, EventOf(db, op)) => INV!Next
<1>1. op.do \in {"CreateRoom", "UpdateRoom", "DeleteRoom",
                "CreateContainer", "UpdateContainer", "MoveContainer", "DeleteContainer",
                "CreateItem", "UpdateItem", "MoveItem", "DeleteItem"}
  BY DEF Call
<1> QED BY <1>1, RoomCalls, ContainerCalls, ItemCalls

\* An error a check or a write answers is one of the domain's.
LEMMA KnownErrors ==
  ASSUME NEW d, NEW op \in Call
  PROVE  /\ Checks(d, op) \in {Ok, NotFound, Conflict, Cycle, Validation}
         /\ Clash(d, op) \in {Ok, NotFound, Conflict, Cycle, Validation}
<1>1. op.do \in {"CreateRoom", "UpdateRoom", "DeleteRoom",
                "CreateContainer", "UpdateContainer", "MoveContainer", "DeleteContainer",
                "CreateItem", "UpdateItem", "MoveItem", "DeleteItem"}
  BY DEF Call
<1>2. Checks(d, op) \in {Ok, NotFound, Conflict, Cycle, Validation}
  BY <1>1 DEF Checks, WriteFirst, RoomDeleteChecks, ContainerCreateChecks, ContainerUpdateChecks,
     ContainerMoveChecks, ContainerDeleteChecks, ParentInRoom, ItemCreateChecks,
     ItemUpdateChecks, ItemMoveChecks, ItemDeleteChecks
<1>3. Clash(d, op) \in {Ok, NotFound, Conflict, Cycle, Validation}
  BY <1>1 DEF Clash, RoomCreateClash, RoomUpdateClash, ContainerCreateClash,
     ContainerUpdateClash, ContainerMoveClash, ItemCreateClash, ItemUpdateClash, ItemMoveClash
<1> QED BY <1>2, <1>3
-----------------------------------------------------------------------------
(* The inductive invariant.                                                *)

LEMMA InitIInv == Init => IInv
<1> SUFFICES ASSUME Init PROVE IInv
  OBVIOUS
<1>1. Household(EmptyDB) /\ IsDB(EmptyDB)
  BY EmptyHousehold DEF Household
<1>2. TypeOK
  BY <1>1 DEF Init, TypeOK
<1> QED BY <1>1, <1>2 DEF Init, IInv, InCall, CheckedOrStale, WriterIsCurrent

LEMMA InACall ==
  ASSUME IInv, NEW c \in Client, stage[c] \notin {"idle", "failing"}
  PROVE  call[c] \in Call
BY CallsAssumption DEF IInv, InCall

\* Whoever goes on to write has checked the committed database.
LEMMA WriteChecked ==
  ASSUME IInv, NEW c \in Client, Write(c)
  PROVE  Checks(db, call[c]) = Ok
<1>1. c \notin stale /\ CheckedOrStale
  BY DEF Write, CanWrite, IInv
<1>2. stage[c] = "checked" \/ call[c].do \in WriteFirst
  BY DEF Write
<1>3. CASE stage[c] = "checked"
  BY <1>1, <1>3 DEF CheckedOrStale
<1>4. CASE call[c].do \in WriteFirst
  BY <1>4, Zenon DEF Checks, WriteFirst
<1> QED BY <1>2, <1>3, <1>4

\* A step that fails leaves the others where they were.
LEMMA FailIInv ==
  ASSUME IInv, NEW c \in Client,
         NEW error \in {Ok, NotFound, Conflict, Cycle, Validation, Internal}, Fail(c, error),
         UNCHANGED <<db, audit, call, work, event>>,
         writer' = writer \/ (writer = NoClient /\ writer' = c)
  PROVE  IInv'
<1> USE DEF IInv
<1>1. TypeOK'
  BY DEF Fail, TypeOK
<1>2. \A d \in Client : d # c => stage'[d] = stage[d]
  BY DEF Fail, TypeOK
<1>3. stage'[c] = "failing" /\ stale' = stale \ {c}
  BY DEF Fail, TypeOK
<1>4. InCall' /\ CheckedOrStale'
  BY <1>2, <1>3 DEF InCall, CheckedOrStale
<1>5. WriterIsCurrent'
  BY <1>2, <1>3, ClientAssumption DEF WriterIsCurrent
<1> QED BY <1>1, <1>4, <1>5

LEMMA NextIInv ==
  ASSUME IInv, [Next]_vars
  PROVE  IInv'
<1>1. TypeOK /\ Household(db) /\ InCall /\ CheckedOrStale /\ WriterIsCurrent
  BY DEF IInv
<1>2. ASSUME NEW c \in Client, NEW op \in Calls, Begin(c, op) PROVE IInv'
  <2>1. /\ stage'[c] = "begun" /\ call'[c] = op
        /\ \A d \in Client \ {c} : stage'[d] = stage[d] /\ call'[d] = call[d]
    BY <1>1, <1>2 DEF Begin, TypeOK
  <2>2. UNCHANGED <<db, audit, stale, writer, work, event, answer>>
    BY <1>2 DEF Begin
  <2>3. TypeOK'
    BY <1>1, <1>2 DEF Begin, TypeOK
  <2>4. InCall' /\ CheckedOrStale'
    BY <1>1, <2>1, <2>2 DEF InCall, CheckedOrStale
  <2>5. WriterIsCurrent'
    BY <1>1, <2>1, <2>2 DEF WriterIsCurrent
  <2> QED BY <1>1, <2>2, <2>3, <2>4, <2>5 DEF IInv
<1>3. ASSUME NEW c \in Client, Check(c) PROVE IInv'
  <2>1. call[c] \in Call
    BY <1>3, InACall DEF Check
  <2>2. CASE Checks(db, call[c]) = Ok
    <3>1. /\ stage' = [stage EXCEPT ![c] = "checked"]
          /\ UNCHANGED <<db, audit, call, stale, writer, work, event, answer>>
      BY <1>3, <2>2 DEF Check
    <3>2. stage'[c] = "checked" /\ \A d \in Client \ {c} : stage'[d] = stage[d]
      BY <1>1, <3>1 DEF TypeOK
    <3>3. TypeOK'
      BY <1>1, <3>1 DEF TypeOK
    <3>4. InCall' /\ CheckedOrStale'
      BY <1>1, <1>3, <2>2, <3>1, <3>2 DEF InCall, CheckedOrStale, Check
    <3>5. WriterIsCurrent'
      BY <1>1, <3>1, <3>2 DEF WriterIsCurrent
    <3> QED BY <1>1, <3>1, <3>3, <3>4, <3>5 DEF IInv
  <2>3. CASE Checks(db, call[c]) # Ok
    <3>1. Fail(c, Checks(db, call[c])) /\ UNCHANGED <<db, audit, call, writer, work, event>>
      BY <1>3, <2>3 DEF Check
    <3> QED BY <2>1, <3>1, KnownErrors, FailIInv
  <2> QED BY <2>2, <2>3
<1>4. ASSUME NEW c \in Client, Write(c) PROVE IInv'
  <2>1. call[c] \in Call
    BY <1>4, InACall DEF Write
  <2>2. Checks(db, call[c]) = Ok
    BY <1>4, WriteChecked
  <2>3. CASE Clash(db, call[c]) = Ok
    <3>1. /\ work' = Effect(db, call[c]) /\ writer' = c
          /\ stage' = [stage EXCEPT ![c] = "written"]
          /\ UNCHANGED <<db, audit, call, stale, event, answer>>
      BY <1>4, <2>3 DEF Write
    <3>2. stage'[c] = "written" /\ \A d \in Client \ {c} : stage'[d] = stage[d]
      BY <1>1, <3>1 DEF TypeOK
    <3>3. Accepted(db, call[c])
      BY <1>4, <2>2, <2>3 DEF Write, Accepted
    <3>4. Household(work')
      BY <1>1, <2>1, <3>1, <3>3, CallSound
    <3>5. TypeOK'
      BY <1>1, <3>1, <3>4 DEF TypeOK, Household
    <3>6. InCall' /\ CheckedOrStale'
      BY <1>1, <1>4, <3>1, <3>2 DEF InCall, CheckedOrStale, Write
    <3>7. \A d \in Client \ {c} : stage'[d] \notin {"written", "recorded"}
      BY <1>1, <1>4, <3>2, ClientAssumption DEF Write, CanWrite, WriterIsCurrent
    <3>8. WriterIsCurrent'
      BY <3>1, <3>2, <3>3, <3>7 DEF WriterIsCurrent
    <3> QED BY <1>1, <3>1, <3>5, <3>6, <3>8 DEF IInv
  <2>4. CASE Clash(db, call[c]) # Ok
    <3>1. /\ Fail(c, Clash(db, call[c])) /\ UNCHANGED <<db, audit, call, work, event>>
          /\ writer = NoClient /\ writer' = c
      BY <1>4, <2>4 DEF Write, CanWrite
    <3> QED BY <2>1, <3>1, KnownErrors, FailIInv
  <2> QED BY <2>3, <2>4
<1>5. ASSUME NEW c \in Client, Busy(c) \/ Cancel(c) PROVE IInv'
  BY <1>5, FailIInv DEF Busy, Cancel
<1>6. ASSUME NEW c \in Client, Record(c) PROVE IInv'
  <2>1. /\ event' = EventOf(db, call[c]) /\ stage' = [stage EXCEPT ![c] = "recorded"]
        /\ UNCHANGED <<db, audit, call, stale, writer, work, answer>>
    BY <1>6 DEF Record
  <2>2. stage'[c] = "recorded" /\ \A d \in Client \ {c} : stage'[d] = stage[d]
    BY <1>1, <2>1 DEF TypeOK
  <2>3. TypeOK'
    BY <1>1, <2>1 DEF TypeOK
  <2>4. InCall' /\ CheckedOrStale'
    BY <1>1, <1>6, <2>1, <2>2 DEF InCall, CheckedOrStale, Record
  <2>5. WriterIsCurrent'
    BY <1>1, <1>6, <2>1, <2>2 DEF WriterIsCurrent, Record
  <2> QED BY <1>1, <2>1, <2>3, <2>4, <2>5 DEF IInv
<1>7. ASSUME NEW c \in Client, Commit(c) PROVE IInv'
  <2>1. /\ db' = work /\ writer' = NoClient /\ work' = work /\ stale' = Readers
        /\ stage' = [stage EXCEPT ![c] = "idle"] /\ call' = [call EXCEPT ![c] = NoCall]
        /\ answer' = [answer EXCEPT ![c] = Ok]
    BY <1>7 DEF Commit, Leave
  <2>2. /\ stage'[c] = "idle"
        /\ \A d \in Client \ {c} : stage'[d] = stage[d] /\ call'[d] = call[d]
    BY <1>1, <2>1 DEF TypeOK
  <2>3. writer = c /\ Accepted(db, call[c]) /\ work = Effect(db, call[c])
    BY <1>1, <1>7 DEF Commit, WriterIsCurrent
  <2>4. Household(db')
    BY <1>1, <1>7, <2>1, <2>3, CallSound, InACall DEF Commit
  <2>5. TypeOK'
    BY <1>1, <2>1 DEF TypeOK, Readers
  <2>6. InCall' /\ CheckedOrStale'
    BY <1>1, <2>1, <2>2 DEF InCall, CheckedOrStale, Readers
  <2>7. \A d \in Client : stage'[d] \notin {"written", "recorded"}
    BY <1>1, <2>2, <2>3 DEF WriterIsCurrent
  <2> QED BY <2>4, <2>5, <2>6, <2>7 DEF IInv, WriterIsCurrent
<1>8. ASSUME NEW c \in Client, Rollback(c) PROVE IInv'
  <2>1. /\ stage' = [stage EXCEPT ![c] = "idle"] /\ call' = [call EXCEPT ![c] = NoCall]
        /\ answer' = [answer EXCEPT ![c] = Ok] /\ UNCHANGED <<db, audit, stale>>
    BY <1>8 DEF Rollback, Leave
  <2>2. /\ stage'[c] = "idle"
        /\ \A d \in Client \ {c} : stage'[d] = stage[d] /\ call'[d] = call[d]
    BY <1>1, <2>1 DEF TypeOK
  <2>3. TypeOK'
    BY <1>1, <1>8, <2>1 DEF TypeOK, Rollback
  <2>4. InCall' /\ CheckedOrStale'
    BY <1>1, <2>1, <2>2 DEF InCall, CheckedOrStale
  <2>5. CASE writer = c
    <3>1. \A d \in Client : stage'[d] \notin {"written", "recorded"}
      BY <1>1, <2>2, <2>5 DEF WriterIsCurrent
    <3> QED BY <1>1, <2>1, <2>3, <2>4, <3>1 DEF IInv, WriterIsCurrent
  <2>6. CASE writer # c
    <3>1. UNCHANGED <<writer, work, event>>
      BY <1>8, <2>6 DEF Rollback
    <3>2. WriterIsCurrent'
      BY <1>1, <2>1, <2>2, <3>1 DEF WriterIsCurrent
    <3> QED BY <1>1, <2>1, <2>3, <2>4, <3>2 DEF IInv
  <2> QED BY <2>5, <2>6
<1>9. ASSUME Crash PROVE IInv'
  <2>1. TypeOK'
    BY <1>1, <1>9 DEF Crash, TypeOK
  <2> QED BY <1>1, <1>9, <2>1 DEF Crash, IInv, InCall, CheckedOrStale, WriterIsCurrent
<1>10. ASSUME UNCHANGED vars PROVE IInv'
  BY <1>1, <1>10 DEF vars, IInv, TypeOK, InCall, CheckedOrStale, WriterIsCurrent
<1> QED
  BY <1>2, <1>3, <1>4, <1>5, <1>6, <1>7, <1>8, <1>9, <1>10 DEF Next, Progress
-----------------------------------------------------------------------------
(* The theorems.                                                           *)

\* The inductive invariant: sound households, and what each transaction has in
\* hand agrees with the one that is committed.
THEOREM Invariance == Spec => []IInv
BY InitIInv, NextIInv, PTL DEF Spec

\* What is committed and what the writer sees are databases, and every client
\* is in a stage with an answer of its own.
THEOREM TypeCorrect == Spec => []TypeOK
<1>1. IInv => TypeOK
  BY DEF IInv
<1> QED BY <1>1, Invariance, PTL

\* A commit is the mutation its client asked for, checked against the very
\* database it replaces and recorded with it; no other statement shows.
LEMMA StepImplements ==
  ASSUME IInv, [Next]_vars
  PROVE  INV!Next \/ UNCHANGED <<db, audit>>
<1>1. ASSUME NEW c \in Client, Commit(c) PROVE INV!Next
  <2>1. call[c] \in Call
    BY <1>1, InACall DEF Commit
  <2>2. Household(db) /\ Accepted(db, call[c]) /\ work = Effect(db, call[c])
        /\ event = EventOf(db, call[c])
    BY <1>1 DEF Commit, IInv, WriterIsCurrent
  <2>3. db' = Effect(db, call[c]) /\ audit' = INV!Replay(audit, EventOf(db, call[c]))
    BY <1>1, <2>2 DEF Commit
  <2> QED BY <2>1, <2>2, <2>3, CallSound
<1>2. (\A c \in Client : ~Commit(c)) => UNCHANGED <<db, audit>>
  BY DEF Next, Progress, Begin, Check, Write, Busy, Record, Cancel, Rollback, Crash, vars
<1> QED BY <1>1, <1>2

\* The statements of concurrent transactions add up to mutations that happen
\* one at a time.
THEOREM ImplementsInventory == Spec => Atomic
<1>1. Init => INV!Init
  BY DEF Init, INV!Init, INV!EmptyDB, INV!NoRows, EmptyDB, NoRows
<1>2. IInv /\ [Next]_vars => [INV!Next]_(INV!vars)
  BY StepImplements DEF INV!vars
<1> QED BY <1>1, <1>2, Invariance, PTL DEF Spec, Atomic, INV!Spec

\* A call that is refused, other than by an internal error, is refused by the
\* inventory as committed at that moment, and for the reason it is told.
THEOREM TrueRefusals == Spec => RefusalsAreTrue
<1> DEFINE A == \A c \in Client :
       stage[c] # "failing" /\ stage'[c] = "failing" /\ answer'[c] # Internal
         => answer'[c] = Refusal(db, call[c])
<1>1. ASSUME IInv, [Next]_vars PROVE A
  <2> SUFFICES ASSUME NEW c \in Client,
                      stage[c] # "failing", stage'[c] = "failing", answer'[c] # Internal
               PROVE  answer'[c] = Refusal(db, call[c])
    OBVIOUS
  <2>1. TypeOK
    BY <1>1 DEF IInv
  <2>2. PICK d \in Client : Check(d) \/ Write(d) \/ Busy(d) \/ Cancel(d)
    BY <1>1, <2>1 DEF TypeOK, Next, Progress, Begin, Record, Commit, Rollback, Leave, Crash, vars
  <2>3. d = c
    BY <2>1, <2>2 DEF TypeOK, Check, Write, Busy, Cancel, Fail
  <2>4. \A error : Fail(c, error) => answer'[c] = error
    BY <2>1 DEF TypeOK, Fail
  <2>5. CASE Check(c)
    <3>1. Checks(db, call[c]) # Ok
      BY <2>1, <2>5 DEF Check, TypeOK
    <3>2. answer'[c] = Checks(db, call[c])
      BY <2>4, <2>5, <3>1 DEF Check
    <3> QED BY <3>1, <3>2 DEF Refusal
  <2>6. CASE Write(c)
    <3>1. Clash(db, call[c]) # Ok
      BY <2>1, <2>6 DEF Write, TypeOK
    <3>2. answer'[c] = Clash(db, call[c])
      BY <2>4, <2>6, <3>1 DEF Write
    <3> QED BY <1>1, <2>6, <3>2, WriteChecked DEF Refusal
  <2>7. CASE Busy(c) \/ Cancel(c)
    BY <2>4, <2>7 DEF Busy, Cancel
  <2> QED BY <2>2, <2>3, <2>5, <2>6, <2>7
<1> QED BY <1>1, Invariance, PTL DEF Spec, RefusalsAreTrue
=============================================================================
