---------------------------- MODULE Transactions ----------------------------
(***************************************************************************)
(* The repositories of internal/storage as concurrent requests run them:   *)
(* statement by statement, each mutation inside withTx, on a SQLite        *)
(* database in WAL mode. Implements Inventory.                             *)
(*                                                                         *)
(* BeginTx(ctx, nil) is a deferred BEGIN, so a transaction locks nothing   *)
(* until it needs to:                                                      *)
(*   - its first SELECT fixes the snapshot it reads from;                  *)
(*   - its first write takes the one write lock. A transaction that has a  *)
(*     snapshot is refused at once when another holds the lock or has      *)
(*     committed since (SQLITE_BUSY, SQLITE_BUSY_SNAPSHOT); one that has   *)
(*     none yet waits, up to the busy timeout.                             *)
(* All the SELECTs of a transaction see one snapshot, so they are one      *)
(* step, and so are the statements that follow the first write and no one  *)
(* else can see.                                                           *)
(***************************************************************************)
EXTENDS Repositories

CONSTANTS
  Client,    \* the requests in flight at a time
  Calls,     \* the mutations they ask for
  NoClient, NoCall, NoEvent

Call ==
  [do : {"CreateRoom"}, row : RoomRow] \cup
  [do : {"UpdateRoom"}, id : RoomID, row : RoomRow] \cup
  [do : {"DeleteRoom"}, id : RoomID] \cup
  [do : {"CreateContainer"}, row : ContainerRow] \cup
  [do : {"UpdateContainer"}, id : ContainerID, row : ContainerRow] \cup
  [do : {"MoveContainer"}, id : ContainerID, to : Location] \cup
  [do : {"DeleteContainer"}, id : ContainerID] \cup
  [do : {"CreateItem"}, row : ItemRow] \cup
  [do : {"UpdateItem"}, id : ItemID, row : ItemRow] \cup
  [do : {"MoveItem"}, id : ItemID, to : Location] \cup
  [do : {"DeleteItem"}, id : ItemID]

ASSUME CallsAssumption  == Calls \subseteq Call
ASSUME ClientAssumption == NoClient \notin Client

VARIABLES
  stage,     \* how far the transaction of each client is
  call,      \* the mutation each client is in
  stale,     \* the clients whose snapshot is no longer the committed database
  writer,    \* the client that holds the write lock
  work,      \* the database as the writer sees it
  event,     \* the event the writer has inserted
  answer     \* the error a failing call is about to answer

vars == <<db, audit, stage, call, stale, writer, work, event, answer>>

Internal == "internal"   \* any other error: a 500 to a REST client

-----------------------------------------------------------------------------
(* What each call checks, writes and records.                              *)

\* The calls whose first statement is the write itself.
WriteFirst == {"CreateRoom", "UpdateRoom"}

Checks(d, op) ==
  CASE op.do \in WriteFirst -> Ok
    [] op.do = "DeleteRoom" -> RoomDeleteChecks(d, op.id)
    [] op.do = "CreateContainer" -> ContainerCreateChecks(d, op.row)
    [] op.do = "UpdateContainer" -> ContainerUpdateChecks(d, op.id, op.row)
    [] op.do = "MoveContainer" -> ContainerMoveChecks(d, op.id, op.to)
    [] op.do = "DeleteContainer" -> ContainerDeleteChecks(d, op.id)
    [] op.do = "CreateItem" -> ItemCreateChecks(d, op.row)
    [] op.do = "UpdateItem" -> ItemUpdateChecks(d, op.id, op.row)
    [] op.do = "MoveItem" -> ItemMoveChecks(d, op.id, op.to)
    [] op.do = "DeleteItem" -> ItemDeleteChecks(d, op.id)

Clash(d, op) ==
  CASE op.do = "CreateRoom" -> RoomCreateClash(d, op.row)
    [] op.do = "UpdateRoom" -> RoomUpdateClash(d, op.id, op.row)
    [] op.do = "CreateContainer" -> ContainerCreateClash(d, op.row)
    [] op.do = "UpdateContainer" -> ContainerUpdateClash(d, op.id, op.row)
    [] op.do = "MoveContainer" -> ContainerMoveClash(d, op.id, op.to)
    [] op.do = "CreateItem" -> ItemCreateClash(d, op.row)
    [] op.do = "UpdateItem" -> ItemUpdateClash(d, op.id, op.row)
    [] op.do = "MoveItem" -> ItemMoveClash(d, op.id, op.to)
    [] op.do \in {"DeleteRoom", "DeleteContainer", "DeleteItem"} -> Ok

Refusal(d, op) == IF Checks(d, op) # Ok THEN Checks(d, op) ELSE Clash(d, op)

Effect(d, op) ==
  CASE op.do = "CreateRoom" -> RoomCreate(d, op.row)
    [] op.do = "UpdateRoom" -> RoomUpdate(d, op.id, op.row)
    [] op.do = "DeleteRoom" -> RoomDelete(d, op.id)
    [] op.do = "CreateContainer" -> ContainerCreate(d, op.row)
    [] op.do = "UpdateContainer" -> ContainerUpdate(d, op.id, op.row)
    [] op.do = "MoveContainer" -> ContainerMove(d, op.id, op.to)
    [] op.do = "DeleteContainer" -> ContainerDelete(d, op.id)
    [] op.do = "CreateItem" -> ItemCreate(d, op.row)
    [] op.do = "UpdateItem" -> ItemUpdate(d, op.id, op.row)
    [] op.do = "MoveItem" -> ItemMove(d, op.id, op.to)
    [] op.do = "DeleteItem" -> ItemDelete(d, op.id)

\* d is the database the transaction started from.
EventOf(d, op) ==
  CASE op.do = "CreateRoom" -> StateEvent("room.created", NewRoom(d), op.row)
    [] op.do = "UpdateRoom" -> StateEvent("room.updated", op.id, op.row)
    [] op.do = "DeleteRoom" -> StateEvent("room.deleted", op.id, d.rooms[op.id])
    [] op.do = "CreateContainer" ->
         StateEvent("container.created", NewContainer(d), op.row)
    [] op.do = "UpdateContainer" ->
         StateEvent("container.updated", op.id, ContainerUpdated(d, op.id, op.row))
    [] op.do = "MoveContainer" ->
         MoveEvent("container.moved", op.id, Origin(d.containers, op.id), op.to)
    [] op.do = "DeleteContainer" ->
         StateEvent("container.deleted", op.id, d.containers[op.id])
    [] op.do = "CreateItem" -> StateEvent("item.created", NewItem(d), op.row)
    [] op.do = "UpdateItem" -> StateEvent("item.updated", op.id, op.row)
    [] op.do = "MoveItem" ->
         MoveEvent("item.moved", op.id, d.items[op.id].location, op.to)
    [] op.do = "DeleteItem" -> StateEvent("item.deleted", op.id, d.items[op.id])

\* The AUTOINCREMENT sequences stay within the bounds of the model.
WithinBounds(d, op) ==
  /\ op.do = "CreateRoom" => d.lastRoom < MaxRoom
  /\ op.do = "CreateContainer" => d.lastContainer < MaxContainer
  /\ op.do = "CreateItem" => d.lastItem < MaxItem

-----------------------------------------------------------------------------

Init ==
  /\ db = EmptyDB /\ audit = INV!Tables(EmptyDB)
  /\ stage = [c \in Client |-> "idle"] /\ call = [c \in Client |-> NoCall]
  /\ stale = {} /\ writer = NoClient /\ work = EmptyDB /\ event = NoEvent
  /\ answer = [c \in Client |-> Ok]

\* BEGIN: nothing is read or locked yet.
Begin(c, op) ==
  /\ stage[c] = "idle"
  /\ stage' = [stage EXCEPT ![c] = "begun"]
  /\ call' = [call EXCEPT ![c] = op]
  /\ UNCHANGED <<db, audit, stale, writer, work, event, answer>>

Fail(c, error) ==
  /\ stage' = [stage EXCEPT ![c] = "failing"]
  /\ answer' = [answer EXCEPT ![c] = error]
  /\ stale' = stale \ {c}

\* The SELECTs that check references, contents and cycles.
Check(c) ==
  /\ stage[c] = "begun" /\ call[c].do \notin WriteFirst
  /\ LET found == Checks(db, call[c]) IN
     IF found = Ok
     THEN stage' = [stage EXCEPT ![c] = "checked"] /\ UNCHANGED <<answer, stale>>
     ELSE Fail(c, found)
  /\ UNCHANGED <<db, audit, call, writer, work, event>>

\* Mutant: the saves run outside withTx, so what they read may have changed.
CanWriteStale(c) ==
  /\ writer = NoClient
  /\ c \in stale =>
       call[c].do \in {"CreateContainer", "UpdateContainer", "CreateItem", "UpdateItem"}

\* May c go on to write: it has the lock to take, and its snapshot is current.
CanWrite(c) == writer = NoClient /\ c \notin stale

\* The INSERT, UPDATE or DELETE. A violated unique index, or an UPDATE that
\* matches no row, leaves the lock with c until it rolls back.
Write(c) ==
  /\ \/ stage[c] = "checked"
     \/ stage[c] = "begun" /\ call[c].do \in WriteFirst
  /\ CanWrite(c)
  /\ WithinBounds(db, call[c])
  /\ writer' = c
  /\ LET clash == Clash(db, call[c]) IN
     IF clash = Ok
     THEN /\ work' = Effect(db, call[c])
          /\ stage' = [stage EXCEPT ![c] = "written"]
          /\ UNCHANGED <<answer, stale>>
     ELSE Fail(c, clash) /\ UNCHANGED work
  /\ UNCHANGED <<db, audit, call, event>>

\* Mutant: a transaction that finds its snapshot stale retries for ever.
BusyWaits(c) ==
  /\ \/ stage[c] = "checked"
     \/ stage[c] = "begun" /\ call[c].do \in WriteFirst
  /\ writer # NoClient \/ ~WithinBounds(db, call[c])
  /\ Fail(c, Internal)
  /\ UNCHANGED <<db, audit, call, writer, work, event>>

\* SQLITE_BUSY: at once for a transaction that has read, after the busy
\* timeout for one that has not. An insert out of the model's bounds ends the
\* same way.
Busy(c) ==
  /\ \/ stage[c] = "checked"
     \/ stage[c] = "begun" /\ call[c].do \in WriteFirst
  /\ ~CanWrite(c) \/ ~WithinBounds(db, call[c])
  /\ Fail(c, Internal)
  /\ UNCHANGED <<db, audit, call, writer, work, event>>

\* record: the event goes in with the write it describes.
Record(c) ==
  /\ stage[c] = "written"
  /\ event' = EventOf(db, call[c])
  /\ stage' = [stage EXCEPT ![c] = "recorded"]
  /\ UNCHANGED <<db, audit, call, stale, writer, work, answer>>

\* The request is cancelled, or a statement fails, before the commit.
Cancel(c) ==
  /\ stage[c] \in {"begun", "checked", "written", "recorded"}
  /\ Fail(c, Internal)
  /\ UNCHANGED <<db, audit, call, writer, work, event>>

\* The clients that have read from a snapshot and not written.
Readers == {c \in Client : stage[c] = "checked"}

Leave(c) ==
  /\ stage' = [stage EXCEPT ![c] = "idle"]
  /\ call' = [call EXCEPT ![c] = NoCall]
  /\ answer' = [answer EXCEPT ![c] = Ok]

Commit(c) ==
  /\ stage[c] = "recorded"
  /\ db' = work
  /\ audit' = INV!Replay(audit, event)
  /\ writer' = NoClient /\ event' = NoEvent /\ UNCHANGED work
  /\ stale' = Readers
  /\ Leave(c)

\* withTx rolls back whatever fn fails on, and answers its error.
Rollback(c) ==
  /\ stage[c] = "failing"
  /\ IF writer = c THEN writer' = NoClient /\ work' = db /\ event' = NoEvent
                   ELSE UNCHANGED <<writer, work, event>>
  /\ Leave(c)
  /\ UNCHANGED <<db, audit, stale>>

\* The process dies. The next one finds what was committed, and nothing else.
Crash ==
  /\ stage' = [c \in Client |-> "idle"] /\ call' = [c \in Client |-> NoCall]
  /\ stale' = {} /\ writer' = NoClient /\ work' = db /\ event' = NoEvent
  /\ answer' = [c \in Client |-> Ok]
  /\ UNCHANGED <<db, audit>>

Progress(c) == Check(c) \/ Write(c) \/ Busy(c) \/ Record(c) \/ Commit(c) \/ Rollback(c)

Next ==
  \/ \E c \in Client, op \in Calls : Begin(c, op)
  \/ \E c \in Client : Progress(c) \/ Cancel(c)
  \/ Crash

Spec == Init /\ [][Next]_vars

\* database/sql and SQLite go on with every transaction: a statement returns,
\* and a wait for the lock ends at the busy timeout.
FairSpec == Spec /\ \A c \in Client : WF_vars(Progress(c))

-----------------------------------------------------------------------------
(* What must hold.                                                         *)

TypeOK ==
  /\ IsDB(db) /\ IsDB(work)
  /\ stage \in [Client -> {"idle", "begun", "checked", "written", "recorded", "failing"}]
  /\ call \in [Client -> Calls \cup {NoCall}]
  /\ stale \subseteq Client
  /\ writer \in Client \cup {NoClient}
  /\ answer \in [Client -> {Ok, NotFound, Conflict, Cycle, Validation, Internal}]

\* The statements of concurrent transactions add up to mutations that happen
\* one at a time, each checked against the database it changes and recorded
\* with it: no writer slips between the checks and the write of another.
Atomic == INV!Spec

\* A refusal is true: at the moment it is decided the committed inventory
\* does refuse the call, and for that very reason. In particular an UPDATE of
\* a container that matches no row has found a cycle, not a missing row.
RefusalsAreTrue ==
  [][\A c \in Client :
       stage[c] # "failing" /\ stage'[c] = "failing" /\ answer'[c] # Internal
         => answer'[c] = Refusal(db, call[c])]_vars

\* Every call is answered, however transactions collide: an upgrade to the
\* write lock fails instead of waiting for a reader that waits for it.
EveryCallIsAnswered == \A c \in Client : stage[c] # "idle" ~> stage[c] = "idle"
=============================================================================
