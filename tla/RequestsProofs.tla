--------------------------- MODULE RequestsProofs ---------------------------
(***************************************************************************)
(* Requests that write back what they read some time ago implement         *)
(* Inventory: each write is a mutation with well-formed arguments, which   *)
(* the repository judges by what the database holds by then. So everything *)
(* that is proved of Inventory holds of them, for any number of requests.  *)
(***************************************************************************)
EXTENDS Requests, InventoryProofs

IInv == TypeOK /\ Household(db)

RoomDraft      == [do : {"PatchRoom"}, id : RoomID, row : RoomRow]
ContainerDraft == [do : {"PatchContainer"}, id : ContainerID, row : ContainerRow]
ItemDraft      == [do : {"PatchItem"}, id : ItemID, row : ItemRow]
NewDraft       == [do : {"AddContainer"}, id : {NewID}, row : ContainerRow]
AnyDraft       == RoomDraft \cup ContainerDraft \cup ItemDraft \cup NewDraft

-----------------------------------------------------------------------------
(* The rows that are held are well formed.                                 *)

\* A patch laid over a row leaves a row.
LEMMA OverlayRow ==
  ASSUME NEW patch \in Patch
  PROVE  /\ \A row \in RoomRow : Overlay(row, patch) \in RoomRow
         /\ \A row \in ContainerRow : Overlay(row, patch) \in ContainerRow
         /\ \A row \in ItemRow : Overlay(row, patch) \in ItemRow
  BY DEF Patch, Overlay, RoomRow, ContainerRow, ItemRow

LEMMA HeldDraft ==
  ASSUME TypeOK, NEW c \in Client, held[c] # NoRequest
  PROVE  /\ held[c] \in AnyDraft
         /\ held[c].do = "PatchRoom" => held[c] \in RoomDraft
         /\ held[c].do = "PatchContainer" => held[c] \in ContainerDraft
         /\ held[c].do = "PatchItem" => held[c] \in ItemDraft
         /\ held[c].do = "AddContainer" => held[c] \in NewDraft
  BY DEF TypeOK, AnyDraft, RoomDraft, ContainerDraft, ItemDraft, NewDraft

\* A read holds a well-formed draft, and changes nothing else.
LEMMA Reading ==
  ASSUME IInv, NEW c \in Client,
         \/ \E patch \in Patch :
              \/ \E r \in RoomID : PatchRoomRead(c, r, patch)
              \/ \E x \in ContainerID : PatchContainerRead(c, x, patch)
              \/ \E i \in ItemID : PatchItemRead(c, i, patch)
         \/ \E x \in ContainerID, n \in Name, d \in Detail : AddContainerRead(c, x, n, d)
  PROVE  /\ UNCHANGED <<db, audit>> /\ held[c] = NoRequest
         /\ \E draft \in AnyDraft : held' = [held EXCEPT ![c] = draft]
<1> USE DEF Hold, Draft, AnyDraft
<1>1. /\ \A r \in DOMAIN db.rooms : db.rooms[r] \in RoomRow
      /\ \A x \in DOMAIN db.containers : db.containers[x] \in ContainerRow
      /\ \A i \in DOMAIN db.items : db.items[i] \in ItemRow
  BY DEF IInv, TypeOK, IsDB, IsTable
<1>2. ASSUME NEW patch \in Patch, NEW r \in RoomID, PatchRoomRead(c, r, patch)
      PROVE  /\ UNCHANGED <<db, audit>> /\ held[c] = NoRequest
             /\ \E draft \in RoomDraft : held' = [held EXCEPT ![c] = draft]
  <2>1. Draft("PatchRoom", r, Overlay(db.rooms[r], patch)) \in RoomDraft
    BY <1>1, <1>2, OverlayRow DEF PatchRoomRead, RoomDraft
  <2> QED
    BY <1>2, <2>1 DEF PatchRoomRead
<1>3. ASSUME NEW patch \in Patch, NEW x \in ContainerID, PatchContainerRead(c, x, patch)
      PROVE  /\ UNCHANGED <<db, audit>> /\ held[c] = NoRequest
             /\ \E draft \in ContainerDraft : held' = [held EXCEPT ![c] = draft]
  <2>1. Draft("PatchContainer", x, Overlay(db.containers[x], patch)) \in ContainerDraft
    BY <1>1, <1>3, OverlayRow DEF PatchContainerRead, ContainerDraft
  <2> QED
    BY <1>3, <2>1 DEF PatchContainerRead
<1>4. ASSUME NEW patch \in Patch, NEW i \in ItemID, PatchItemRead(c, i, patch)
      PROVE  /\ UNCHANGED <<db, audit>> /\ held[c] = NoRequest
             /\ \E draft \in ItemDraft : held' = [held EXCEPT ![c] = draft]
  <2>1. Draft("PatchItem", i, Overlay(db.items[i], patch)) \in ItemDraft
    BY <1>1, <1>4, OverlayRow DEF PatchItemRead, ItemDraft
  <2> QED
    BY <1>4, <2>1 DEF PatchItemRead
<1>5. ASSUME NEW x \in ContainerID, NEW n \in Name, NEW d \in Detail,
             AddContainerRead(c, x, n, d)
      PROVE  /\ UNCHANGED <<db, audit>> /\ held[c] = NoRequest
             /\ \E draft \in NewDraft : held' = [held EXCEPT ![c] = draft]
  <2> DEFINE row == [room |-> db.containers[x].room, parent |-> x, name |-> n, detail |-> d]
  <2>1. row \in ContainerRow
    BY <1>1, <1>5 DEF AddContainerRead, ContainerRow
  <2>2. Draft("AddContainer", NewID, row) \in NewDraft
    BY <2>1 DEF NewDraft
  <2> QED
    BY <1>5, <2>2 DEF AddContainerRead
<1> QED
  BY <1>2, <1>3, <1>4, <1>5

-----------------------------------------------------------------------------
(* The refinement.                                                         *)

\* A held write is the mutation of the row's own kind, or a refusal.
LEMMA Writing ==
  ASSUME TypeOK, NEW c \in Client, held[c] # NoRequest,
         PatchRoomWrite(c) \/ PatchContainerWrite(c) \/ PatchItemWrite(c) \/ AddContainerWrite(c)
  PROVE  INV!Next \/ UNCHANGED <<db, audit>>
<1> USE DEF Refused
<1>1. CASE PatchRoomWrite(c)
  <2>1. held[c].id \in RoomID /\ held[c].row \in RoomRow
    BY <1>1, HeldDraft DEF PatchRoomWrite, RoomDraft
  <2>2. INV!UpdateRoom(held[c].id, held[c].row) \/ UNCHANGED <<db, audit>>
    BY <1>1 DEF PatchRoomWrite
  <2> QED
    BY <2>1, <2>2, SameSets DEF INV!Next
<1>2. CASE PatchContainerWrite(c)
  <2>1. held[c].id \in ContainerID /\ held[c].row \in ContainerRow
    BY <1>2, HeldDraft DEF PatchContainerWrite, ContainerDraft
  <2>2. INV!UpdateContainer(held[c].id, held[c].row) \/ UNCHANGED <<db, audit>>
    BY <1>2 DEF PatchContainerWrite
  <2> QED
    BY <2>1, <2>2, SameSets DEF INV!Next
<1>3. CASE PatchItemWrite(c)
  <2>1. held[c].id \in ItemID /\ held[c].row \in ItemRow
    BY <1>3, HeldDraft DEF PatchItemWrite, ItemDraft
  <2>2. INV!UpdateItem(held[c].id, held[c].row) \/ UNCHANGED <<db, audit>>
    BY <1>3 DEF PatchItemWrite
  <2> QED
    BY <2>1, <2>2, SameSets DEF INV!Next
<1>4. CASE AddContainerWrite(c)
  <2>1. held[c].row \in ContainerRow
    BY <1>4, HeldDraft DEF AddContainerWrite, NewDraft
  <2>2. INV!CreateContainer(held[c].row) \/ UNCHANGED <<db, audit>>
    BY <1>4 DEF AddContainerWrite
  <2> QED
    BY <2>1, <2>2, SameSets DEF INV!Next
<1> QED
  BY <1>1, <1>2, <1>3, <1>4

\* What a step does to the inventory, and what it leaves held.
LEMMA Step ==
  ASSUME IInv, [Next]_vars
  PROVE  /\ INV!Next \/ UNCHANGED <<db, audit>>
         /\ \/ UNCHANGED held
            \/ \E c \in Client, draft \in AnyDraft \cup {NoRequest} :
                 held' = [held EXCEPT ![c] = draft]
<1>1. CASE OneCall
  BY <1>1, SameSets DEF OneCall, INV!Next
<1>2. ASSUME NEW c \in Client,
             \/ \E patch \in Patch :
                  \/ \E r \in RoomID : PatchRoomRead(c, r, patch)
                  \/ \E x \in ContainerID : PatchContainerRead(c, x, patch)
                  \/ \E i \in ItemID : PatchItemRead(c, i, patch)
             \/ \E x \in ContainerID, n \in Name, d \in Detail : AddContainerRead(c, x, n, d)
      PROVE  /\ UNCHANGED <<db, audit>> /\ held[c] = NoRequest
             /\ \E draft \in AnyDraft : held' = [held EXCEPT ![c] = draft]
  BY <1>2, Reading
<1>3. ASSUME NEW c \in Client, held[c] # NoRequest,
             \/ PatchRoomWrite(c) \/ PatchContainerWrite(c)
             \/ PatchItemWrite(c) \/ AddContainerWrite(c)
      PROVE  /\ INV!Next \/ UNCHANGED <<db, audit>>
             /\ held' = [held EXCEPT ![c] = NoRequest]
  <2>1. held' = [held EXCEPT ![c] = NoRequest]
    BY <1>3 DEF PatchRoomWrite, PatchContainerWrite, PatchItemWrite, AddContainerWrite, Answer
  <2> QED
    BY <1>3, <2>1, Writing DEF IInv
<1>4. ASSUME NEW c \in Client, Abandon(c)
      PROVE  UNCHANGED <<db, audit>> /\ held' = [held EXCEPT ![c] = NoRequest]
  BY <1>4 DEF Abandon, Answer, Refused
<1>5. CASE UNCHANGED vars
  BY <1>5 DEF vars
<1> QED
  BY <1>1, <1>2, <1>3, <1>4, <1>5 DEF Next

LEMMA InitIInv == Init => IInv
<1>1. Init => Household(db)
  BY EmptyHousehold DEF Init, INV!Init, INV!EmptyDB, INV!NoRows, EmptyDB, NoRows
<1> QED
  BY <1>1 DEF Init, IInv, TypeOK, Household

LEMMA NextIInv == IInv /\ [Next]_vars => IInv'
<1> SUFFICES ASSUME IInv, [Next]_vars PROVE IInv'
  OBVIOUS
<1>1. Household(db')
  <2>1. CASE INV!Next
    BY <2>1, MutationSound DEF IInv
  <2>2. CASE UNCHANGED <<db, audit>>
    BY <2>2 DEF IInv
  <2> QED
    BY <2>1, <2>2, Step
<1>2. held \in [Client -> {NoRequest} \cup AnyDraft]
  BY DEF IInv, TypeOK, AnyDraft, RoomDraft, ContainerDraft, ItemDraft, NewDraft
<1>3. held' \in [Client -> {NoRequest} \cup AnyDraft]
  BY <1>2, Step
<1> QED
  BY <1>1, <1>3 DEF IInv, TypeOK, Household, AnyDraft, RoomDraft, ContainerDraft, ItemDraft,
     NewDraft

\* The inductive invariant: sound households, and well-formed rows to write.
THEOREM Invariance == Spec => []IInv
<1> QED
  BY InitIInv, NextIInv, PTL DEF Spec

-----------------------------------------------------------------------------
\* The step that answers a PATCH is its own write, or it is abandoned.
LEMMA PatchAnswered ==
  ASSUME IInv, Next, NEW c \in Client, Patches(c)
  PROVE  PatchRoomWrite(c) \/ PatchContainerWrite(c) \/ PatchItemWrite(c) \/ Abandon(c)
<1> USE DEF Patches
<1>1. \A e \in Client : \A new : held' = [held EXCEPT ![e] = new] => e = c
  BY DEF IInv, TypeOK
<1>2. ~OneCall
  BY DEF OneCall
<1>3. ASSUME NEW e \in Client,
             \/ \E patch \in Patch :
                  \/ \E r \in RoomID : PatchRoomRead(e, r, patch)
                  \/ \E x \in ContainerID : PatchContainerRead(e, x, patch)
                  \/ \E i \in ItemID : PatchItemRead(e, i, patch)
             \/ \E x \in ContainerID, n \in Name, d \in Detail : AddContainerRead(e, x, n, d)
      PROVE  FALSE
  BY <1>1, <1>3, Reading
<1>4. ASSUME NEW e \in Client,
             \/ PatchRoomWrite(e) \/ PatchContainerWrite(e) \/ PatchItemWrite(e)
             \/ AddContainerWrite(e) \/ Abandon(e)
      PROVE  e = c /\ ~AddContainerWrite(e)
  <2>1. e = c
    BY <1>1, <1>4 DEF PatchRoomWrite, PatchContainerWrite, PatchItemWrite, AddContainerWrite,
       Abandon, Answer
  <2> QED
    BY <2>1 DEF AddContainerWrite
<1> QED
  BY <1>2, <1>3, <1>4 DEF Next

\* A row of a container that is gone, or in another room, is refused.
LEMMA OvertakenIsRefused ==
  ASSUME NEW c \in Client, Overtaken(held[c])
  PROVE  ContainerUpdateChecks(db, held[c].id, held[c].row) # Ok
  BY DEF Overtaken, ContainerUpdateChecks, Ok, NotFound, Validation

\* What answers a PATCH of a container: the row is written, or nothing is.
LEMMA ContainerPatched ==
  ASSUME IInv, NEW c \in Client, held[c] # NoRequest, PatchContainerWrite(c), db' # db
  PROVE  /\ db'.containers = Put(db.containers, held[c].id, held[c].row)
         /\ ContainerUpdateChecks(db, held[c].id, held[c].row) = Ok
<1>1. held[c].row \in ContainerRow
  BY HeldDraft DEF PatchContainerWrite, ContainerDraft, IInv
<1>2. INV!UpdateContainer(held[c].id, held[c].row)
  BY DEF PatchContainerWrite, Refused
<1>3. /\ ContainerUpdateChecks(db, held[c].id, held[c].row) = Ok
      /\ db' = ContainerUpdate(db, held[c].id, held[c].row)
  BY <1>2, SameContainers DEF INV!UpdateContainer, INV!Commit, INV!Ok, Ok
<1>4. ContainerUpdated(db, held[c].id, held[c].row) = held[c].row
  BY <1>1, <1>3, UpdateWritesTheRow
<1> QED
  BY <1>3, <1>4 DEF ContainerUpdate, SetContainers

\* It leaves every container in its room, and writes nothing if it is too late.
LEMMA PatchLeavesRooms ==
  ASSUME IInv, Next, NEW c \in Client, Patches(c)
  PROVE  /\ DOMAIN db'.containers = DOMAIN db.containers
         /\ \A x \in DOMAIN db.containers : db'.containers[x].room = db.containers[x].room
         /\ Overtaken(held[c]) => db' = db
<1> DEFINE id  == held[c].id
           row == held[c].row
<1>1. CASE UNCHANGED db
  BY <1>1
<1>2. CASE PatchRoomWrite(c) /\ INV!UpdateRoom(id, row)
  BY <1>2, SameRooms
     DEF PatchRoomWrite, Overtaken, INV!UpdateRoom, INV!Commit, RoomUpdate, SetRooms
<1>3. CASE PatchContainerWrite(c) /\ db' # db
  <2>1. /\ db'.containers = Put(db.containers, id, row)
        /\ ContainerUpdateChecks(db, id, row) = Ok
    BY <1>3, ContainerPatched DEF Patches
  <2>2. id \in DOMAIN db.containers /\ db.containers[id].room = row.room
    BY <2>1 DEF ContainerUpdateChecks, Ok, NotFound, Validation
  <2> QED
    BY <2>1, <2>2, OvertakenIsRefused DEF Put
<1>4. CASE PatchItemWrite(c) /\ INV!UpdateItem(id, row)
  BY <1>4, SameItems
     DEF PatchItemWrite, Overtaken, INV!UpdateItem, INV!Commit, ItemUpdate, SetItems
<1> QED
  BY <1>1, <1>2, <1>3, <1>4, PatchAnswered
     DEF PatchRoomWrite, PatchItemWrite, Abandon, Refused

-----------------------------------------------------------------------------
\* Held rows stay well formed, whatever happens to the rows they were read from.
THEOREM TypeCorrect == Spec => []TypeOK
<1>1. IInv => TypeOK
  BY DEF IInv
<1> QED
  BY <1>1, Invariance, PTL

\* No stale PATCH closes a loop of containers.
THEOREM StaleWritesCloseNoLoop == Spec => []NoCycle
<1>1. IInv => NoCycle
  BY DEF IInv, Household, NoCycle
<1> QED
  BY <1>1, Invariance, PTL

\* No stale room splits a subtree.
THEOREM StaleRoomsSplitNothing == Spec => []SubtreeSharesRoom
<1>1. IInv => SubtreeSharesRoom
  BY DEF IInv, Household, SubtreeSharesRoom
<1> QED
  BY <1>1, Invariance, PTL

\* A PATCH takes no container out of its room and brings none back to life,
\* and one whose container has been moved away, or deleted, writes nothing.
THEOREM StalePatchesKeepRooms == Spec => PatchKeepsRoom
<1> DEFINE Keeps ==
      \A c \in Client : Patches(c) =>
        /\ DOMAIN db'.containers = DOMAIN db.containers
        /\ \A x \in DOMAIN db.containers : db'.containers[x].room = db.containers[x].room
        /\ Overtaken(held[c]) => db' = db
<1>1. IInv /\ [Next]_vars => [Keeps]_vars
  BY PatchLeavesRooms
<1> QED
  BY <1>1, Invariance, PTL DEF Spec, PatchKeepsRoom

\* Requests of two calls are, to the inventory, calls like any others.
THEOREM ImplementsInventory == Spec => INV!Spec
<1>1. Init => INV!Init
  BY DEF Init
<1>2. IInv /\ [Next]_vars => [INV!Next]_(INV!vars)
  BY Step DEF INV!vars
<1> QED
  BY <1>1, <1>2, Invariance, PTL DEF Spec, INV!Spec
=============================================================================
