-------------------------- MODULE InventoryProofs --------------------------
(***************************************************************************)
(* The safety of Inventory for any names, details and bounds. First, every *)
(* mutation of Store keeps a database a Household: the induction needs all *)
(* its parts together, since acyclicity uses that ids are fresh and        *)
(* references exist, and the sharing of rooms that the whole subtree       *)
(* moves. Then the theorems about Inventory, which is INV here, as it is   *)
(* for the modules that use the repositories: the lemmas Same... say that  *)
(* the operators INV reaches are those of Store. The replay of a container *)
(* move uses that the log has rebuilt the same tree so far.                *)
(***************************************************************************)
EXTENDS Repositories, TLAPS

-----------------------------------------------------------------------------
(* The two walks of the container tree are least closed sets.              *)

LEMMA WalkFacts ==
  ASSUME NEW cs, NEW c \in DOMAIN cs
  PROVE  /\ Walk(cs, c) \subseteq DOMAIN cs
         /\ c \in Walk(cs, c)
         /\ \A y \in Walk(cs, c) : cs[y].parent \in DOMAIN cs => cs[y].parent \in Walk(cs, c)
  BY DEF Walk

LEMMA WalkLeast ==
  ASSUME NEW cs, NEW c, NEW S \in SUBSET DOMAIN cs, c \in S,
         \A y \in S : cs[y].parent \in DOMAIN cs => cs[y].parent \in S
  PROVE  Walk(cs, c) \subseteq S
  BY DEF Walk

LEMMA SubtreeFacts ==
  ASSUME NEW cs, NEW c \in DOMAIN cs
  PROVE  /\ Subtree(cs, c) \subseteq DOMAIN cs
         /\ c \in Subtree(cs, c)
         /\ \A y \in DOMAIN cs : cs[y].parent \in Subtree(cs, c) => y \in Subtree(cs, c)
  BY DEF Subtree

\* Only the seed of a subtree has its parent outside it.
LEMMA SubtreeParents ==
  ASSUME NEW cs, NEW c \in DOMAIN cs, NEW x \in Subtree(cs, c), x # c
  PROVE  cs[x].parent \in Subtree(cs, c)
<1> DEFINE T == Subtree(cs, c)
           S == T \ {x}
<1>1. SUFFICES ASSUME cs[x].parent \notin T PROVE FALSE
  OBVIOUS
<1>2. S \in SUBSET DOMAIN cs /\ c \in S
  BY SubtreeFacts
<1>3. ASSUME NEW y \in DOMAIN cs, cs[y].parent \in S PROVE y \in S
  BY <1>1, <1>3, SubtreeFacts
<1>4. T \subseteq S
  BY <1>2, <1>3 DEF Subtree
<1> QED
  BY <1>4

\* Looking up from x one meets c exactly when looking down from c one meets x.
LEMMA WalkSubtree ==
  ASSUME NEW cs, NEW c \in DOMAIN cs, NEW x \in DOMAIN cs
  PROVE  c \in Walk(cs, x) <=> x \in Subtree(cs, c)
<1>1. ASSUME x \notin Subtree(cs, c) PROVE c \notin Walk(cs, x)
  <2> DEFINE S == DOMAIN cs \ Subtree(cs, c)
  <2>1. \A y \in S : cs[y].parent \in DOMAIN cs => cs[y].parent \in S
    BY SubtreeFacts
  <2>2. Walk(cs, x) \subseteq S
    BY <1>1, <2>1, WalkLeast
  <2> QED
    BY <2>2, SubtreeFacts
<1>2. ASSUME x \in Subtree(cs, c) PROVE c \in Walk(cs, x)
  <2> DEFINE S == {y \in DOMAIN cs : c \in Walk(cs, y)}
  <2>1. c \in S
    BY WalkFacts
  <2>2. ASSUME NEW y \in DOMAIN cs, cs[y].parent \in S PROVE y \in S
    <3> DEFINE p == cs[y].parent
    <3>1. p \in DOMAIN cs /\ p \in Walk(cs, y) /\ c \in Walk(cs, p)
      BY <2>2, WalkFacts
    <3>2. Walk(cs, p) \subseteq Walk(cs, y)
      BY <3>1, WalkFacts, WalkLeast
    <3> QED
      BY <3>1, <3>2
  <2>3. Subtree(cs, c) \subseteq S
    BY <2>1, <2>2 DEF Subtree
  <2> QED
    BY <1>2, <2>3
<1> QED
  BY <1>1, <1>2

\* Nothing is above its own parent.
LEMMA NotAboveItsParent ==
  ASSUME NEW cs, Acyclic(cs), NEW c \in DOMAIN cs, cs[c].parent \in DOMAIN cs
  PROVE  c \notin Walk(cs, cs[c].parent)
<1> DEFINE q == cs[c].parent
           T == Walk(cs, q) \cap Subtree(cs, c)
<1> SUFFICES ASSUME c \in Walk(cs, q) PROVE FALSE
  OBVIOUS
<1>1. q \in T /\ T \in SUBSET DOMAIN cs
  BY WalkFacts, WalkSubtree
<1>2. ASSUME NEW x \in T PROVE cs[x].parent \in T
  <2>1. cs[x].parent \in Subtree(cs, c)
    BY <1>1, SubtreeParents
  <2>2. x \in Walk(cs, q) /\ cs[x].parent \in DOMAIN cs
    BY <2>1, SubtreeFacts
  <2> QED BY <2>1, <2>2, WalkFacts
<1> HIDE DEF T
<1> QED BY <1>1, <1>2 DEF Acyclic

-----------------------------------------------------------------------------
(* Tables stay tables.                                                     *)

LEMMA PutTable ==
  ASSUME NEW Id, NEW Row, NEW table, IsTable(table, Id, Row), NEW x \in Id, NEW row \in Row
  PROVE  IsTable(Put(table, x, row), Id, Row)
  BY DEF IsTable, Put

LEMMA WithoutTable ==
  ASSUME NEW Id, NEW Row, NEW table, IsTable(table, Id, Row), NEW x
  PROVE  IsTable(Without(table, x), Id, Row)
  BY DEF IsTable, Without

LEMMA SetRoomsDB ==
  ASSUME NEW d, IsDB(d), NEW t, IsTable(t, RoomID, RoomRow), NEW last \in 0 .. MaxRoom
  PROVE  IsDB(SetRooms(d, t, last))
  BY DEF IsDB, SetRooms

LEMMA SetContainersDB ==
  ASSUME NEW d, IsDB(d), NEW t, IsTable(t, ContainerID, ContainerRow),
         NEW last \in 0 .. MaxContainer
  PROVE  IsDB(SetContainers(d, t, last))
  BY DEF IsDB, SetContainers

LEMMA SetItemsDB ==
  ASSUME NEW d, IsDB(d), NEW t, IsTable(t, ItemID, ItemRow), NEW last \in 0 .. MaxItem
  PROVE  IsDB(SetItems(d, t, last))
  BY DEF IsDB, SetItems

-----------------------------------------------------------------------------
(* Rooms.                                                                  *)

LEMMA RoomCreateSound ==
  ASSUME NEW d, Household(d), NEW row \in RoomRow, d.lastRoom < MaxRoom,
         RoomCreateClash(d, row) = Ok
  PROVE  Household(RoomCreate(d, row))
<1> DEFINE e == RoomCreate(d, row)
<1> HIDE DEF e
<1>1. /\ e.rooms = Put(d.rooms, d.lastRoom + 1, row) /\ e.lastRoom = d.lastRoom + 1
      /\ e.containers = d.containers /\ e.items = d.items
      /\ e.lastContainer = d.lastContainer /\ e.lastItem = d.lastItem
  BY DEF RoomCreate, SetRooms, NewRoom, e
<1>2. d.lastRoom + 1 \in RoomID /\ d.lastRoom \in Nat /\ d.lastRoom + 1 \in 0 .. MaxRoom
  BY BoundsAssumption DEF Household, IsDB, RoomID
<1>3. IsDB(e)
  <2>1. IsTable(Put(d.rooms, d.lastRoom + 1, row), RoomID, RoomRow)
    BY <1>2, PutTable DEF Household, IsDB
  <2> QED
    BY <1>2, <2>1, SetRoomsDB DEF Household, RoomCreate, NewRoom, e
<1>4. ReferencesExistIn(e)
  BY <1>1 DEF Household, ReferencesExistIn, LocationExists, Put
<1>5. SubtreesShareRoom(e) /\ Acyclic(e.containers)
  BY <1>1 DEF Household, SubtreesShareRoom
<1>6. NamesUniqueIn(e)
  BY <1>1, <1>2 DEF Household, NamesUniqueIn, RoomCreateClash, RoomNameTaken, Put, Ok, Conflict, NewRoom
<1>7. IdsBehindSequence(e)
  BY <1>1, <1>2 DEF Household, IdsBehindSequence, Put, IsDB, IsTable, RoomID
<1> QED
  BY <1>3, <1>4, <1>5, <1>6, <1>7 DEF Household, e

LEMMA RoomUpdateSound ==
  ASSUME NEW d, Household(d), NEW r, NEW row \in RoomRow, RoomUpdateClash(d, r, row) = Ok
  PROVE  Household(RoomUpdate(d, r, row))
<1> DEFINE e == RoomUpdate(d, r, row)
<1> HIDE DEF e
<1>1. /\ e.rooms = Put(d.rooms, r, row) /\ e.lastRoom = d.lastRoom
      /\ e.containers = d.containers /\ e.items = d.items
      /\ e.lastContainer = d.lastContainer /\ e.lastItem = d.lastItem
  BY DEF RoomUpdate, SetRooms, e
<1>2. r \in DOMAIN d.rooms /\ ~RoomNameTaken(d, r, row.name)
  BY DEF RoomUpdateClash, Ok, NotFound, Conflict
<1>3. IsDB(e)
  <2>1. r \in RoomID
    BY <1>2 DEF Household, IsDB, IsTable
  <2>2. IsTable(Put(d.rooms, r, row), RoomID, RoomRow)
    BY <2>1, PutTable DEF Household, IsDB
  <2> QED
    BY <2>2, SetRoomsDB DEF Household, IsDB, RoomUpdate, e
<1>4. ReferencesExistIn(e)
  BY <1>1 DEF Household, ReferencesExistIn, LocationExists, Put
<1>5. SubtreesShareRoom(e) /\ Acyclic(e.containers)
  BY <1>1 DEF Household, SubtreesShareRoom
<1>6. NamesUniqueIn(e)
  BY <1>1, <1>2 DEF Household, NamesUniqueIn, RoomNameTaken, Put
<1>7. IdsBehindSequence(e)
  BY <1>1, <1>2 DEF Household, IdsBehindSequence, Put
<1> QED
  BY <1>3, <1>4, <1>5, <1>6, <1>7 DEF Household, e

LEMMA RoomDeleteSound ==
  ASSUME NEW d, Household(d), NEW r, RoomDeleteChecks(d, r) = Ok
  PROVE  Household(RoomDelete(d, r))
<1> DEFINE e == RoomDelete(d, r)
<1> HIDE DEF e
<1>1. /\ e.rooms = Without(d.rooms, r) /\ e.lastRoom = d.lastRoom
      /\ e.containers = d.containers /\ e.items = d.items
      /\ e.lastContainer = d.lastContainer /\ e.lastItem = d.lastItem
  BY DEF RoomDelete, SetRooms, e
<1>2. r \in DOMAIN d.rooms /\ ~RoomContents(d, r)
  BY DEF RoomDeleteChecks, Ok, NotFound, Conflict
<1>3. IsDB(e)
  <2>1. IsTable(Without(d.rooms, r), RoomID, RoomRow)
    BY WithoutTable DEF Household, IsDB
  <2> QED
    BY <2>1, SetRoomsDB DEF Household, IsDB, RoomDelete, e
<1>4. ReferencesExistIn(e)
  <2>1. \A i \in DOMAIN d.items : d.items[i].location \in Location
    BY DEF Household, IsDB, IsTable, ItemRow
  <2> QED
    BY <1>1, <1>2, <2>1 DEF Household, ReferencesExistIn, LocationExists, RoomContents, Without,
       Location, RoomLocation, ContainerLocation
<1>5. SubtreesShareRoom(e) /\ Acyclic(e.containers)
  BY <1>1 DEF Household, SubtreesShareRoom
<1>6. NamesUniqueIn(e) /\ IdsBehindSequence(e)
  BY <1>1 DEF Household, NamesUniqueIn, IdsBehindSequence, Without
<1> QED
  BY <1>3, <1>4, <1>5, <1>6 DEF Household, e

-----------------------------------------------------------------------------
(* Containers.                                                             *)

\* Re-parenting one row over a parent whose chain of ancestors does not meet
\* it closes no cycle: why the guard of the UPDATE and the walk of Move suffice.
LEMMA ReparentAcyclic ==
  ASSUME NEW cs, Acyclic(cs), NEW c, NEW p, Nil \notin DOMAIN cs,
         p \in DOMAIN cs \cup {Nil}, p \in DOMAIN cs => c \notin Walk(cs, p),
         NEW ds, DOMAIN ds = DOMAIN cs \cup {c}, ds[c].parent = p, c # Nil,
         \A x \in DOMAIN cs : cs[x].parent = c => c \in DOMAIN cs,
         \A x \in DOMAIN cs \ {c} : ds[x].parent = cs[x].parent
  PROVE  Acyclic(ds)
<1> SUFFICES ASSUME NEW S \in SUBSET DOMAIN ds, S # {},
                    \A x \in S : ds[x].parent \in S
             PROVE  FALSE
  BY DEF Acyclic
<1>1. CASE c \notin S
  BY <1>1 DEF Acyclic
<1>2. CASE c \in S
  <2>1. p \in S /\ p \in DOMAIN cs /\ p # c
    BY <1>2, WalkFacts
  <2> DEFINE T == S \cap Walk(cs, p)
  <2>2. p \in T /\ T \in SUBSET DOMAIN cs /\ c \notin T
    BY <2>1, WalkFacts
  <2>3. ASSUME NEW x \in T PROVE cs[x].parent \in T
    <3>1. x \in DOMAIN cs \ {c} /\ cs[x].parent \in S
      BY <2>2
    <3>2. cs[x].parent # c
      BY <3>1, <2>1, <2>2, WalkFacts
    <3> QED
      BY <3>1, <3>2, <2>1, WalkFacts
  <2> QED
    BY <2>2, <2>3 DEF Acyclic
<1> QED
  BY <1>1, <1>2

LEMMA HouseholdIds ==
  ASSUME NEW d, Household(d)
  PROVE  /\ Nil \notin DOMAIN d.containers
         /\ DOMAIN d.rooms \subseteq RoomID
         /\ DOMAIN d.containers \subseteq ContainerID
         /\ DOMAIN d.items \subseteq ItemID
  BY NilAssumption DEF Household, IsDB, IsTable

LEMMA ContainerCreateSound ==
  ASSUME NEW d, Household(d), NEW row \in ContainerRow, d.lastContainer < MaxContainer,
         ContainerCreateChecks(d, row) = Ok, ContainerCreateClash(d, row) = Ok
  PROVE  Household(ContainerCreate(d, row))
<1> DEFINE e == ContainerCreate(d, row)
           c == d.lastContainer + 1
<1> HIDE DEF e
<1>1. /\ e.containers = Put(d.containers, c, row) /\ e.lastContainer = c
      /\ e.rooms = d.rooms /\ e.items = d.items
      /\ e.lastRoom = d.lastRoom /\ e.lastItem = d.lastItem
  BY DEF ContainerCreate, SetContainers, NewContainer, e
<1>2. /\ d.lastContainer \in Nat /\ c \in ContainerID /\ c \in 0 .. MaxContainer
      /\ c # Nil /\ c \notin DOMAIN d.containers
  <2>1. d.lastContainer \in Nat /\ c \in ContainerID /\ c \in 0 .. MaxContainer
    BY BoundsAssumption DEF Household, IsDB, ContainerID
  <2>2. c \notin DOMAIN d.containers
    BY <2>1, HouseholdIds DEF Household, IdsBehindSequence, ContainerID
  <2> QED
    BY <2>1, <2>2, NilAssumption
<1>3. /\ row.room \in DOMAIN d.rooms
      /\ row.parent = Nil \/ row.parent \in DOMAIN d.containers
      /\ row.parent \in DOMAIN d.containers => d.containers[row.parent].room = row.room
      /\ ~ContainerNameTaken(d, row.room, {row.name}, {})
  BY HouseholdIds DEF ContainerCreateChecks, ContainerCreateClash, ParentInRoom,
     Ok, NotFound, Conflict, Validation
<1>4. IsDB(e)
  <2>1. IsTable(Put(d.containers, c, row), ContainerID, ContainerRow)
    BY <1>2, PutTable DEF Household, IsDB
  <2> QED
    BY <1>2, <2>1, SetContainersDB DEF Household, ContainerCreate, NewContainer, e
<1>5. ReferencesExistIn(e)
  BY <1>1, <1>3 DEF Household, ReferencesExistIn, LocationExists, Put
<1>6. SubtreesShareRoom(e)
  BY <1>1, <1>2, <1>3, HouseholdIds DEF Household, ReferencesExistIn, SubtreesShareRoom, Put
<1>7. Acyclic(e.containers)
  <2> DEFINE cs == d.containers
             ds == Put(cs, c, row)
             p  == row.parent
  <2>1. /\ Acyclic(cs) /\ Nil \notin DOMAIN cs /\ p \in DOMAIN cs \cup {Nil}
        /\ DOMAIN ds = DOMAIN cs \cup {c} /\ ds[c].parent = p
        /\ \A x \in DOMAIN cs \ {c} : ds[x].parent = cs[x].parent
        /\ \A x \in DOMAIN cs : cs[x].parent # c
    BY <1>2, <1>3, HouseholdIds DEF Household, ReferencesExistIn, Put
  <2>2. p \in DOMAIN cs => c \notin Walk(cs, p)
    BY <1>2, WalkFacts
  <2> HIDE DEF cs, ds, p
  <2>3. Acyclic(ds)
    BY <1>2, <2>1, <2>2, ReparentAcyclic
  <2> QED
    BY <1>1, <2>3 DEF ds, cs
<1>8. NamesUniqueIn(e)
  BY <1>1, <1>3 DEF Household, NamesUniqueIn, ContainerNameTaken, Put
<1>9. IdsBehindSequence(e)
  BY <1>1, <1>2, HouseholdIds DEF Household, IdsBehindSequence, Put, ContainerID
<1> QED
  BY <1>4, <1>5, <1>6, <1>7, <1>8, <1>9 DEF Household, e

\* Once its checks have passed, an update writes the row it was given.
LEMMA UpdateWritesTheRow ==
  ASSUME NEW d, NEW c, NEW row \in ContainerRow, ContainerUpdateChecks(d, c, row) = Ok
  PROVE  ContainerUpdated(d, c, row) = row
<1>1. d.containers[c].room = row.room
  BY DEF ContainerUpdateChecks, Ok, NotFound, Validation
<1> QED
  BY <1>1 DEF ContainerUpdated, ContainerRow

LEMMA ContainerUpdateSound ==
  ASSUME NEW d, Household(d), NEW c, NEW row \in ContainerRow,
         ContainerUpdateChecks(d, c, row) = Ok, ContainerUpdateClash(d, c, row) = Ok
  PROVE  Household(ContainerUpdate(d, c, row))
<1> DEFINE e == ContainerUpdate(d, c, row)
<1> HIDE DEF e
<1>1. /\ e.containers = Put(d.containers, c, row) /\ e.lastContainer = d.lastContainer
      /\ e.rooms = d.rooms /\ e.items = d.items
      /\ e.lastRoom = d.lastRoom /\ e.lastItem = d.lastItem
  BY UpdateWritesTheRow DEF ContainerUpdate, SetContainers, e
<1>2. /\ c \in DOMAIN d.containers /\ c \in ContainerID /\ c # Nil
      /\ d.containers[c].room = row.room
      /\ row.parent = Nil \/ row.parent \in DOMAIN d.containers
      /\ row.parent \in DOMAIN d.containers =>
           /\ d.containers[row.parent].room = row.room
           /\ c \notin Walk(d.containers, row.parent)
      /\ ~ContainerNameTaken(d, row.room, {row.name}, {c})
  BY HouseholdIds, NilAssumption DEF ContainerUpdateChecks, ContainerUpdateClash, ParentInRoom,
     Ok, NotFound, Conflict, Validation, Cycle
<1>3. IsDB(e)
  <2>1. IsTable(Put(d.containers, c, row), ContainerID, ContainerRow)
    BY <1>2, PutTable DEF Household, IsDB
  <2>2. e = SetContainers(d, Put(d.containers, c, row), d.lastContainer)
    BY UpdateWritesTheRow DEF ContainerUpdate, e
  <2> QED
    BY <2>1, <2>2, SetContainersDB DEF Household, IsDB
<1>4. ReferencesExistIn(e)
  BY <1>1, <1>2 DEF Household, ReferencesExistIn, LocationExists, Put
<1>5. SubtreesShareRoom(e)
  BY <1>1, <1>2 DEF Household, SubtreesShareRoom, Put
<1>6. Acyclic(e.containers)
  <2> DEFINE cs == d.containers
             ds == Put(cs, c, row)
             p  == row.parent
  <2>1. /\ Acyclic(cs) /\ Nil \notin DOMAIN cs /\ p \in DOMAIN cs \cup {Nil}
        /\ DOMAIN ds = DOMAIN cs \cup {c} /\ ds[c].parent = p
        /\ \A x \in DOMAIN cs \ {c} : ds[x].parent = cs[x].parent
        /\ c \in DOMAIN cs /\ (p \in DOMAIN cs => c \notin Walk(cs, p))
    BY <1>2, HouseholdIds DEF Household, Put
  <2> HIDE DEF cs, ds, p
  <2>2. Acyclic(ds)
    BY <1>2, <2>1, ReparentAcyclic
  <2> QED
    BY <1>1, <2>2 DEF ds, cs
<1>7. NamesUniqueIn(e)
  BY <1>1, <1>2 DEF Household, NamesUniqueIn, ContainerNameTaken, Put
<1>8. IdsBehindSequence(e)
  BY <1>1, <1>2 DEF Household, IdsBehindSequence, Put
<1> QED
  BY <1>3, <1>4, <1>5, <1>6, <1>7, <1>8 DEF Household, e

\* A destination that passes the checks of Move names a live room, and a
\* parent in that room whose ancestors do not include the moved container.
LEMMA MoveTarget ==
  ASSUME NEW d, Household(d), NEW c, NEW to \in Location,
         ContainerMoveChecks(d, c, to) = Ok
  PROVE  LET p == IF to.kind = "room" THEN Nil ELSE to.id IN
         /\ c \in DOMAIN d.containers
         /\ RoomOf(d, to) \in DOMAIN d.rooms
         /\ p \in DOMAIN d.containers \cup {Nil}
         /\ p \in DOMAIN d.containers =>
              d.containers[p].room = RoomOf(d, to) /\ c \notin Walk(d.containers, p)
<1>1. c \in DOMAIN d.containers /\ LocationExists(d, to)
  BY DEF ContainerMoveChecks, Ok, NotFound, Cycle
<1>2. to.kind = "container" => c \notin Walk(d.containers, to.id)
  BY <1>1 DEF ContainerMoveChecks, Ok, NotFound, Cycle
<1>3. CASE to.kind = "room"
  BY <1>1, <1>3, HouseholdIds DEF LocationExists, RoomOf
<1>4. CASE to.kind = "container"
  BY <1>1, <1>2, <1>4 DEF LocationExists, RoomOf, Household, ReferencesExistIn
<1> QED
  BY <1>3, <1>4 DEF Location, RoomLocation, ContainerLocation

LEMMA ContainerMoveSound ==
  ASSUME NEW d, Household(d), NEW c, NEW to \in Location,
         ContainerMoveChecks(d, c, to) = Ok, ContainerMoveClash(d, c, to) = Ok
  PROVE  Household(ContainerMove(d, c, to))
<1> DEFINE e    == ContainerMove(d, c, to)
           cs   == d.containers
           room == RoomOf(d, to)
           p    == IF to.kind = "room" THEN Nil ELSE to.id
           T    == Subtree(cs, c)
           ds   == Moved(cs, c, room, p)
<1>1. /\ e.containers = ds /\ e.lastContainer = d.lastContainer
      /\ e.rooms = d.rooms /\ e.items = d.items
      /\ e.lastRoom = d.lastRoom /\ e.lastItem = d.lastItem
      /\ e = SetContainers(d, ds, d.lastContainer)
  BY DEF ContainerMove, SetContainers
<1>2. /\ c \in DOMAIN cs /\ room \in DOMAIN d.rooms /\ p \in DOMAIN cs \cup {Nil}
      /\ p \in DOMAIN cs => cs[p].room = room /\ c \notin Walk(cs, p)
  BY MoveTarget
<1>3. ~ContainerNameTaken(d, room, {cs[x].name : x \in T}, T)
  BY DEF ContainerMoveClash, Ok, Conflict
<1>4. /\ DOMAIN ds = DOMAIN cs
      /\ \A x \in DOMAIN cs :
           /\ ds[x].room = IF x \in T THEN room ELSE cs[x].room
           /\ ds[x].parent = IF x = c THEN p ELSE cs[x].parent
           /\ ds[x].name = cs[x].name
  BY DEF Moved
<1>4a. /\ ds = [x \in DOMAIN ds |-> ds[x]]
       /\ \A x \in DOMAIN cs :
            ds[x] = [room |-> ds[x].room, parent |-> ds[x].parent,
                     name |-> cs[x].name, detail |-> cs[x].detail]
  BY DEF Moved
<1> HIDE DEF e, cs, room, p, T, ds
<1>5. T \subseteq DOMAIN cs /\ c \in T
  BY <1>2, SubtreeFacts DEF T
<1>6. /\ Household(d) /\ cs = d.containers /\ Acyclic(cs) /\ Nil \notin DOMAIN cs
      /\ \A x \in DOMAIN cs : /\ cs[x].room \in DOMAIN d.rooms
                              /\ cs[x].parent \in DOMAIN cs \cup {Nil}
                              /\ cs[x].parent \in DOMAIN cs => cs[x].room = cs[cs[x].parent].room
      /\ \A i \in DOMAIN d.items : LocationExists(d, d.items[i].location)
  BY HouseholdIds DEF Household, ReferencesExistIn, SubtreesShareRoom, cs
<1>7. IsDB(e)
  <2>1. \A x \in DOMAIN cs : cs[x] \in ContainerRow
    BY <1>6 DEF Household, IsDB, IsTable
  <2>2. room \in RoomID /\ p \in ContainerID \cup {Nil} /\ DOMAIN cs \subseteq ContainerID
    BY <1>2, <1>6, HouseholdIds
  <2>3. ASSUME NEW x \in DOMAIN cs PROVE ds[x] \in ContainerRow
    <3>1. /\ ds[x].room \in RoomID /\ ds[x].parent \in ContainerID \cup {Nil}
          /\ cs[x].name \in Name /\ cs[x].detail \in Detail
      BY <1>4, <2>1, <2>2 DEF ContainerRow
    <3>2. ds[x] = [room |-> ds[x].room, parent |-> ds[x].parent,
                   name |-> cs[x].name, detail |-> cs[x].detail]
      BY <1>4a
    <3>3. \A r \in RoomID, q \in ContainerID \cup {Nil}, n \in Name, t \in Detail :
            [room |-> r, parent |-> q, name |-> n, detail |-> t] \in ContainerRow
      BY DEF ContainerRow
    <3> QED
      BY <3>1, <3>2, <3>3
  <2>4. IsTable(ds, ContainerID, ContainerRow)
    BY <1>4, <1>4a, <2>2, <2>3 DEF IsTable
  <2> QED
    BY <1>1, <1>6, <2>4, SetContainersDB DEF Household, IsDB
<1>8. ReferencesExistIn(e)
  <2>1. \A x \in DOMAIN cs : ds[x].room \in DOMAIN d.rooms /\ ds[x].parent \in DOMAIN cs \cup {Nil}
    BY <1>2, <1>4, <1>6
  <2> QED
    BY <1>1, <1>4, <1>6, <2>1 DEF ReferencesExistIn, LocationExists
<1>9. SubtreesShareRoom(e)
  <2> SUFFICES ASSUME NEW x \in DOMAIN cs, ds[x].parent \in DOMAIN cs
               PROVE  ds[x].room = ds[ds[x].parent].room
    BY <1>1, <1>4 DEF SubtreesShareRoom
  <2>1. CASE x = c
    BY <1>2, <1>4, <1>5, <2>1
  <2>2. CASE x # c /\ x \in T
    BY <1>2, <1>4, <1>5, <2>2, SubtreeParents DEF T
  <2>3. CASE x \notin T
    <3>1. cs[x].parent \notin T /\ ds[x].parent = cs[x].parent
      BY <1>2, <1>4, <1>5, <2>3, SubtreeFacts DEF T
    <3> QED
      BY <1>4, <1>6, <2>3, <3>1
  <2> QED
    BY <2>1, <2>2, <2>3
<1>10. Acyclic(e.containers)
  <2>1. /\ Acyclic(cs) /\ Nil \notin DOMAIN cs /\ c # Nil
        /\ DOMAIN ds = DOMAIN cs \cup {c} /\ ds[c].parent = p
        /\ \A x \in DOMAIN cs \ {c} : ds[x].parent = cs[x].parent
    BY <1>2, <1>4, <1>6
  <2> QED
    BY <1>1, <1>2, <2>1, ReparentAcyclic
<1>11. NamesUniqueIn(e)
  <2>1. ASSUME NEW x \in DOMAIN cs, NEW y \in DOMAIN cs,
               ds[x].room = ds[y].room, ds[x].name = ds[y].name
        PROVE  x = y
    <3>1. \A u \in DOMAIN cs \ T : ~(cs[u].room = room /\ \E v \in T : cs[u].name = cs[v].name)
      BY <1>3, <1>6 DEF ContainerNameTaken
    <3>2. \A u, v \in DOMAIN cs : cs[u].room = cs[v].room /\ cs[u].name = cs[v].name => u = v
      BY <1>6 DEF Household, NamesUniqueIn
    <3>3. CASE x \in T /\ y \in T
      <4>1. \A u \in T : cs[u].room = cs[c].room
        <5> DEFINE S == {u \in DOMAIN cs : cs[u].room = cs[c].room}
        <5>1. c \in S /\ \A u \in DOMAIN cs : cs[u].parent \in S => u \in S
          BY <1>2, <1>6 DEF Household, SubtreesShareRoom
        <5>2. T \subseteq S
          BY <5>1 DEF T, Subtree
        <5> QED
          BY <5>2
      <4> QED
        BY <1>4, <1>5, <2>1, <3>2, <3>3, <4>1
    <3>4. CASE x \notin T /\ y \notin T
      BY <1>4, <2>1, <3>2, <3>4
    <3>5. CASE (x \in T /\ y \notin T) \/ (x \notin T /\ y \in T)
      BY <1>4, <2>1, <3>1, <3>5
    <3> QED
      BY <3>3, <3>4, <3>5
  <2> QED
    BY <1>1, <1>4, <1>6, <2>1 DEF Household, NamesUniqueIn
<1>12. IdsBehindSequence(e)
  BY <1>1, <1>4, <1>6 DEF Household, IdsBehindSequence
<1> QED
  BY <1>7, <1>8, <1>9, <1>10, <1>11, <1>12 DEF Household, e

LEMMA ContainerDeleteSound ==
  ASSUME NEW d, Household(d), NEW c, ContainerDeleteChecks(d, c) = Ok
  PROVE  Household(ContainerDelete(d, c))
<1> DEFINE e == ContainerDelete(d, c)
<1> HIDE DEF e
<1>1. /\ e.containers = Without(d.containers, c) /\ e.lastContainer = d.lastContainer
      /\ e.rooms = d.rooms /\ e.items = d.items
      /\ e.lastRoom = d.lastRoom /\ e.lastItem = d.lastItem
  BY DEF ContainerDelete, SetContainers, e
<1>2. c \in DOMAIN d.containers /\ ~ContainerContents(d, c)
  BY DEF ContainerDeleteChecks, Ok, NotFound, Conflict
<1>3. IsDB(e)
  <2>1. IsTable(Without(d.containers, c), ContainerID, ContainerRow)
    BY WithoutTable DEF Household, IsDB
  <2> QED
    BY <2>1, SetContainersDB DEF Household, IsDB, ContainerDelete, e
<1>4. ReferencesExistIn(e)
  <2>1. \A i \in DOMAIN d.items : d.items[i].location \in Location
    BY DEF Household, IsDB, IsTable, ItemRow
  <2> QED
    BY <1>1, <1>2, <2>1 DEF Household, ReferencesExistIn, LocationExists, ContainerContents,
       Without, Location, RoomLocation, ContainerLocation
<1>5. SubtreesShareRoom(e)
  BY <1>1 DEF Household, SubtreesShareRoom, Without
<1>6. Acyclic(e.containers)
  BY <1>1 DEF Household, Acyclic, Without
<1>7. NamesUniqueIn(e) /\ IdsBehindSequence(e)
  BY <1>1 DEF Household, NamesUniqueIn, IdsBehindSequence, Without
<1> QED
  BY <1>3, <1>4, <1>5, <1>6, <1>7 DEF Household, e

-----------------------------------------------------------------------------
(* Items.                                                                  *)

\* A write to the items table keeps the household when it keeps the table's
\* type, the places, the names and the sequence.
LEMMA ItemsSound ==
  ASSUME NEW d, Household(d), NEW t, NEW last \in 0 .. MaxItem, IsTable(t, ItemID, ItemRow),
         \A i \in DOMAIN t : i <= last /\ LocationExists(d, t[i].location),
         \A i, j \in DOMAIN t :
           t[i].location = t[j].location /\ t[i].name = t[j].name => i = j
  PROVE  Household(SetItems(d, t, last))
<1> DEFINE e == SetItems(d, t, last)
<1>1. /\ e.items = t /\ e.lastItem = last
      /\ e.rooms = d.rooms /\ e.containers = d.containers
      /\ e.lastRoom = d.lastRoom /\ e.lastContainer = d.lastContainer
  BY DEF SetItems
<1>2. IsDB(e)
  BY SetItemsDB DEF Household
<1> HIDE DEF e
<1>3. ReferencesExistIn(e)
  BY <1>1 DEF Household, ReferencesExistIn, LocationExists
<1>4. SubtreesShareRoom(e) /\ Acyclic(e.containers)
  BY <1>1 DEF Household, SubtreesShareRoom
<1>5. NamesUniqueIn(e) /\ IdsBehindSequence(e)
  BY <1>1 DEF Household, NamesUniqueIn, IdsBehindSequence
<1> QED
  BY <1>2, <1>3, <1>4, <1>5 DEF Household, e

LEMMA ItemCreateSound ==
  ASSUME NEW d, Household(d), NEW row \in ItemRow, d.lastItem < MaxItem,
         ItemCreateChecks(d, row) = Ok, ItemCreateClash(d, row) = Ok
  PROVE  Household(ItemCreate(d, row))
<1> DEFINE i == d.lastItem + 1
           t == Put(d.items, i, row)
<1>1. d.lastItem \in Nat /\ i \in ItemID /\ i \in 0 .. MaxItem
  BY BoundsAssumption DEF Household, IsDB, ItemID
<1>2. IsTable(t, ItemID, ItemRow)
  BY <1>1, PutTable DEF Household, IsDB
<1>3. LocationExists(d, row.location) /\ ~ItemNameTaken(d, i, row.location, row.name)
  BY DEF ItemCreateChecks, ItemCreateClash, NewItem, Ok, NotFound, Conflict
<1>4. \A j \in DOMAIN t : j <= i /\ LocationExists(d, t[j].location)
  BY <1>1, <1>3, HouseholdIds DEF Household, ReferencesExistIn, IdsBehindSequence, Put, ItemID
<1>5. \A j, k \in DOMAIN t :
        t[j].location = t[k].location /\ t[j].name = t[k].name => j = k
  BY <1>3 DEF Household, NamesUniqueIn, ItemNameTaken, Put
<1> QED
  BY <1>1, <1>2, <1>4, <1>5, ItemsSound DEF ItemCreate, NewItem

LEMMA ItemUpdateSound ==
  ASSUME NEW d, Household(d), NEW i, NEW row \in ItemRow,
         ItemUpdateChecks(d, i, row) = Ok, ItemUpdateClash(d, i, row) = Ok
  PROVE  Household(ItemUpdate(d, i, row))
<1> DEFINE t == Put(d.items, i, row)
<1>1. /\ i \in DOMAIN d.items /\ LocationExists(d, row.location)
      /\ ~ItemNameTaken(d, i, row.location, row.name)
  BY DEF ItemUpdateChecks, ItemUpdateClash, Ok, NotFound, Conflict
<1>2. IsTable(t, ItemID, ItemRow)
  BY <1>1, PutTable, HouseholdIds DEF Household, IsDB
<1>3. \A j \in DOMAIN t : j <= d.lastItem /\ LocationExists(d, t[j].location)
  BY <1>1 DEF Household, ReferencesExistIn, IdsBehindSequence, Put
<1>4. \A j, k \in DOMAIN t :
        t[j].location = t[k].location /\ t[j].name = t[k].name => j = k
  BY <1>1 DEF Household, NamesUniqueIn, ItemNameTaken, Put
<1> QED
  BY <1>2, <1>3, <1>4, ItemsSound DEF ItemUpdate, Household, IsDB

LEMMA ItemMoveSound ==
  ASSUME NEW d, Household(d), NEW i, NEW to \in Location,
         ItemMoveChecks(d, i, to) = Ok, ItemMoveClash(d, i, to) = Ok
  PROVE  Household(ItemMove(d, i, to))
<1> DEFINE t == [d.items EXCEPT ![i].location = to]
<1>1. /\ i \in DOMAIN d.items /\ LocationExists(d, to)
      /\ ~ItemNameTaken(d, i, to, d.items[i].name)
  BY DEF ItemMoveChecks, ItemMoveClash, Ok, NotFound, Conflict
<1>2. IsTable(d.items, ItemID, ItemRow)
  BY DEF Household, IsDB
<1>3. /\ DOMAIN t = DOMAIN d.items /\ t = [j \in DOMAIN t |-> t[j]]
      /\ \A j \in DOMAIN t \ {i} : t[j] = d.items[j]
      /\ t[i] \in ItemRow /\ t[i].location = to /\ t[i].name = d.items[i].name
  BY <1>1, <1>2 DEF IsTable, ItemRow
<1> HIDE DEF t
<1>4. IsTable(t, ItemID, ItemRow)
  BY <1>2, <1>3 DEF IsTable
<1>5. \A j \in DOMAIN t : j <= d.lastItem /\ LocationExists(d, t[j].location)
  BY <1>1, <1>3 DEF Household, ReferencesExistIn, IdsBehindSequence
<1>6. \A j, k \in DOMAIN t :
        t[j].location = t[k].location /\ t[j].name = t[k].name => j = k
  BY <1>1, <1>3 DEF Household, NamesUniqueIn, ItemNameTaken
<1> QED
  BY <1>4, <1>5, <1>6, ItemsSound DEF ItemMove, Household, IsDB, t

LEMMA ItemDeleteSound ==
  ASSUME NEW d, Household(d), NEW i, ItemDeleteChecks(d, i) = Ok
  PROVE  Household(ItemDelete(d, i))
<1> DEFINE t == Without(d.items, i)
<1>1. IsTable(t, ItemID, ItemRow)
  BY WithoutTable DEF Household, IsDB
<1>2. \A j \in DOMAIN t : j <= d.lastItem /\ LocationExists(d, t[j].location)
  BY DEF Household, ReferencesExistIn, IdsBehindSequence, Without
<1>3. \A j, k \in DOMAIN t :
        t[j].location = t[k].location /\ t[j].name = t[k].name => j = k
  BY DEF Household, NamesUniqueIn, Without
<1> QED
  BY <1>1, <1>2, <1>3, ItemsSound DEF ItemDelete, Household, IsDB

LEMMA EmptyHousehold == Household(EmptyDB)
  BY BoundsAssumption DEF Household, EmptyDB, NoRows, IsDB, IsTable, ReferencesExistIn,
     SubtreesShareRoom, Acyclic, NamesUniqueIn, IdsBehindSequence

-----------------------------------------------------------------------------
(* Inventory reaches the operators of Store by an instance of its own: they *)
(* are the same.                                                            *)

LEMMA SameSets ==
  /\ INV!RoomID = RoomID /\ INV!ContainerID = ContainerID /\ INV!ItemID = ItemID
  /\ INV!Location = Location
  /\ INV!RoomRow = RoomRow /\ INV!ContainerRow = ContainerRow /\ INV!ItemRow = ItemRow
<1>1. INV!RoomID = RoomID /\ INV!ContainerID = ContainerID /\ INV!ItemID = ItemID
  BY DEF INV!RoomID, INV!ContainerID, INV!ItemID, RoomID, ContainerID, ItemID
<1>2. INV!Location = Location
  BY <1>1 DEF INV!Location, INV!RoomLocation, INV!ContainerLocation, Location, RoomLocation,
     ContainerLocation
<1> QED
  BY <1>1, <1>2 DEF INV!RoomRow, INV!ContainerRow, INV!ItemRow, RoomRow, ContainerRow, ItemRow

LEMMA SameTrees ==
  ASSUME NEW cs, NEW c
  PROVE  INV!Walk(cs, c) = Walk(cs, c) /\ INV!Subtree(cs, c) = Subtree(cs, c)
  BY DEF INV!Walk, INV!Subtree, Walk, Subtree

LEMMA SameRooms ==
  ASSUME NEW d, NEW r, NEW row
  PROVE  /\ INV!RoomCreateClash(d, row) = RoomCreateClash(d, row)
         /\ INV!RoomCreate(d, row) = RoomCreate(d, row)
         /\ INV!RoomUpdateClash(d, r, row) = RoomUpdateClash(d, r, row)
         /\ INV!RoomUpdate(d, r, row) = RoomUpdate(d, r, row)
         /\ INV!RoomDeleteChecks(d, r) = RoomDeleteChecks(d, r)
         /\ INV!RoomDelete(d, r) = RoomDelete(d, r)
<1> USE DEF INV!Put, INV!Without, INV!SetRooms, INV!NewRoom, INV!RoomNameTaken,
       INV!RoomContents, INV!RoomLocation, INV!Ok, INV!NotFound, INV!Conflict,
       Put, Without, SetRooms, NewRoom, RoomNameTaken, RoomContents, RoomLocation,
       Ok, NotFound, Conflict
<1>1. /\ INV!RoomCreateClash(d, row) = RoomCreateClash(d, row)
      /\ INV!RoomUpdateClash(d, r, row) = RoomUpdateClash(d, r, row)
      /\ INV!RoomDeleteChecks(d, r) = RoomDeleteChecks(d, r)
  BY DEF INV!RoomCreateClash, INV!RoomUpdateClash, INV!RoomDeleteChecks,
     RoomCreateClash, RoomUpdateClash, RoomDeleteChecks
<1>2. /\ INV!RoomCreate(d, row) = RoomCreate(d, row)
      /\ INV!RoomUpdate(d, r, row) = RoomUpdate(d, r, row)
      /\ INV!RoomDelete(d, r) = RoomDelete(d, r)
  BY DEF INV!RoomCreate, INV!RoomUpdate, INV!RoomDelete, RoomCreate, RoomUpdate, RoomDelete
<1> QED
  BY <1>1, <1>2

LEMMA SameContainers ==
  ASSUME NEW d, NEW c, NEW row, NEW to
  PROVE  /\ INV!ContainerCreateChecks(d, row) = ContainerCreateChecks(d, row)
         /\ INV!ContainerCreateClash(d, row) = ContainerCreateClash(d, row)
         /\ INV!ContainerCreate(d, row) = ContainerCreate(d, row)
         /\ INV!ContainerUpdateChecks(d, c, row) = ContainerUpdateChecks(d, c, row)
         /\ INV!ContainerUpdateClash(d, c, row) = ContainerUpdateClash(d, c, row)
         /\ INV!ContainerUpdated(d, c, row) = ContainerUpdated(d, c, row)
         /\ INV!ContainerUpdate(d, c, row) = ContainerUpdate(d, c, row)
         /\ INV!ContainerMoveChecks(d, c, to) = ContainerMoveChecks(d, c, to)
         /\ INV!ContainerMoveClash(d, c, to) = ContainerMoveClash(d, c, to)
         /\ INV!ContainerMove(d, c, to) = ContainerMove(d, c, to)
         /\ INV!ContainerDeleteChecks(d, c) = ContainerDeleteChecks(d, c)
         /\ INV!ContainerDelete(d, c) = ContainerDelete(d, c)
<1> USE DEF INV!Put, INV!Without, INV!SetContainers, INV!NewContainer, INV!ContainerNameTaken,
       INV!ParentInRoom, INV!ContainerContents, INV!ContainerLocation, INV!LocationExists,
       INV!RoomOf, INV!Ok, INV!NotFound, INV!Conflict, INV!Cycle, INV!Validation,
       Put, Without, SetContainers, NewContainer, ContainerNameTaken, ParentInRoom,
       ContainerContents, ContainerLocation, LocationExists, RoomOf,
       Ok, NotFound, Conflict, Cycle, Validation
<1>1. /\ INV!ContainerCreateChecks(d, row) = ContainerCreateChecks(d, row)
      /\ INV!ContainerUpdateChecks(d, c, row) = ContainerUpdateChecks(d, c, row)
      /\ INV!ContainerMoveChecks(d, c, to) = ContainerMoveChecks(d, c, to)
      /\ INV!ContainerDeleteChecks(d, c) = ContainerDeleteChecks(d, c)
  BY SameTrees DEF INV!ContainerCreateChecks, INV!ContainerUpdateChecks, INV!ContainerMoveChecks,
     INV!ContainerDeleteChecks, ContainerCreateChecks, ContainerUpdateChecks,
     ContainerMoveChecks, ContainerDeleteChecks
<1>2. /\ INV!ContainerCreateClash(d, row) = ContainerCreateClash(d, row)
      /\ INV!ContainerUpdateClash(d, c, row) = ContainerUpdateClash(d, c, row)
      /\ INV!ContainerMoveClash(d, c, to) = ContainerMoveClash(d, c, to)
  BY SameTrees DEF INV!ContainerCreateClash, INV!ContainerUpdateClash, INV!ContainerMoveClash,
     ContainerCreateClash, ContainerUpdateClash, ContainerMoveClash
<1>3. /\ INV!ContainerCreate(d, row) = ContainerCreate(d, row)
      /\ INV!ContainerUpdated(d, c, row) = ContainerUpdated(d, c, row)
      /\ INV!ContainerUpdate(d, c, row) = ContainerUpdate(d, c, row)
      /\ INV!ContainerDelete(d, c) = ContainerDelete(d, c)
  BY DEF INV!ContainerCreate, INV!ContainerUpdate, INV!ContainerUpdated, INV!ContainerDelete,
     ContainerCreate, ContainerUpdate, ContainerUpdated, ContainerDelete
<1>4. INV!ContainerMove(d, c, to) = ContainerMove(d, c, to)
  BY SameTrees DEF INV!ContainerMove, INV!Moved, ContainerMove, Moved
<1> QED
  BY <1>1, <1>2, <1>3, <1>4

LEMMA SameItems ==
  ASSUME NEW d, NEW i, NEW row, NEW to
  PROVE  /\ INV!ItemCreateChecks(d, row) = ItemCreateChecks(d, row)
         /\ INV!ItemCreateClash(d, row) = ItemCreateClash(d, row)
         /\ INV!ItemCreate(d, row) = ItemCreate(d, row)
         /\ INV!ItemUpdateChecks(d, i, row) = ItemUpdateChecks(d, i, row)
         /\ INV!ItemUpdateClash(d, i, row) = ItemUpdateClash(d, i, row)
         /\ INV!ItemUpdate(d, i, row) = ItemUpdate(d, i, row)
         /\ INV!ItemMoveChecks(d, i, to) = ItemMoveChecks(d, i, to)
         /\ INV!ItemMoveClash(d, i, to) = ItemMoveClash(d, i, to)
         /\ INV!ItemMove(d, i, to) = ItemMove(d, i, to)
         /\ INV!ItemDeleteChecks(d, i) = ItemDeleteChecks(d, i)
         /\ INV!ItemDelete(d, i) = ItemDelete(d, i)
<1> USE DEF INV!Put, INV!Without, INV!SetItems, INV!NewItem, INV!ItemNameTaken,
       INV!LocationExists, INV!Ok, INV!NotFound, INV!Conflict,
       Put, Without, SetItems, NewItem, ItemNameTaken, LocationExists, Ok, NotFound, Conflict
<1>1. /\ INV!ItemCreateChecks(d, row) = ItemCreateChecks(d, row)
      /\ INV!ItemUpdateChecks(d, i, row) = ItemUpdateChecks(d, i, row)
      /\ INV!ItemMoveChecks(d, i, to) = ItemMoveChecks(d, i, to)
      /\ INV!ItemDeleteChecks(d, i) = ItemDeleteChecks(d, i)
  BY DEF INV!ItemCreateChecks, INV!ItemUpdateChecks, INV!ItemMoveChecks, INV!ItemDeleteChecks,
     ItemCreateChecks, ItemUpdateChecks, ItemMoveChecks, ItemDeleteChecks
<1>2. /\ INV!ItemCreateClash(d, row) = ItemCreateClash(d, row)
      /\ INV!ItemUpdateClash(d, i, row) = ItemUpdateClash(d, i, row)
      /\ INV!ItemMoveClash(d, i, to) = ItemMoveClash(d, i, to)
  BY DEF INV!ItemCreateClash, INV!ItemUpdateClash, INV!ItemMoveClash,
     ItemCreateClash, ItemUpdateClash, ItemMoveClash
<1>3. /\ INV!ItemCreate(d, row) = ItemCreate(d, row)
      /\ INV!ItemUpdate(d, i, row) = ItemUpdate(d, i, row)
      /\ INV!ItemMove(d, i, to) = ItemMove(d, i, to)
      /\ INV!ItemDelete(d, i) = ItemDelete(d, i)
  BY DEF INV!ItemCreate, INV!ItemUpdate, INV!ItemMove, INV!ItemDelete,
     ItemCreate, ItemUpdate, ItemMove, ItemDelete
<1> QED
  BY <1>1, <1>2, <1>3

LEMMA SameEvents ==
  ASSUME NEW d, NEW type, NEW id, NEW row, NEW from, NEW to
  PROVE  /\ INV!StateEvent(type, id, row) = StateEvent(type, id, row)
         /\ INV!MoveEvent(type, id, from, to) = MoveEvent(type, id, from, to)
         /\ INV!Origin(d, id) = Origin(d, id)
         /\ INV!NewRoom(d) = NewRoom(d)
         /\ INV!NewContainer(d) = NewContainer(d)
         /\ INV!NewItem(d) = NewItem(d)
         /\ INV!Ok = Ok
  BY DEF INV!StateEvent, INV!MoveEvent, INV!Origin, INV!NewRoom, INV!NewContainer, INV!NewItem,
     INV!RoomLocation, INV!ContainerLocation, INV!Ok, StateEvent, MoveEvent, Origin, NewRoom,
     NewContainer, NewItem, RoomLocation, ContainerLocation, Ok

\* Every mutation of Inventory keeps the household.
LEMMA MutationSound ==
  ASSUME Household(db), INV!Next
  PROVE  Household(db')
<1> USE DEF INV!Commit, INV!Ok, Ok
<1>1. ASSUME NEW row \in RoomRow, INV!CreateRoom(row) PROVE Household(db')
  BY <1>1, RoomCreateSound, SameRooms DEF INV!CreateRoom
<1>2. ASSUME NEW r \in RoomID, NEW row \in RoomRow, INV!UpdateRoom(r, row) PROVE Household(db')
  BY <1>2, RoomUpdateSound, SameRooms DEF INV!UpdateRoom
<1>3. ASSUME NEW r \in RoomID, INV!DeleteRoom(r) PROVE Household(db')
  BY <1>3, RoomDeleteSound, SameRooms DEF INV!DeleteRoom
<1>4. ASSUME NEW row \in ContainerRow, INV!CreateContainer(row) PROVE Household(db')
  BY <1>4, ContainerCreateSound, SameContainers DEF INV!CreateContainer
<1>5. ASSUME NEW x \in ContainerID, NEW row \in ContainerRow, INV!UpdateContainer(x, row)
      PROVE  Household(db')
  BY <1>5, ContainerUpdateSound, SameContainers DEF INV!UpdateContainer
<1>6. ASSUME NEW x \in ContainerID, NEW to \in Location, INV!MoveContainer(x, to)
      PROVE  Household(db')
  BY <1>6, ContainerMoveSound, SameContainers DEF INV!MoveContainer
<1>7. ASSUME NEW x \in ContainerID, INV!DeleteContainer(x) PROVE Household(db')
  BY <1>7, ContainerDeleteSound, SameContainers DEF INV!DeleteContainer
<1>8. ASSUME NEW row \in ItemRow, INV!CreateItem(row) PROVE Household(db')
  BY <1>8, ItemCreateSound, SameItems DEF INV!CreateItem
<1>9. ASSUME NEW i \in ItemID, NEW row \in ItemRow, INV!UpdateItem(i, row) PROVE Household(db')
  BY <1>9, ItemUpdateSound, SameItems DEF INV!UpdateItem
<1>10. ASSUME NEW i \in ItemID, NEW to \in Location, INV!MoveItem(i, to) PROVE Household(db')
  BY <1>10, ItemMoveSound, SameItems DEF INV!MoveItem
<1>11. ASSUME NEW i \in ItemID, INV!DeleteItem(i) PROVE Household(db')
  BY <1>11, ItemDeleteSound, SameItems DEF INV!DeleteItem
<1>12. CASE INV!Read
  BY <1>12 DEF INV!Read, INV!vars
<1> QED
  BY <1>1, <1>2, <1>3, <1>4, <1>5, <1>6, <1>7, <1>8, <1>9, <1>10, <1>11, <1>12, SameSets
     DEF INV!Next

-----------------------------------------------------------------------------
(* The event log. One event replayed over the tables gives the tables      *)
(* after its mutation.                                                     *)

\* Replaying the two places of a container move gives the tree that the move
\* left, although the payload does not list the containers that went along.
LEMMA ReplayMove ==
  ASSUME NEW d, NEW c \in DOMAIN d.containers, NEW to
  PROVE  INV!ReplayContainerMove(INV!Tables(d), c, to) = ContainerMove(d, c, to).containers
<1> DEFINE cs == d.containers
<1>1. INV!Tables(d).containers = cs
  BY DEF INV!Tables, INV!View
<1>2. \A x \in DOMAIN cs : c \in INV!Walk(cs, x) <=> x \in Subtree(cs, c)
  BY WalkSubtree, SameTrees
<1>3. ContainerMove(d, c, to).containers =
        Moved(cs, c, RoomOf(d, to), IF to.kind = "room" THEN Nil ELSE to.id)
  BY DEF ContainerMove, SetContainers
<1> QED
  BY <1>1, <1>2, <1>3 DEF INV!ReplayContainerMove, Moved, RoomOf

LEMMA ReplayRooms ==
  ASSUME NEW d, NEW r, NEW row, NEW gone
  PROVE  /\ INV!Replay(INV!Tables(d), StateEvent("room.created", NewRoom(d), row))
              = INV!Tables(RoomCreate(d, row))
         /\ INV!Replay(INV!Tables(d), StateEvent("room.updated", r, row))
              = INV!Tables(RoomUpdate(d, r, row))
         /\ INV!Replay(INV!Tables(d), StateEvent("room.deleted", r, gone))
              = INV!Tables(RoomDelete(d, r))
  BY DEF INV!Replay, StateEvent, INV!Tables, INV!View, RoomCreate, RoomUpdate, RoomDelete, SetRooms,
     INV!Put, INV!Without, Put, Without

LEMMA ReplayContainers ==
  ASSUME NEW d, NEW c, NEW row, NEW gone
  PROVE  /\ INV!Replay(INV!Tables(d), StateEvent("container.created", NewContainer(d), row))
              = INV!Tables(ContainerCreate(d, row))
         /\ INV!Replay(INV!Tables(d), StateEvent("container.updated", c, ContainerUpdated(d, c, row)))
              = INV!Tables(ContainerUpdate(d, c, row))
         /\ INV!Replay(INV!Tables(d), StateEvent("container.deleted", c, gone))
              = INV!Tables(ContainerDelete(d, c))
  BY DEF INV!Replay, StateEvent, INV!Tables, INV!View, ContainerCreate, ContainerUpdate,
     ContainerDelete, SetContainers, INV!Put, INV!Without, Put, Without

LEMMA ReplayContainerMoved ==
  ASSUME NEW d, NEW c \in DOMAIN d.containers, NEW from, NEW to
  PROVE  INV!Replay(INV!Tables(d), MoveEvent("container.moved", c, from, to))
           = INV!Tables(ContainerMove(d, c, to))
<1>1. INV!Replay(INV!Tables(d), MoveEvent("container.moved", c, from, to))
        = INV!View(d.rooms, INV!ReplayContainerMove(INV!Tables(d), c, to), d.items)
  BY DEF INV!Replay, MoveEvent, INV!Tables, INV!View
<1>2. INV!Tables(ContainerMove(d, c, to))
        = INV!View(d.rooms, ContainerMove(d, c, to).containers, d.items)
  BY DEF INV!Tables, ContainerMove, SetContainers
<1> QED
  BY <1>1, <1>2, ReplayMove

LEMMA ReplayItems ==
  ASSUME NEW d, NEW i, NEW row, NEW from, NEW to
  PROVE  /\ INV!Replay(INV!Tables(d), StateEvent("item.created", NewItem(d), row))
              = INV!Tables(ItemCreate(d, row))
         /\ INV!Replay(INV!Tables(d), StateEvent("item.updated", i, row))
              = INV!Tables(ItemUpdate(d, i, row))
         /\ INV!Replay(INV!Tables(d), StateEvent("item.deleted", i, row))
              = INV!Tables(ItemDelete(d, i))
         /\ INV!Replay(INV!Tables(d), MoveEvent("item.moved", i, from, to))
              = INV!Tables(ItemMove(d, i, to))
  BY DEF INV!Replay, StateEvent, MoveEvent, INV!Tables, INV!View, ItemCreate, ItemUpdate,
     ItemDelete, ItemMove, SetItems, INV!Put, INV!Without, Put, Without

\* Every mutation records the event that rebuilds it.
LEMMA MutationRecorded ==
  ASSUME audit = INV!Tables(db), INV!Next
  PROVE  audit' = INV!Tables(db')
<1> USE DEF INV!Commit
<1>1. ASSUME NEW row \in RoomRow, INV!CreateRoom(row) PROVE audit' = INV!Tables(db')
  BY <1>1, ReplayRooms, SameRooms, SameEvents DEF INV!CreateRoom
<1>2. ASSUME NEW r \in RoomID, NEW row \in RoomRow, INV!UpdateRoom(r, row)
      PROVE  audit' = INV!Tables(db')
  BY <1>2, ReplayRooms, SameRooms, SameEvents DEF INV!UpdateRoom
<1>3. ASSUME NEW r \in RoomID, INV!DeleteRoom(r) PROVE audit' = INV!Tables(db')
  BY <1>3, ReplayRooms, SameRooms, SameEvents DEF INV!DeleteRoom
<1>4. ASSUME NEW row \in ContainerRow, INV!CreateContainer(row) PROVE audit' = INV!Tables(db')
  BY <1>4, ReplayContainers, SameContainers, SameEvents DEF INV!CreateContainer
<1>5. ASSUME NEW x \in ContainerID, NEW row \in ContainerRow, INV!UpdateContainer(x, row)
      PROVE  audit' = INV!Tables(db')
  BY <1>5, ReplayContainers, SameContainers, SameEvents DEF INV!UpdateContainer
<1>6. ASSUME NEW x \in ContainerID, NEW to \in Location, INV!MoveContainer(x, to)
      PROVE  audit' = INV!Tables(db')
  <2>1. /\ ContainerMoveChecks(db, x, to) = Ok
        /\ db' = ContainerMove(db, x, to)
        /\ audit' = INV!Replay(audit, MoveEvent("container.moved", x, Origin(db.containers, x), to))
    BY <1>6, SameContainers, SameEvents DEF INV!MoveContainer
  <2>2. x \in DOMAIN db.containers
    BY <2>1 DEF ContainerMoveChecks, Ok, NotFound
  <2> QED
    BY <2>1, <2>2, ReplayContainerMoved
<1>7. ASSUME NEW x \in ContainerID, INV!DeleteContainer(x) PROVE audit' = INV!Tables(db')
  BY <1>7, ReplayContainers, SameContainers, SameEvents DEF INV!DeleteContainer
<1>8. ASSUME NEW row \in ItemRow, INV!CreateItem(row) PROVE audit' = INV!Tables(db')
  BY <1>8, ReplayItems, SameItems, SameEvents DEF INV!CreateItem
<1>9. ASSUME NEW i \in ItemID, NEW row \in ItemRow, INV!UpdateItem(i, row)
      PROVE  audit' = INV!Tables(db')
  BY <1>9, ReplayItems, SameItems, SameEvents DEF INV!UpdateItem
<1>10. ASSUME NEW i \in ItemID, NEW to \in Location, INV!MoveItem(i, to)
       PROVE  audit' = INV!Tables(db')
  BY <1>10, ReplayItems, SameItems, SameEvents DEF INV!MoveItem
<1>11. ASSUME NEW i \in ItemID, INV!DeleteItem(i) PROVE audit' = INV!Tables(db')
  <2>1. /\ db' = ItemDelete(db, i)
        /\ audit' = INV!Replay(audit, StateEvent("item.deleted", i, db.items[i]))
    BY <1>11, SameItems, SameEvents DEF INV!DeleteItem
  <2> QED
    BY <2>1, ReplayItems
<1>12. CASE INV!Read
  BY <1>12 DEF INV!Read, INV!vars
<1> QED
  BY <1>1, <1>2, <1>3, <1>4, <1>5, <1>6, <1>7, <1>8, <1>9, <1>10, <1>11, <1>12, SameSets
     DEF INV!Next

-----------------------------------------------------------------------------
(* The theorems about Inventory.                                           *)

RecordedHousehold == Household(db) /\ audit = INV!Tables(db)

\* The inductive invariant holds in every reachable state.
THEOREM InventoryInvariance == INV!Spec => []RecordedHousehold
<1>1. INV!Init => RecordedHousehold
  BY EmptyHousehold DEF INV!Init, INV!EmptyDB, INV!NoRows, EmptyDB, NoRows, RecordedHousehold
<1>2. RecordedHousehold /\ [INV!Next]_(INV!vars) => RecordedHousehold'
  <2> SUFFICES ASSUME RecordedHousehold, [INV!Next]_(INV!vars) PROVE RecordedHousehold'
    OBVIOUS
  <2>1. CASE INV!Next
    BY <2>1, MutationSound, MutationRecorded DEF RecordedHousehold
  <2>2. CASE UNCHANGED INV!vars
    BY <2>2 DEF INV!vars, RecordedHousehold
  <2> QED
    BY <2>1, <2>2
<1> QED
  BY <1>1, <1>2, PTL DEF INV!Spec

\* The database and what the log rebuilds are tables of well-formed rows.
THEOREM InventoryTypeCorrect == INV!Spec => []TablesOK
<1>1. ASSUME RecordedHousehold PROVE TablesOK
  <2>1. IsDB(db) /\ audit = [rooms |-> db.rooms, containers |-> db.containers, items |-> db.items]
    BY <1>1 DEF RecordedHousehold, Household, INV!Tables, INV!View
  <2> QED
    BY <2>1 DEF TablesOK, Tables, View, IsDB
<1> QED
  BY <1>1, InventoryInvariance, PTL

\* No reachable household has a dangling room, parent or place.
THEOREM NoDanglingReference == INV!Spec => []ReferencesExist
<1>1. RecordedHousehold => ReferencesExist
  BY DEF RecordedHousehold, Household, ReferencesExist
<1> QED
  BY <1>1, InventoryInvariance, PTL

\* A nested container is in its parent's room, whatever was moved where.
THEOREM NestedSharesRoom == INV!Spec => []SubtreeSharesRoom
<1>1. RecordedHousehold => SubtreeSharesRoom
  BY DEF RecordedHousehold, Household, SubtreeSharesRoom
<1> QED
  BY <1>1, InventoryInvariance, PTL

\* A container never becomes its own ancestor.
THEOREM NeverOwnAncestor == INV!Spec => []NoCycle
<1>1. RecordedHousehold => NoCycle
  BY DEF RecordedHousehold, Household, NoCycle
<1> QED
  BY <1>1, InventoryInvariance, PTL

\* Names stay unique in their scope.
THEOREM NamesStayUnique == INV!Spec => []NamesUnique
<1>1. RecordedHousehold => NamesUnique
  BY DEF RecordedHousehold, Household, NamesUnique
<1> QED
  BY <1>1, InventoryInvariance, PTL

\* The event log always rebuilds the inventory.
THEOREM AuditComplete == INV!Spec => []AuditRebuildsInventory
<1>1. RecordedHousehold => AuditRebuildsInventory
  BY DEF RecordedHousehold, AuditRebuildsInventory, INV!Tables, INV!View, Tables, View
<1> QED
  BY <1>1, InventoryInvariance, PTL

-----------------------------------------------------------------------------
(* One thing moves. What an action relocates is bounded by the table it     *)
(* writes, and by the row.                                                  *)

LEMMA NothingRelocated ==
  ASSUME \A x \in DOMAIN db.containers \cap DOMAIN db'.containers :
           Origin(db'.containers, x) = Origin(db.containers, x),
         \A x \in DOMAIN db.items \cap DOMAIN db'.items :
           db'.items[x].location = db.items[x].location
  PROVE  \A x, y \in Relocated : x = y
  BY DEF Relocated

LEMMA ContainerRelocated ==
  ASSUME NEW c,
         \A x \in (DOMAIN db.containers \cap DOMAIN db'.containers) \ {c} :
           Origin(db'.containers, x) = Origin(db.containers, x),
         db'.items = db.items
  PROVE  \A x, y \in Relocated : x = y
  BY DEF Relocated

LEMMA ItemRelocated ==
  ASSUME NEW i,
         \A x \in (DOMAIN db.items \cap DOMAIN db'.items) \ {i} :
           db'.items[x].location = db.items[x].location,
         db'.containers = db.containers
  PROVE  \A x, y \in Relocated : x = y
  BY DEF Relocated

\* What follows a container that moves hangs from the same parent as before.
LEMMA MoveRelocates ==
  ASSUME Household(db), NEW c \in ContainerID, NEW to \in Location, INV!MoveContainer(c, to)
  PROVE  \A x, y \in Relocated : x = y
<1> DEFINE cs == db.containers
           ds == Moved(cs, c, RoomOf(db, to), IF to.kind = "room" THEN Nil ELSE to.id)
<1>1. ContainerMoveChecks(db, c, to) = Ok /\ db' = ContainerMove(db, c, to)
  BY SameContainers, SameEvents DEF INV!MoveContainer, INV!Commit
<1>2. db'.containers = ds /\ db'.items = db.items /\ c \in DOMAIN cs
  BY <1>1 DEF ContainerMove, SetContainers, ContainerMoveChecks, Ok, NotFound, Cycle
<1>3. ASSUME NEW x \in DOMAIN cs \ {c} PROVE Origin(ds, x) = Origin(cs, x)
  <2>1. ds[x].parent = cs[x].parent
    BY <1>3 DEF Moved
  <2>2. CASE x \in Subtree(cs, c)
    <3>1. cs[x].parent \in DOMAIN cs
      BY <1>2, <1>3, <2>2, SubtreeParents, SubtreeFacts
    <3>2. cs[x].parent # Nil
      BY <3>1, HouseholdIds
    <3> QED
      BY <2>1, <3>2 DEF Origin
  <2>3. CASE x \notin Subtree(cs, c)
    <3>1. ds[x].room = cs[x].room
      BY <1>3, <2>3 DEF Moved
    <3> QED
      BY <2>1, <3>1 DEF Origin
  <2> QED
    BY <2>2, <2>3
<1>4. DOMAIN ds = DOMAIN cs
  BY DEF Moved
<1> HIDE DEF ds
<1> QED
  BY <1>2, <1>3, <1>4, ContainerRelocated

LEMMA MutationRelocates ==
  ASSUME Household(db), INV!Next
  PROVE  \A x, y \in Relocated : x = y
<1> USE DEF INV!Commit
<1>1. ASSUME NEW row \in RoomRow, INV!CreateRoom(row) PROVE \A x, y \in Relocated : x = y
  <2>1. db'.containers = db.containers /\ db'.items = db.items
    BY <1>1, SameRooms, SameEvents DEF INV!CreateRoom, RoomCreate, SetRooms
  <2> QED
    BY <2>1, NothingRelocated
<1>2. ASSUME NEW r \in RoomID, NEW row \in RoomRow, INV!UpdateRoom(r, row)
      PROVE  \A x, y \in Relocated : x = y
  <2>1. db'.containers = db.containers /\ db'.items = db.items
    BY <1>2, SameRooms, SameEvents DEF INV!UpdateRoom, RoomUpdate, SetRooms
  <2> QED
    BY <2>1, NothingRelocated
<1>3. ASSUME NEW r \in RoomID, INV!DeleteRoom(r) PROVE \A x, y \in Relocated : x = y
  <2>1. db'.containers = db.containers /\ db'.items = db.items
    BY <1>3, SameRooms, SameEvents DEF INV!DeleteRoom, RoomDelete, SetRooms
  <2> QED
    BY <2>1, NothingRelocated
<1>4. ASSUME NEW row \in ContainerRow, INV!CreateContainer(row)
      PROVE  \A x, y \in Relocated : x = y
  <2>1. db'.containers = Put(db.containers, NewContainer(db), row) /\ db'.items = db.items
    BY <1>4, SameContainers, SameEvents DEF INV!CreateContainer, ContainerCreate, SetContainers
  <2>2. \A x \in (DOMAIN db.containers \cap DOMAIN db'.containers) \ {NewContainer(db)} :
          Origin(db'.containers, x) = Origin(db.containers, x)
    BY <2>1 DEF Put, Origin
  <2> QED
    BY <2>1, <2>2, ContainerRelocated
<1>5. ASSUME NEW c \in ContainerID, NEW row \in ContainerRow, INV!UpdateContainer(c, row)
      PROVE  \A x, y \in Relocated : x = y
  <2>1. /\ db'.containers = Put(db.containers, c, ContainerUpdated(db, c, row))
        /\ db'.items = db.items
    BY <1>5, SameContainers, SameEvents DEF INV!UpdateContainer, ContainerUpdate, SetContainers
  <2>2. \A x \in (DOMAIN db.containers \cap DOMAIN db'.containers) \ {c} :
          Origin(db'.containers, x) = Origin(db.containers, x)
    BY <2>1 DEF Put, Origin
  <2> QED
    BY <2>1, <2>2, ContainerRelocated
<1>6. ASSUME NEW c \in ContainerID, NEW to \in Location, INV!MoveContainer(c, to)
      PROVE  \A x, y \in Relocated : x = y
  BY <1>6, MoveRelocates
<1>7. ASSUME NEW c \in ContainerID, INV!DeleteContainer(c) PROVE \A x, y \in Relocated : x = y
  <2>1. db'.containers = Without(db.containers, c) /\ db'.items = db.items
    BY <1>7, SameContainers, SameEvents DEF INV!DeleteContainer, ContainerDelete, SetContainers
  <2>2. \A x \in (DOMAIN db.containers \cap DOMAIN db'.containers) \ {c} :
          Origin(db'.containers, x) = Origin(db.containers, x)
    BY <2>1 DEF Without, Origin
  <2> QED
    BY <2>1, <2>2, ContainerRelocated
<1>8. ASSUME NEW row \in ItemRow, INV!CreateItem(row) PROVE \A x, y \in Relocated : x = y
  <2>1. db'.items = Put(db.items, NewItem(db), row) /\ db'.containers = db.containers
    BY <1>8, SameItems, SameEvents DEF INV!CreateItem, ItemCreate, SetItems
  <2>2. \A x \in (DOMAIN db.items \cap DOMAIN db'.items) \ {NewItem(db)} :
          db'.items[x].location = db.items[x].location
    BY <2>1 DEF Put
  <2> QED
    BY <2>1, <2>2, ItemRelocated
<1>9. ASSUME NEW i \in ItemID, NEW row \in ItemRow, INV!UpdateItem(i, row)
      PROVE  \A x, y \in Relocated : x = y
  <2>1. db'.items = Put(db.items, i, row) /\ db'.containers = db.containers
    BY <1>9, SameItems, SameEvents DEF INV!UpdateItem, ItemUpdate, SetItems
  <2>2. \A x \in (DOMAIN db.items \cap DOMAIN db'.items) \ {i} :
          db'.items[x].location = db.items[x].location
    BY <2>1 DEF Put
  <2> QED
    BY <2>1, <2>2, ItemRelocated
<1>10. ASSUME NEW i \in ItemID, NEW to \in Location, INV!MoveItem(i, to)
       PROVE  \A x, y \in Relocated : x = y
  <2>1. db'.items = [db.items EXCEPT ![i].location = to] /\ db'.containers = db.containers
    <3>1. db' = ItemMove(db, i, to)
      BY <1>10, SameItems DEF INV!MoveItem
    <3> QED
      BY <3>1 DEF ItemMove, SetItems
  <2>2. \A x \in (DOMAIN db.items \cap DOMAIN db'.items) \ {i} :
          db'.items[x].location = db.items[x].location
    BY <2>1
  <2> QED
    BY <2>1, <2>2, ItemRelocated
<1>11. ASSUME NEW i \in ItemID, INV!DeleteItem(i) PROVE \A x, y \in Relocated : x = y
  <2>1. db'.items = Without(db.items, i) /\ db'.containers = db.containers
    BY <1>11, SameItems, SameEvents DEF INV!DeleteItem, ItemDelete, SetItems
  <2>2. \A x \in (DOMAIN db.items \cap DOMAIN db'.items) \ {i} :
          db'.items[x].location = db.items[x].location
    BY <2>1 DEF Without
  <2> QED
    BY <2>1, <2>2, ItemRelocated
<1>12. CASE INV!Read
  BY <1>12, NothingRelocated DEF INV!Read, INV!vars
<1> QED
  BY <1>1, <1>2, <1>3, <1>4, <1>5, <1>6, <1>7, <1>8, <1>9, <1>10, <1>11, <1>12, SameSets
     DEF INV!Next

\* One call relocates one thing, and what it carries along stays inside it.
THEOREM OneThingRelocates == INV!Spec => OneThingMoves
<1>1. RecordedHousehold /\ [INV!Next]_(INV!vars)
        => [\A x, y \in Relocated : x = y]_(INV!vars)
  BY MutationRelocates DEF RecordedHousehold
<1> QED
  BY <1>1, InventoryInvariance, PTL DEF INV!Spec, INV!vars, OneThingMoves
=============================================================================
