---------------------------- MODULE BackupProofs ----------------------------
(***************************************************************************)
(* An import, whatever documents it is given and wherever it stops, leaves *)
(* the inventory a household, touches only what its document mentions, and *)
(* once it has finished an export gives the document back.                 *)
(*                                                                         *)
(* The inductive invariant says what an import in progress may rely on:    *)
(* each name it knows is that of a live row, where the document says it    *)
(* is; different names are of different rows; and every entry that it has  *)
(* applied still stands as written. Entries are told apart by their names  *)
(* as spelled, so that no two of them become the same row needs the order  *)
(* and the uniqueness the database enforces.                               *)
(***************************************************************************)
EXTENDS Backup, InventoryProofs, FiniteSetTheorems

(* What an import knows: of the database b, by way of w.                   *)

KnowsRooms(b, w) ==
  \A n \in DOMAIN w.rooms :
    w.rooms[n] \in DOMAIN b.rooms /\ b.rooms[w.rooms[n]].name = n

KnowsContainers(b, w) ==
  /\ \A k \in DOMAIN w.containers :
       /\ k \in ContainerKeys /\ k.room \in DOMAIN w.rooms
       /\ w.containers[k] \in DOMAIN b.containers
       /\ b.containers[w.containers[k]].name = Trim[k.name]
       /\ b.containers[w.containers[k]].room = w.rooms[k.room]
  /\ \A k, l \in DOMAIN w.containers : w.containers[k] = w.containers[l] => k = l

\* The row an item's key points at.
Place(w, k) ==
  IF k.kind = "room" THEN RoomLocation(w.rooms[k.room])
  ELSE ContainerLocation(w.containers[ContainerKey(k.room, k.container)])

KnowsPlace(w, k) ==
  IF k.kind = "room" THEN k.room \in DOMAIN w.rooms
  ELSE ContainerKey(k.room, k.container) \in DOMAIN w.containers

KnowsItems(b, w) ==
  \A k \in DOMAIN w.items :
    /\ k \in ItemKeys /\ KnowsPlace(w, k)
    /\ w.items[k] \in DOMAIN b.items
    /\ b.items[w.items[k]].name = k.name
    /\ b.items[w.items[k]].location = Place(w, k)

Knows(b, w) ==
  /\ w = [rooms |-> w.rooms, containers |-> w.containers, items |-> w.items]
  /\ KnowsRooms(b, w) /\ KnowsContainers(b, w) /\ KnowsItems(b, w)

(* An entry of d stands in b as it is written, at the row that is named.   *)

RoomStands(b, d, n, r) ==
  r \in DOMAIN b.rooms /\ b.rooms[r] = [name |-> Trim[n], detail |-> Stored[d.rooms[n]]]

ContainerStands(b, d, k, c) ==
  /\ c \in DOMAIN b.containers
  /\ KeyOf(b, c) = StoredContainer(k)
  /\ b.containers[c].detail = Stored[d.containers[k].detail]
  /\ IF d.containers[k].parent = NoName THEN b.containers[c].parent = Nil
     ELSE /\ b.containers[c].parent \in DOMAIN b.containers
          /\ b.containers[b.containers[c].parent].name = Trim[d.containers[k].parent]

ItemStands(b, d, k, i) ==
  /\ i \in DOMAIN b.items
  /\ ItemKeyOf(b, i) = StoredItem(k)
  /\ b.items[i].detail = Stored[d.items[k]]

\* Every entry of d, or only those that e holds.
RoomsStand(b, d, e) ==
  \A n \in DOMAIN d.rooms : <<"room", n>> \in e => \E r \in RoomID : RoomStands(b, d, n, r)
ContainersStand(b, d, e) ==
  \A k \in DOMAIN d.containers :
    <<"container", k>> \in e => \E c \in ContainerID : ContainerStands(b, d, k, c)
ItemsStand(b, d, e) ==
  \A k \in DOMAIN d.items : <<"item", k>> \in e => \E i \in ItemID : ItemStands(b, d, k, i)

Entries(d) ==
  {<<"room", n>> : n \in DOMAIN d.rooms} \cup {<<"container", k>> : k \in DOMAIN d.containers}
  \cup {<<"item", k>> : k \in DOMAIN d.items}

Stand(b, d, e) == RoomsStand(b, d, e) /\ ContainersStand(b, d, e) /\ ItemsStand(b, d, e)

\* No two entries are stored as one row.
RoomsApart(d)      == \A n, m \in DOMAIN d.rooms : Trim[n] = Trim[m] => n = m
ContainersApart(d) ==
  \A k, l \in DOMAIN d.containers : StoredContainer(k) = StoredContainer(l) => k = l
ItemsApart(d)      == \A k, l \in DOMAIN d.items : StoredItem(k) = StoredItem(l) => k = l

Applying ==
  /\ doc \in Documents /\ Knows(db, world) /\ Accepts(doc, world)
  /\ \A n \in DOMAIN doc.rooms : <<"room", n>> \in done => Trim[n] \in DOMAIN world.rooms
  /\ \A k \in DOMAIN doc.containers : <<"container", k>> \in done => k \in DOMAIN world.containers
  /\ Stand(db, doc, done)

Settled ==
  /\ doc \in Documents
  /\ RoomsApart(doc) /\ ContainersApart(doc) /\ ItemsApart(doc)
  /\ Stand(db, doc, Entries(doc))

AsExported(d) ==
  /\ \A n \in DOMAIN d.rooms : Trim[n] = n /\ Stored[d.rooms[n]] = d.rooms[n]
  /\ \A k \in DOMAIN d.containers :
       /\ StoredContainer(k) = k /\ Kept(d.containers[k].parent) = d.containers[k].parent
       /\ Stored[d.containers[k].detail] = d.containers[k].detail
  /\ \A k \in DOMAIN d.items : StoredItem(k) = k /\ Stored[d.items[k]] = d.items[k]

\* An import of what an export wrote, while the inventory is what it was.
Quiet == AsExported(doc) => world = World(db) /\ ~wrote

IInv ==
  /\ TypeOK /\ Household(db)
  /\ status = "applying" => Applying
  /\ settled => Settled
  /\ settled /\ status = "applying" => Quiet

-----------------------------------------------------------------------------
(* Keys. Each row has one, and no two rows of a kind have the same.        *)

LEMMA UniqueKeys ==
  ASSUME NEW b, Household(b)
  PROVE  /\ \A r, s \in DOMAIN b.rooms : RoomName(b, r) = RoomName(b, s) => r = s
         /\ \A c, e \in DOMAIN b.containers : KeyOf(b, c) = KeyOf(b, e) => c = e
         /\ \A i, j \in DOMAIN b.items : ItemKeyOf(b, i) = ItemKeyOf(b, j) => i = j
<1>1. \A r, s \in DOMAIN b.rooms : RoomName(b, r) = RoomName(b, s) => r = s
  BY DEF Household, NamesUniqueIn, RoomName
<1>2. ASSUME NEW c \in DOMAIN b.containers, NEW e \in DOMAIN b.containers,
             KeyOf(b, c) = KeyOf(b, e)
      PROVE  c = e
  <2>1. /\ RoomName(b, b.containers[c].room) = RoomName(b, b.containers[e].room)
        /\ b.containers[c].name = b.containers[e].name
    BY <1>2 DEF KeyOf, ContainerKey
  <2>2. b.containers[c].room = b.containers[e].room
    BY <1>1, <2>1 DEF Household, ReferencesExistIn
  <2> QED BY <2>1, <2>2 DEF Household, NamesUniqueIn
<1>3. ASSUME NEW i \in DOMAIN b.items, NEW j \in DOMAIN b.items,
             ItemKeyOf(b, i) = ItemKeyOf(b, j)
      PROVE  i = j
  <2> DEFINE at == b.items[i].location  to == b.items[j].location
  <2>1. /\ at \in Location /\ to \in Location
        /\ LocationExists(b, at) /\ LocationExists(b, to)
    BY DEF Household, IsDB, IsTable, ItemRow, ReferencesExistIn
  <2>2. at.kind = to.kind /\ b.items[i].name = b.items[j].name
    BY <1>3, <2>1 DEF ItemKeyOf, ItemKey, Location, RoomLocation, ContainerLocation
  <2>3. CASE at.kind = "room"
    <3>1. RoomName(b, at.id) = RoomName(b, to.id)
      BY <1>3, <2>2, <2>3 DEF ItemKeyOf, ItemKey
    <3>2. at.id = to.id
      BY <1>1, <2>1, <2>2, <2>3, <3>1 DEF LocationExists
    <3> QED BY <2>1, <2>2, <3>2
         DEF Household, NamesUniqueIn, Location, RoomLocation, ContainerLocation
  <2>4. CASE at.kind # "room"
    <3>1. KeyOf(b, at.id) = KeyOf(b, to.id)
      BY <1>3, <2>2, <2>4 DEF ItemKeyOf, ItemKey, KeyOf, ContainerKey
    <3>2. at.id = to.id
      BY <1>2, <2>1, <2>2, <2>4, <3>1 DEF LocationExists
    <3> QED BY <2>1, <2>2, <3>2
         DEF Household, NamesUniqueIn, Location, RoomLocation, ContainerLocation
  <2> QED BY <2>3, <2>4
<1> QED BY <1>1, <1>2, <1>3

\* So the listings find each row by its key.
LEMMA WorldFinds ==
  ASSUME NEW b, Household(b)
  PROVE  LET w == World(b) IN
         /\ DOMAIN w.rooms = {RoomName(b, r) : r \in DOMAIN b.rooms}
         /\ DOMAIN w.containers = {KeyOf(b, c) : c \in DOMAIN b.containers}
         /\ DOMAIN w.items = {ItemKeyOf(b, i) : i \in DOMAIN b.items}
         /\ \A r \in DOMAIN b.rooms : w.rooms[RoomName(b, r)] = r
         /\ \A c \in DOMAIN b.containers : w.containers[KeyOf(b, c)] = c
         /\ \A i \in DOMAIN b.items : w.items[ItemKeyOf(b, i)] = i
<1>1. \A S, x : S = {x} => TheOne(S) = x
  BY DEF TheOne
<1>2. \A r \in DOMAIN b.rooms : {s \in DOMAIN b.rooms : RoomName(b, s) = RoomName(b, r)} = {r}
  BY UniqueKeys
<1>3. \A c \in DOMAIN b.containers :
        {e \in DOMAIN b.containers : KeyOf(b, e) = KeyOf(b, c)} = {c}
  BY UniqueKeys
<1>4. \A i \in DOMAIN b.items : {j \in DOMAIN b.items : ItemKeyOf(b, j) = ItemKeyOf(b, i)} = {i}
  BY UniqueKeys
<1> QED BY <1>1, <1>2, <1>3, <1>4 DEF World

LEMMA ExportRow ==
  ASSUME NEW b, Household(b)
  PROVE  LET now == Export(b) IN
         /\ DOMAIN now.rooms = {RoomName(b, r) : r \in DOMAIN b.rooms}
         /\ DOMAIN now.containers = {KeyOf(b, c) : c \in DOMAIN b.containers}
         /\ DOMAIN now.items = {ItemKeyOf(b, i) : i \in DOMAIN b.items}
         /\ \A r \in DOMAIN b.rooms : now.rooms[RoomName(b, r)] = b.rooms[r].detail
         /\ \A c \in DOMAIN b.containers :
              now.containers[KeyOf(b, c)] =
                [parent |-> IF b.containers[c].parent = Nil THEN NoName
                            ELSE b.containers[b.containers[c].parent].name,
                 detail |-> b.containers[c].detail]
         /\ \A i \in DOMAIN b.items : now.items[ItemKeyOf(b, i)] = b.items[i].detail
BY WorldFinds DEF Export

-----------------------------------------------------------------------------
(* Growth: rows come, and none of them goes, or changes its name or place. *)

Grows(b, f) ==
  /\ \A r \in DOMAIN b.rooms : r \in DOMAIN f.rooms /\ f.rooms[r].name = b.rooms[r].name
  /\ \A c \in DOMAIN b.containers :
       /\ c \in DOMAIN f.containers
       /\ f.containers[c].name = b.containers[c].name
       /\ f.containers[c].room = b.containers[c].room
  /\ \A i \in DOMAIN b.items :
       /\ i \in DOMAIN f.items
       /\ f.items[i].name = b.items[i].name
       /\ f.items[i].location = b.items[i].location

LEMMA GrowthKeepsKeys ==
  ASSUME NEW b, NEW f, Household(b), Grows(b, f)
  PROVE  /\ \A r \in DOMAIN b.rooms : RoomName(f, r) = RoomName(b, r)
         /\ \A c \in DOMAIN b.containers : KeyOf(f, c) = KeyOf(b, c)
         /\ \A i \in DOMAIN b.items : ItemKeyOf(f, i) = ItemKeyOf(b, i)
<1>1. \A r \in DOMAIN b.rooms : RoomName(f, r) = RoomName(b, r)
  BY DEF Grows, RoomName
<1>2. \A c \in DOMAIN b.containers : KeyOf(f, c) = KeyOf(b, c)
  BY <1>1 DEF Grows, KeyOf, Household, ReferencesExistIn
<1>3. ASSUME NEW i \in DOMAIN b.items PROVE ItemKeyOf(f, i) = ItemKeyOf(b, i)
  <2> DEFINE at == b.items[i].location
  <2>1. at \in Location /\ LocationExists(b, at)
    BY DEF Household, IsDB, IsTable, ItemRow, ReferencesExistIn
  <2>2. f.items[i].location = at /\ f.items[i].name = b.items[i].name
    BY DEF Grows
  <2>3. CASE at.kind = "room"
    BY <1>1, <2>1, <2>2, <2>3 DEF ItemKeyOf, LocationExists
  <2>4. CASE at.kind # "room"
    BY <1>2, <2>1, <2>2, <2>4 DEF ItemKeyOf, LocationExists
  <2> QED BY <2>3, <2>4
<1> QED BY <1>1, <1>2, <1>3

LEMMA GrowthKeepsKnown ==
  ASSUME NEW b, NEW f, NEW w, Knows(b, w), Grows(b, f)
  PROVE  Knows(f, w)
<1>1. KnowsRooms(f, w)
  BY DEF Knows, KnowsRooms, Grows
<1>2. KnowsContainers(f, w)
  BY DEF Knows, KnowsContainers, Grows
<1>3. KnowsItems(f, w)
  BY DEF Knows, KnowsItems, Grows
<1> QED BY <1>1, <1>2, <1>3 DEF Knows

\* An entry stands as long as its row is not written.
LEMMA GrowthKeepsEntry ==
  ASSUME NEW b, NEW f, Household(b), Grows(b, f), NEW d
  PROVE  /\ \A n, r : RoomStands(b, d, n, r) /\ f.rooms[r] = b.rooms[r] => RoomStands(f, d, n, r)
         /\ \A k, c : ContainerStands(b, d, k, c) /\ f.containers[c] = b.containers[c]
                        => ContainerStands(f, d, k, c)
         /\ \A k, i : ItemStands(b, d, k, i) /\ f.items[i] = b.items[i] => ItemStands(f, d, k, i)
<1>1. \A n, r : RoomStands(b, d, n, r) /\ f.rooms[r] = b.rooms[r] => RoomStands(f, d, n, r)
  BY DEF RoomStands, Grows
<1>2. ASSUME NEW k, NEW c, ContainerStands(b, d, k, c), f.containers[c] = b.containers[c]
      PROVE  ContainerStands(f, d, k, c)
  <2>1. c \in DOMAIN f.containers /\ KeyOf(f, c) = StoredContainer(k)
    BY <1>2, GrowthKeepsKeys DEF ContainerStands, Grows
  <2> QED BY <1>2, <2>1 DEF ContainerStands, Grows
<1>3. \A k, i : ItemStands(b, d, k, i) /\ f.items[i] = b.items[i] => ItemStands(f, d, k, i)
  BY GrowthKeepsKeys DEF ItemStands, Grows
<1> QED BY <1>1, <1>2, <1>3

\* What an export says of it changes only for the rows that are written.
LEMMA GrowthShows ==
  ASSUME NEW b, NEW f, Household(b), Household(f), Grows(b, f), NEW R, NEW C, NEW I,
         \A r \in DOMAIN f.rooms :
           RoomName(f, r) \in R \/ (r \in DOMAIN b.rooms /\ f.rooms[r] = b.rooms[r]),
         \A c \in DOMAIN f.containers :
           KeyOf(f, c) \in C \/ (c \in DOMAIN b.containers /\ f.containers[c] = b.containers[c]),
         \A i \in DOMAIN f.items :
           ItemKeyOf(f, i) \in I \/ (i \in DOMAIN b.items /\ f.items[i] = b.items[i])
  PROVE  /\ SameBut(Export(b).rooms, Export(f).rooms, R)
         /\ SameBut(Export(b).containers, Export(f).containers, C)
         /\ SameBut(Export(b).items, Export(f).items, I)
<1>1. SameBut(Export(b).rooms, Export(f).rooms, R)
  <2>1. \A r \in DOMAIN b.rooms : r \in DOMAIN f.rooms /\ RoomName(f, r) = RoomName(b, r)
    BY GrowthKeepsKeys DEF Grows
  <2> QED BY <2>1, ExportRow DEF SameBut
<1>2. SameBut(Export(b).containers, Export(f).containers, C)
  <2>1. \A c \in DOMAIN b.containers : c \in DOMAIN f.containers /\ KeyOf(f, c) = KeyOf(b, c)
    BY GrowthKeepsKeys DEF Grows
  <2>2. \A c \in DOMAIN b.containers :
          b.containers[c].parent # Nil =>
            f.containers[b.containers[c].parent].name = b.containers[b.containers[c].parent].name
    BY DEF Grows, Household, ReferencesExistIn
  <2>3. ASSUME NEW c \in DOMAIN b.containers, f.containers[c] = b.containers[c]
        PROVE  Export(f).containers[KeyOf(b, c)] = Export(b).containers[KeyOf(b, c)]
    <3>1. Export(f).containers[KeyOf(b, c)] =
            [parent |-> IF b.containers[c].parent = Nil THEN NoName
                        ELSE f.containers[b.containers[c].parent].name,
             detail |-> b.containers[c].detail]
      BY <2>1, <2>3, ExportRow
    <3> QED BY <2>2, <3>1, ExportRow
  <2> QED BY <2>1, <2>3, ExportRow DEF SameBut
<1>3. SameBut(Export(b).items, Export(f).items, I)
  <2>1. \A i \in DOMAIN b.items : i \in DOMAIN f.items /\ ItemKeyOf(f, i) = ItemKeyOf(b, i)
    BY GrowthKeepsKeys DEF Grows
  <2> QED BY <2>1, ExportRow DEF SameBut
<1> QED BY <1>1, <1>2, <1>3

-----------------------------------------------------------------------------
(* Documents: what an import finds and what it has left.                   *)

LEMMA WorldIsKnown ==
  ASSUME NEW b, Household(b)
  PROVE  Knows(b, World(b))
<1> DEFINE w == World(b)
<1>1. w = [rooms |-> w.rooms, containers |-> w.containers, items |-> w.items]
  BY DEF World
<1>2. KnowsRooms(b, w)
  BY WorldFinds DEF KnowsRooms, RoomName
<1>3. /\ Name \subseteq Written /\ \A n \in Name : Trim[n] = n
      /\ \A r \in DOMAIN b.rooms : b.rooms[r].name \in Name
      /\ \A c \in DOMAIN b.containers : b.containers[c].name \in Name
      /\ \A i \in DOMAIN b.items : b.items[i].name \in Name /\ b.items[i].location \in Location
      /\ \A c \in DOMAIN b.containers : b.containers[c].room \in DOMAIN b.rooms
      /\ \A i \in DOMAIN b.items : LocationExists(b, b.items[i].location)
  BY TrimAssumption DEF Spelled, Household, IsDB, IsTable, RoomRow, ContainerRow, ItemRow,
     ReferencesExistIn
<1>4. KnowsContainers(b, w)
  <2>1. ASSUME NEW c \in DOMAIN b.containers
        PROVE  LET k == KeyOf(b, c) IN
               /\ k \in ContainerKeys /\ k.room \in DOMAIN w.rooms
               /\ w.containers[k] = c
               /\ b.containers[c].name = Trim[k.name] /\ b.containers[c].room = w.rooms[k.room]
    <3> DEFINE at == b.containers[c].room
               n == b.containers[c].name
               k == KeyOf(b, c)
    <3>1. at \in DOMAIN b.rooms /\ RoomName(b, at) \in Written /\ n \in Written /\ Trim[n] = n
      BY <1>3 DEF RoomName
    <3>2. k = ContainerKey(RoomName(b, at), n)
      BY DEF KeyOf
    <3>3. k \in ContainerKeys /\ k.room = RoomName(b, at) /\ k.name = n
      <4> HIDE DEF k, n, at
      <4> QED BY <3>1, <3>2 DEF ContainerKey, ContainerKeys
    <3>4. /\ RoomName(b, at) \in DOMAIN w.rooms /\ w.rooms[RoomName(b, at)] = at
          /\ w.containers[k] = c
      BY <3>1, WorldFinds
    <3> HIDE DEF k, n, at, w
    <3>5. /\ k \in ContainerKeys /\ k.room \in DOMAIN w.rooms
          /\ w.containers[k] = c /\ n = Trim[k.name] /\ at = w.rooms[k.room]
      BY <3>1, <3>3, <3>4
    <3> QED BY <3>5 DEF k, n, at
  <2> QED BY <2>1, WorldFinds DEF KnowsContainers
<1>5. KnowsItems(b, w)
  <2>1. ASSUME NEW i \in DOMAIN b.items
        PROVE  LET k == ItemKeyOf(b, i) IN
               /\ k \in ItemKeys /\ KnowsPlace(w, k)
               /\ w.items[k] = i
               /\ b.items[i].name = k.name /\ b.items[i].location = Place(w, k)
    <3> DEFINE at == b.items[i].location
    <3>1. CASE at.kind = "room"
      <4>1. at = RoomLocation(at.id) /\ at.id \in DOMAIN b.rooms
        BY <1>3, <3>1 DEF Location, RoomLocation, ContainerLocation, LocationExists
      <4>2. ItemKeyOf(b, i) = ItemKey("room", RoomName(b, at.id), NoName, b.items[i].name)
        BY <3>1 DEF ItemKeyOf
      <4>3. ItemKeyOf(b, i) \in ItemKeys
        BY <1>3, <4>1, <4>2 DEF ItemKey, ItemKeys, RoomName
      <4>4. /\ w.items[ItemKeyOf(b, i)] = i
            /\ RoomName(b, at.id) \in DOMAIN w.rooms /\ w.rooms[RoomName(b, at.id)] = at.id
        BY <4>1, WorldFinds
      <4> HIDE DEF w
      <4> QED BY <4>1, <4>2, <4>3, <4>4 DEF ItemKey, Place, KnowsPlace
    <3>2. CASE at.kind # "room"
      <4>1. at = ContainerLocation(at.id) /\ at.id \in DOMAIN b.containers
        BY <1>3, <3>2 DEF Location, RoomLocation, ContainerLocation, LocationExists
      <4>2. /\ ItemKeyOf(b, i) = ItemKey("container", KeyOf(b, at.id).room, KeyOf(b, at.id).name,
                                         b.items[i].name)
            /\ KeyOf(b, at.id) \in ContainerKeys
            /\ KeyOf(b, at.id) = ContainerKey(KeyOf(b, at.id).room, KeyOf(b, at.id).name)
        BY <1>3, <3>2, <4>1 DEF ItemKeyOf, KeyOf, ContainerKey, ContainerKeys, RoomName
      <4>3. ItemKeyOf(b, i) \in ItemKeys
        BY <1>3, <4>2 DEF ItemKey, ItemKeys, ContainerKeys
      <4> QED BY <4>1, <4>2, <4>3, WorldFinds DEF ItemKey, Place, KnowsPlace
    <3> QED BY <3>1, <3>2
  <2> QED BY <2>1, WorldFinds DEF KnowsItems
<1> QED BY <1>1, <1>2, <1>4, <1>5 DEF Knows

LEMMA RowOfEntry ==
  ASSUME NEW d \in Documents
  PROVE  /\ \A n \in DOMAIN d.rooms :
              n \in Written /\ [name |-> Trim[n], detail |-> Stored[d.rooms[n]]] \in RoomRow
         /\ \A k \in DOMAIN d.containers :
              /\ k \in ContainerKeys /\ Trim[k.name] \in Name
              /\ d.containers[k].parent \in Written \cup {NoName}
              /\ Stored[d.containers[k].detail] \in Detail
         /\ \A k \in DOMAIN d.items :
              k \in ItemKeys /\ Trim[k.name] \in Name /\ Stored[d.items[k]] \in Detail
<1>1. /\ IsDocument(d) /\ NoName \notin Written
      /\ Trim \in [Written -> Name] /\ Stored \in [Text -> Detail]
  BY DocumentsAssumption, TrimAssumption, StoredAssumption DEF Spelled
<1>2. \A n \in DOMAIN d.rooms :
        n \in Written /\ [name |-> Trim[n], detail |-> Stored[d.rooms[n]]] \in RoomRow
  BY <1>1 DEF IsDocument, RoomRow
<1>3. \A k \in DOMAIN d.containers :
        /\ k \in ContainerKeys /\ Trim[k.name] \in Name
        /\ d.containers[k].parent \in Written \cup {NoName}
        /\ Stored[d.containers[k].detail] \in Detail
  BY <1>1 DEF IsDocument, ContainerKeys
<1>4. \A k \in DOMAIN d.items :
        k \in ItemKeys /\ Trim[k.name] \in Name /\ Stored[d.items[k]] \in Detail
  BY <1>1 DEF IsDocument, ItemKeys
<1> QED BY <1>2, <1>3, <1>4

\* A parent that the document declares is not below its child, so it is less
\* deep, and its turn comes first.
LEMMA ParentIsShallower ==
  ASSUME NEW d \in Documents, NEW k \in DOMAIN d.containers,
         ParentKey(d, k) \in DOMAIN d.containers, ~InCircle(d, k)
  PROVE  Depth(d, ParentKey(d, k)) < Depth(d, k)
<1> DEFINE p == ParentKey(d, k)
           All == DOMAIN d.containers
<1>1. IsFiniteSet(All)
  BY DocumentsAssumption DEF IsDocument
<1>2. Chain(d, k) \subseteq All /\ Chain(d, p) \subseteq All
  BY DEF Chain
<1>3. k \in Chain(d, k)
  BY DEF Chain
<1>4. k \notin Chain(d, p)
  BY DEF InCircle
<1>5. Chain(d, p) \subseteq Chain(d, k)
  <2>1. p \in Chain(d, k)
    BY <1>3 DEF Chain
  <2>2. \A y \in Chain(d, k) : ParentKey(d, y) \in All => ParentKey(d, y) \in Chain(d, k)
    BY DEF Chain
  <2> QED BY <1>2, <2>1, <2>2, Zenon DEF Chain
<1>6. /\ IsFiniteSet(Chain(d, k)) /\ Cardinality(Chain(d, k)) \in Nat
      /\ Cardinality(Chain(d, p)) \in Nat
  BY <1>1, <1>2, <1>5, FS_Subset, FS_CardinalityType
<1>7. /\ Cardinality(Chain(d, p)) <= Cardinality(Chain(d, k))
      /\ Cardinality(Chain(d, p)) # Cardinality(Chain(d, k))
  BY <1>3, <1>4, <1>5, <1>6, FS_Subset
<1> QED BY <1>6, <1>7 DEF Depth

LEMMA ParentIsKnown ==
  ASSUME Applying, NEW k \in DOMAIN doc.containers, doc.containers[k].parent # NoName,
         \A l \in DOMAIN doc.containers : Before(l, k) => <<"container", l>> \in done
  PROVE  ParentKey(doc, k) \in DOMAIN world.containers
<1> DEFINE p == ParentKey(doc, k)
<1>1. doc \in Documents /\ Accepts(doc, world)
  BY DEF Applying
<1>2. p \in DOMAIN world.containers \cup DOMAIN doc.containers /\ ~InCircle(doc, k)
  BY <1>1 DEF Accepts, KnownContainers
<1>3. CASE p \in DOMAIN doc.containers
  <2>1. Depth(doc, p) < Depth(doc, k)
    BY <1>1, <1>2, <1>3, ParentIsShallower
  <2>2. p.room = k.room
    BY DEF ParentKey, ContainerKey
  <2>3. <<"container", p>> \in done
    BY <1>3, <2>1, <2>2 DEF Before
  <2> QED BY <1>3, <2>3 DEF Applying
<1> QED BY <1>2, <1>3

\* No two names that an import knows are stored as one.
LEMMA KnownApart ==
  ASSUME NEW b, Household(b), NEW w, Knows(b, w)
  PROVE  /\ \A k \in DOMAIN w.containers : KeyOf(b, w.containers[k]) = StoredContainer(k)
         /\ \A k, l \in DOMAIN w.containers : StoredContainer(k) = StoredContainer(l) => k = l
<1>1. ASSUME NEW k \in DOMAIN w.containers PROVE KeyOf(b, w.containers[k]) = StoredContainer(k)
  <2>1. /\ k \in ContainerKeys /\ b.containers[w.containers[k]].name = Trim[k.name]
        /\ RoomName(b, b.containers[w.containers[k]].room) = k.room
    BY DEF Knows, KnowsContainers, KnowsRooms, RoomName
  <2> QED BY <2>1 DEF KeyOf, ContainerKey, ContainerKeys, StoredContainer
<1>2. \A k \in DOMAIN w.containers : w.containers[k] \in DOMAIN b.containers
  BY DEF Knows, KnowsContainers
<1> QED BY <1>1, <1>2, UniqueKeys DEF Knows, KnowsContainers

-----------------------------------------------------------------------------
(* Applying an entry writes one row: a new one, or one under its name and   *)
(* in its place. To write nothing is to write what it holds.                *)

RoomWritten(b, f, r, row) ==
  /\ f.rooms = Put(b.rooms, r, row) /\ f.containers = b.containers /\ f.items = b.items
  /\ r \in RoomID
  /\ r \in DOMAIN b.rooms => b.rooms[r].name = row.name

ContainerWritten(b, f, c, row) ==
  /\ f.containers = Put(b.containers, c, row) /\ f.rooms = b.rooms /\ f.items = b.items
  /\ c \in ContainerID
  /\ c \in DOMAIN b.containers => /\ b.containers[c].name = row.name
                                  /\ b.containers[c].room = row.room

ItemWritten(b, f, i, row) ==
  /\ f.items = Put(b.items, i, row) /\ f.rooms = b.rooms /\ f.containers = b.containers
  /\ i \in ItemID
  /\ i \in DOMAIN b.items => /\ b.items[i].name = row.name
                             /\ b.items[i].location = row.location

LEMMA WritesGrow ==
  ASSUME NEW b, NEW f, NEW id, NEW row,
         RoomWritten(b, f, id, row) \/ ContainerWritten(b, f, id, row) \/ ItemWritten(b, f, id, row)
  PROVE  Grows(b, f)
<1>1. CASE RoomWritten(b, f, id, row)
  BY <1>1 DEF RoomWritten, Grows, Put
<1>2. CASE ContainerWritten(b, f, id, row)
  BY <1>2 DEF ContainerWritten, Grows, Put
<1>3. CASE ItemWritten(b, f, id, row)
  BY <1>3 DEF ItemWritten, Grows, Put
<1> QED BY <1>1, <1>2, <1>3

LEMMA PutSame ==
  ASSUME NEW b, Household(b)
  PROVE  /\ \A r \in DOMAIN b.rooms : Put(b.rooms, r, b.rooms[r]) = b.rooms
         /\ \A c \in DOMAIN b.containers : Put(b.containers, c, b.containers[c]) = b.containers
         /\ \A i \in DOMAIN b.items : Put(b.items, i, b.items[i]) = b.items
<1>1. ASSUME NEW T, T = [x \in DOMAIN T |-> T[x]], NEW x \in DOMAIN T PROVE Put(T, x, T[x]) = T
  BY <1>1 DEF Put
<1>2. /\ b.rooms = [x \in DOMAIN b.rooms |-> b.rooms[x]]
      /\ b.containers = [x \in DOMAIN b.containers |-> b.containers[x]]
      /\ b.items = [x \in DOMAIN b.items |-> b.items[x]]
  BY DEF Household, IsDB, IsTable
<1> QED BY <1>1, <1>2

\* A row that was just created is known by its name.
LEMMA KnowNew ==
  ASSUME NEW b, NEW w, Knows(b, w)
  PROVE  /\ \A n, r : n \notin DOMAIN w.rooms /\ r \in DOMAIN b.rooms /\ b.rooms[r].name = n
              => Knows(b, [w EXCEPT !.rooms = Put(@, n, r)])
         /\ \A k \in ContainerKeys : \A c :
              /\ k \notin DOMAIN w.containers /\ k.room \in DOMAIN w.rooms
              /\ c \in DOMAIN b.containers /\ b.containers[c].name = Trim[k.name]
              /\ b.containers[c].room = w.rooms[k.room]
              /\ \A l \in DOMAIN w.containers : w.containers[l] # c
              => Knows(b, [w EXCEPT !.containers = Put(@, k, c)])
         /\ \A k \in ItemKeys : \A i :
              /\ k \notin DOMAIN w.items /\ KnowsPlace(w, k)
              /\ i \in DOMAIN b.items /\ b.items[i].name = k.name
              /\ b.items[i].location = Place(w, k)
              => Knows(b, [w EXCEPT !.items = Put(@, k, i)])
<1>0. /\ w = [rooms |-> w.rooms, containers |-> w.containers, items |-> w.items]
      /\ KnowsRooms(b, w) /\ KnowsContainers(b, w) /\ KnowsItems(b, w)
  BY DEF Knows
<1>1. ASSUME NEW n, NEW r, n \notin DOMAIN w.rooms, r \in DOMAIN b.rooms, b.rooms[r].name = n
      PROVE  Knows(b, [w EXCEPT !.rooms = Put(@, n, r)])
  <2> DEFINE v == [w EXCEPT !.rooms = Put(@, n, r)]
  <2>1. v = [rooms |-> Put(w.rooms, n, r), containers |-> w.containers, items |-> w.items]
    BY <1>0
  <2> HIDE DEF v
  <2>2. /\ DOMAIN v.rooms = DOMAIN w.rooms \cup {n} /\ v.rooms[n] = r
        /\ \A m \in DOMAIN w.rooms : v.rooms[m] = w.rooms[m]
    BY <1>1, <2>1 DEF Put
  <2>3. v.containers = w.containers /\ v.items = w.items
    BY <2>1
  <2>4. KnowsRooms(b, v)
    BY <1>0, <1>1, <2>2 DEF KnowsRooms
  <2>5. KnowsContainers(b, v)
    BY <1>0, <2>2, <2>3 DEF KnowsContainers
  <2>6. KnowsItems(b, v)
    BY <1>0, <2>2, <2>3 DEF KnowsItems, KnowsPlace, Place
  <2>7. v = [rooms |-> v.rooms, containers |-> v.containers, items |-> v.items]
    BY <2>1
  <2> QED BY <2>4, <2>5, <2>6, <2>7 DEF Knows, v
<1>2. ASSUME NEW k \in ContainerKeys, NEW c,
             k \notin DOMAIN w.containers, k.room \in DOMAIN w.rooms,
             c \in DOMAIN b.containers, b.containers[c].name = Trim[k.name],
             b.containers[c].room = w.rooms[k.room],
             \A l \in DOMAIN w.containers : w.containers[l] # c
      PROVE  Knows(b, [w EXCEPT !.containers = Put(@, k, c)])
  <2> DEFINE v == [w EXCEPT !.containers = Put(@, k, c)]
  <2>1. v = [rooms |-> w.rooms, containers |-> Put(w.containers, k, c), items |-> w.items]
    BY <1>0
  <2> HIDE DEF v
  <2>2. /\ DOMAIN v.containers = DOMAIN w.containers \cup {k} /\ v.containers[k] = c
        /\ \A l \in DOMAIN w.containers : v.containers[l] = w.containers[l]
    BY <1>2, <2>1 DEF Put
  <2>3. v.rooms = w.rooms /\ v.items = w.items
    BY <2>1
  <2>4. KnowsRooms(b, v)
    BY <1>0, <2>3 DEF KnowsRooms
  <2>5. KnowsContainers(b, v)
    BY <1>0, <1>2, <2>2, <2>3 DEF KnowsContainers
  <2>6. KnowsItems(b, v)
    BY <1>0, <2>2, <2>3 DEF KnowsItems, KnowsPlace, Place
  <2>7. v = [rooms |-> v.rooms, containers |-> v.containers, items |-> v.items]
    BY <2>1
  <2> QED BY <2>4, <2>5, <2>6, <2>7 DEF Knows, v
<1>3. ASSUME NEW k \in ItemKeys, NEW i, k \notin DOMAIN w.items, KnowsPlace(w, k),
             i \in DOMAIN b.items, b.items[i].name = k.name, b.items[i].location = Place(w, k)
      PROVE  Knows(b, [w EXCEPT !.items = Put(@, k, i)])
  <2> DEFINE v == [w EXCEPT !.items = Put(@, k, i)]
  <2>1. v = [rooms |-> w.rooms, containers |-> w.containers, items |-> Put(w.items, k, i)]
    BY <1>0
  <2> HIDE DEF v
  <2>2. /\ DOMAIN v.items = DOMAIN w.items \cup {k} /\ v.items[k] = i
        /\ \A l \in DOMAIN w.items : v.items[l] = w.items[l]
    BY <1>3, <2>1 DEF Put
  <2>3. v.rooms = w.rooms /\ v.containers = w.containers
    BY <2>1
  <2>4. KnowsRooms(b, v) /\ KnowsContainers(b, v)
    BY <1>0, <2>3 DEF KnowsRooms, KnowsContainers
  <2>5. KnowsItems(b, v)
    BY <1>0, <1>3, <2>2, <2>3 DEF KnowsItems, KnowsPlace, Place
  <2>6. v = [rooms |-> v.rooms, containers |-> v.containers, items |-> v.items]
    BY <2>1
  <2> QED BY <2>4, <2>5, <2>6 DEF Knows, v
<1> QED BY <1>1, <1>2, <1>3

\* What an import knows grows, so what its document relies on stays known.
LEMMA AcceptsMore ==
  ASSUME NEW d, NEW w, NEW v, Accepts(d, w),
         DOMAIN w.rooms \subseteq DOMAIN v.rooms, DOMAIN w.containers \subseteq DOMAIN v.containers
  PROVE  Accepts(d, v)
<1>1. KnownRooms(d, w) \subseteq KnownRooms(d, v)
  BY DEF KnownRooms
<1>2. KnownContainers(d, w) \subseteq KnownContainers(d, v)
  BY DEF KnownContainers
<1> QED BY <1>1, <1>2, Zenon DEF Accepts

RoomRowOf(n) == [name |-> Trim[n], detail |-> Stored[doc.rooms[n]]]

LEMMA RoomStep ==
  ASSUME IInv, status = "applying", NEW n \in DOMAIN doc.rooms, ApplyRoom(n), ~Refuse
  PROVE  /\ INV!Next \/ UNCHANGED <<db, audit>>
         /\ \E r \in RoomID : RoomWritten(db, db', r, RoomRowOf(n))
         /\ Knows(db', world') /\ DOMAIN world'.rooms = DOMAIN world.rooms \cup {Trim[n]}
         /\ DOMAIN world'.containers = DOMAIN world.containers
         /\ done' = done \cup {<<"room", n>>} /\ UNCHANGED <<doc, status, settled>>
         /\ wrote' \in BOOLEAN
<1> DEFINE row == RoomRowOf(n)
           id  == world.rooms[row.name]
           exists == row.name \in DOMAIN world.rooms
<1>1. /\ Household(db) /\ Knows(db, world) /\ row \in RoomRow /\ row.name = Trim[n]
      /\ wrote \in BOOLEAN
  BY RowOfEntry DEF IInv, Applying, RoomRowOf, TypeOK
<1>2. world = [rooms |-> world.rooms, containers |-> world.containers, items |-> world.items]
  BY <1>1 DEF Knows
<1>3. exists => id \in DOMAIN db.rooms /\ id \in RoomID /\ db.rooms[id].name = row.name
  BY <1>1, HouseholdIds DEF Knows, KnowsRooms
<1>4. CASE ~exists /\ INV!CreateRoom(row)
           /\ Saved(<<"room", n>>, [world EXCEPT !.rooms = Put(@, row.name, NewRoom(db))])
  <2> DEFINE r == NewRoom(db)
  <2>1. db' = RoomCreate(db, row) /\ db.lastRoom < MaxRoom /\ INV!Next
    BY <1>1, <1>4, SameRooms, SameSets DEF INV!CreateRoom, INV!Commit, INV!Next
  <2>2. r \in RoomID /\ r \notin DOMAIN db.rooms
    BY <1>1, <2>1, BoundsAssumption DEF NewRoom, Household, IsDB, IdsBehindSequence, RoomID, IsTable
  <2> HIDE DEF r
  <2>3. RoomWritten(db, db', r, row)
    BY <2>1, <2>2 DEF RoomWritten, RoomCreate, SetRooms, r
  <2>4. Knows(db', world)
    BY <1>1, <2>3, WritesGrow, GrowthKeepsKnown
  <2>5. r \in DOMAIN db'.rooms /\ db'.rooms[r].name = row.name
    BY <2>3 DEF RoomWritten, Put
  <2>6. world' = [world EXCEPT !.rooms = Put(@, row.name, r)]
    BY <1>4 DEF Saved, r
  <2>7. Knows(db', world')
    BY <1>4, <2>4, <2>5, <2>6, KnowNew
  <2>8. /\ DOMAIN world'.rooms = DOMAIN world.rooms \cup {Trim[n]}
        /\ DOMAIN world'.containers = DOMAIN world.containers
    BY <1>1, <1>2, <2>6 DEF Put
  <2> QED BY <1>4, <2>1, <2>2, <2>3, <2>7, <2>8 DEF Saved
<1>5. CASE exists /\ INV!UpdateRoom(id, row) /\ Saved(<<"room", n>>, world)
  <2>1. db' = RoomUpdate(db, id, row) /\ INV!Next
    BY <1>1, <1>3, <1>5, SameRooms, SameSets DEF INV!UpdateRoom, INV!Commit, INV!Next
  <2>2. RoomWritten(db, db', id, row)
    BY <1>3, <1>5, <2>1 DEF RoomWritten, RoomUpdate, SetRooms
  <2>3. Knows(db', world)
    BY <1>1, <2>2, WritesGrow, GrowthKeepsKnown
  <2> QED BY <1>1, <1>3, <1>5, <2>1, <2>2, <2>3 DEF Saved
<1>6. CASE exists /\ db.rooms[id] = row /\ Unchanged(<<"room", n>>)
  <2>1. RoomWritten(db, db', id, row)
    BY <1>1, <1>3, <1>6, PutSame DEF RoomWritten, Unchanged
  <2> QED BY <1>1, <1>3, <1>6, <2>1 DEF Unchanged
<1> QED BY <1>4, <1>5, <1>6 DEF ApplyRoom, RoomRowOf

ContainerRowOf(k) ==
  [room   |-> world.rooms[k.room],
   parent |-> IF doc.containers[k].parent = NoName THEN Nil
              ELSE world.containers[ParentKey(doc, k)],
   name   |-> Trim[k.name],
   detail |-> Stored[doc.containers[k].detail]]

\* The names a container's entry relies on are known when its turn comes.
LEMMA ContainerRowSound ==
  ASSUME IInv, status = "applying", NEW k \in DOMAIN doc.containers, RoomsDone,
         \A l \in DOMAIN doc.containers : Before(l, k) => <<"container", l>> \in done
  PROVE  LET row == ContainerRowOf(k)  parent == doc.containers[k].parent IN
         /\ k \in ContainerKeys /\ k.room \in DOMAIN world.rooms
         /\ row.room \in DOMAIN db.rooms /\ db.rooms[row.room].name = k.room
         /\ IF parent = NoName THEN row.parent = Nil
            ELSE /\ row.parent \in DOMAIN db.containers /\ row.parent # Nil
                 /\ db.containers[row.parent].name = Trim[parent]
         /\ row \in ContainerRow
<1> DEFINE row == ContainerRowOf(k)
           parent == doc.containers[k].parent
           p == ParentKey(doc, k)
<1>1. /\ Household(db) /\ Knows(db, world) /\ doc \in Documents /\ Accepts(doc, world) /\ Applying
      /\ k \in ContainerKeys /\ Trim[k.name] \in Name /\ Stored[doc.containers[k].detail] \in Detail
  BY RowOfEntry DEF IInv, Applying
<1>2. k.room \in DOMAIN world.rooms
  <2>1. k.room \in DOMAIN world.rooms \cup {Trim[n] : n \in DOMAIN doc.rooms}
    BY <1>1 DEF Accepts, KnownRooms
  <2>2. \A n \in DOMAIN doc.rooms : Trim[n] \in DOMAIN world.rooms
    BY DEF RoomsDone, IInv, Applying
  <2> QED BY <2>1, <2>2
<1>3. row.room \in DOMAIN db.rooms /\ db.rooms[row.room].name = k.room /\ row.room \in RoomID
  BY <1>1, <1>2, HouseholdIds DEF Knows, KnowsRooms, ContainerRowOf
<1>4. IF parent = NoName THEN row.parent = Nil
      ELSE /\ row.parent \in DOMAIN db.containers /\ row.parent # Nil
           /\ db.containers[row.parent].name = Trim[parent]
  <2>1. CASE parent = NoName
    BY <2>1 DEF ContainerRowOf
  <2>2. CASE parent # NoName
    <3>1. p \in DOMAIN world.containers /\ p.name = parent
      BY <1>1, <2>2, ParentIsKnown DEF ParentKey, ContainerKey
    <3>2. row.parent = world.containers[p]
      BY <2>2 DEF ContainerRowOf
    <3> QED BY <1>1, <2>2, <3>1, <3>2, HouseholdIds DEF Knows, KnowsContainers
  <2> QED BY <2>1, <2>2
<1>5. row.parent \in ContainerID \cup {Nil}
  BY <1>1, <1>4, HouseholdIds
<1>6. row \in ContainerRow
  BY <1>1, <1>3, <1>5 DEF ContainerRowOf, ContainerRow
<1> QED BY <1>1, <1>2, <1>3, <1>4, <1>6

LEMMA ContainerStep ==
  ASSUME IInv, status = "applying", NEW k \in DOMAIN doc.containers, ApplyContainer(k), ~Refuse
  PROVE  /\ INV!Next \/ UNCHANGED <<db, audit>>
         /\ \E c \in ContainerID : /\ ContainerWritten(db, db', c, ContainerRowOf(k))
                                   /\ c \in DOMAIN db.containers => k \in DOMAIN world.containers
         /\ Knows(db', world') /\ DOMAIN world'.rooms = DOMAIN world.rooms
         /\ DOMAIN world'.containers = DOMAIN world.containers \cup {k}
         /\ done' = done \cup {<<"container", k>>} /\ UNCHANGED <<doc, status, settled>>
         /\ wrote' \in BOOLEAN
<1> DEFINE row == ContainerRowOf(k)
           id  == world.containers[k]
           exists == k \in DOMAIN world.containers
<1>1. /\ Household(db) /\ Knows(db, world) /\ wrote \in BOOLEAN
      /\ RoomsDone /\ \A l \in DOMAIN doc.containers : Before(l, k) => <<"container", l>> \in done
  BY DEF IInv, Applying, TypeOK, ApplyContainer
<1>2. /\ row \in ContainerRow /\ k \in ContainerKeys /\ k.room \in DOMAIN world.rooms
      /\ row.room = world.rooms[k.room] /\ row.name = Trim[k.name]
  BY <1>1, ContainerRowSound DEF ContainerRowOf
<1>3. world = [rooms |-> world.rooms, containers |-> world.containers, items |-> world.items]
  BY <1>1 DEF Knows
<1>4. exists => /\ id \in DOMAIN db.containers /\ id \in ContainerID
                /\ db.containers[id].name = row.name /\ db.containers[id].room = row.room
  BY <1>1, <1>2, HouseholdIds DEF Knows, KnowsContainers
<1>5. CASE ~exists /\ INV!CreateContainer(row)
           /\ Saved(<<"container", k>>, [world EXCEPT !.containers = Put(@, k, NewContainer(db))])
  <2> DEFINE c == NewContainer(db)
  <2>1. db' = ContainerCreate(db, row) /\ db.lastContainer < MaxContainer /\ INV!Next
    BY <1>2, <1>5, SameContainers, SameSets DEF INV!CreateContainer, INV!Commit, INV!Next
  <2>2. c \in ContainerID /\ c \notin DOMAIN db.containers
    BY <1>1, <2>1, BoundsAssumption
    DEF NewContainer, Household, IsDB, IdsBehindSequence, ContainerID, IsTable
  <2> HIDE DEF c
  <2>3. ContainerWritten(db, db', c, row)
    BY <2>1, <2>2 DEF ContainerWritten, ContainerCreate, SetContainers, c
  <2>4. Knows(db', world)
    BY <1>1, <2>3, WritesGrow, GrowthKeepsKnown
  <2>5. c \in DOMAIN db'.containers /\ db'.containers[c] = row
    BY <2>3 DEF ContainerWritten, Put
  <2>6. world' = [world EXCEPT !.containers = Put(@, k, c)]
    BY <1>5 DEF Saved, c
  <2>7. \A l \in DOMAIN world.containers : world.containers[l] # c
    BY <1>1, <2>2 DEF Knows, KnowsContainers
  <2>8. Knows(db', world')
    BY <1>2, <1>5, <2>4, <2>5, <2>6, <2>7, KnowNew
  <2>9. /\ DOMAIN world'.containers = DOMAIN world.containers \cup {k}
        /\ DOMAIN world'.rooms = DOMAIN world.rooms
    BY <1>3, <2>6 DEF Put
  <2> QED BY <1>5, <2>1, <2>2, <2>3, <2>8, <2>9 DEF Saved
<1>6. CASE exists /\ INV!UpdateContainer(id, row) /\ Saved(<<"container", k>>, world)
  <2>1. db' = ContainerUpdate(db, id, row) /\ INV!Next
    BY <1>2, <1>4, <1>6, SameContainers, SameSets DEF INV!UpdateContainer, INV!Commit, INV!Next
  <2>2. ContainerWritten(db, db', id, row)
    <3>1. ContainerUpdateChecks(db, id, row) = Ok
      BY <1>6, SameContainers, SameSets DEF INV!UpdateContainer, INV!Ok, Ok
    <3>2. row \in ContainerRow
      BY <1>2
    <3>3. ContainerUpdated(db, id, row) = row
      BY <3>1, <3>2, UpdateWritesTheRow
    <3> QED
      BY <1>4, <1>6, <2>1, <3>3 DEF ContainerWritten, ContainerUpdate, SetContainers
  <2>3. Knows(db', world)
    BY <1>1, <2>2, WritesGrow, GrowthKeepsKnown
  <2> QED BY <1>1, <1>4, <1>6, <2>1, <2>2, <2>3 DEF Saved
<1>7. CASE exists /\ ContainersMatch(db.containers[id], row) /\ Unchanged(<<"container", k>>)
  <2>1. ContainerWritten(db, db', id, row)
    BY <1>1, <1>4, <1>7, PutSame DEF ContainerWritten, Unchanged, ContainersMatch
  <2> QED BY <1>1, <1>4, <1>7, <2>1 DEF Unchanged
<1> QED BY <1>5, <1>6, <1>7 DEF ApplyContainer, ContainerRowOf

ItemRowOf(k) ==
  [location |-> Place(world, k), name |-> Trim[k.name], detail |-> Stored[doc.items[k]]]

LEMMA ItemRowSound ==
  ASSUME IInv, status = "applying", NEW k \in DOMAIN doc.items, RoomsDone, ContainersDone
  PROVE  LET row == ItemRowOf(k) IN
         /\ k \in ItemKeys /\ KnowsPlace(world, k) /\ row \in ItemRow
         /\ IF k.kind = "room"
            THEN /\ row.location = RoomLocation(world.rooms[k.room])
                 /\ world.rooms[k.room] \in DOMAIN db.rooms
                 /\ RoomName(db, world.rooms[k.room]) = k.room
            ELSE LET c == world.containers[ContainerKey(k.room, k.container)] IN
                 /\ row.location = ContainerLocation(c) /\ c \in DOMAIN db.containers
                 /\ KeyOf(db, c) = ContainerKey(k.room, Trim[k.container])
<1> DEFINE row == ItemRowOf(k)
           c == world.containers[ContainerKey(k.room, k.container)]
<1>1. /\ Household(db) /\ Knows(db, world) /\ doc \in Documents /\ Accepts(doc, world)
      /\ k \in ItemKeys /\ Trim[k.name] \in Name /\ Stored[doc.items[k]] \in Detail
  BY RowOfEntry DEF IInv, Applying
<1>2. KnowsPlace(world, k)
  <2>1. /\ \A n \in DOMAIN doc.rooms : Trim[n] \in DOMAIN world.rooms
        /\ DOMAIN doc.containers \subseteq DOMAIN world.containers
    BY DEF RoomsDone, ContainersDone, IInv, Applying
  <2>2. KnownRooms(doc, world) = DOMAIN world.rooms
        /\ KnownContainers(doc, world) = DOMAIN world.containers
    BY <2>1 DEF KnownRooms, KnownContainers
  <2> QED BY <1>1, <2>2 DEF Accepts, KnowsPlace
<1>3. CASE k.kind = "room"
  <2>1. /\ world.rooms[k.room] \in DOMAIN db.rooms /\ world.rooms[k.room] \in RoomID
        /\ RoomName(db, world.rooms[k.room]) = k.room
        /\ row.location = RoomLocation(world.rooms[k.room])
    BY <1>1, <1>2, <1>3, HouseholdIds DEF KnowsPlace, Knows, KnowsRooms, RoomName, ItemRowOf, Place
  <2> QED BY <1>1, <1>2, <1>3, <2>1 DEF ItemRowOf, ItemRow, Location
<1>4. CASE k.kind # "room"
  <2>1. /\ c \in DOMAIN db.containers /\ c \in ContainerID
        /\ row.location = ContainerLocation(c)
    BY <1>1, <1>2, <1>4, HouseholdIds DEF KnowsPlace, Knows, KnowsContainers, ItemRowOf, Place
  <2>2. KeyOf(db, c) = ContainerKey(k.room, Trim[k.container])
    <3>1. ContainerKey(k.room, k.container) \in DOMAIN world.containers
      BY <1>2, <1>4 DEF KnowsPlace
    <3>2. KeyOf(db, c) = StoredContainer(ContainerKey(k.room, k.container))
      BY <1>1, <3>1, KnownApart
    <3> QED BY <3>2 DEF StoredContainer, ContainerKey
  <2> QED BY <1>1, <1>2, <1>4, <2>1, <2>2 DEF ItemRowOf, ItemRow, Location
<1> QED BY <1>3, <1>4

LEMMA ItemStep ==
  ASSUME IInv, status = "applying", NEW k \in DOMAIN doc.items, ApplyItem(k), ~Refuse
  PROVE  /\ INV!Next \/ UNCHANGED <<db, audit>>
         /\ \E i \in ItemID : ItemWritten(db, db', i, ItemRowOf(k))
         /\ Knows(db', world') /\ DOMAIN world'.rooms = DOMAIN world.rooms
         /\ DOMAIN world'.containers = DOMAIN world.containers
         /\ done' = done \cup {<<"item", k>>} /\ UNCHANGED <<doc, status, settled>>
         /\ wrote' \in BOOLEAN
<1> DEFINE row == ItemRowOf(k)
           key == [k EXCEPT !.name = Trim[@]]
           id  == world.items[key]
           exists == key \in DOMAIN world.items
<1>1. Household(db) /\ Knows(db, world) /\ wrote \in BOOLEAN /\ RoomsDone /\ ContainersDone
  BY DEF IInv, Applying, TypeOK, ApplyItem
<1>2. row \in ItemRow /\ k \in ItemKeys /\ KnowsPlace(world, k)
  BY <1>1, ItemRowSound
<1>3. /\ key \in ItemKeys /\ key.name = row.name /\ row.location = Place(world, k)
      /\ KnowsPlace(world, key) /\ Place(world, key) = Place(world, k)
  <2>1. Trim[k.name] \in Written
    BY <1>2, TrimAssumption DEF Spelled, ItemKeys
  <2>2. key \in ItemKeys /\ key.name = Trim[k.name] /\ key.kind = k.kind /\ key.room = k.room
        /\ key.container = k.container
    BY <1>2, <2>1 DEF ItemKeys
  <2> QED BY <1>2, <2>2 DEF KnowsPlace, Place, ItemRowOf
<1>4. exists => /\ id \in DOMAIN db.items /\ id \in ItemID
                /\ db.items[id].name = row.name /\ db.items[id].location = row.location
  BY <1>1, <1>3, HouseholdIds DEF Knows, KnowsItems
<1>5. world = [rooms |-> world.rooms, containers |-> world.containers, items |-> world.items]
  BY <1>1 DEF Knows
<1> HIDE DEF key
<1>6. CASE ~exists /\ INV!CreateItem(row)
           /\ Saved(<<"item", k>>, [world EXCEPT !.items = Put(@, key, NewItem(db))])
  <2> DEFINE i == NewItem(db)
  <2>1. db' = ItemCreate(db, row) /\ db.lastItem < MaxItem /\ INV!Next
    BY <1>2, <1>6, SameItems, SameSets DEF INV!CreateItem, INV!Commit, INV!Next
  <2>2. i \in ItemID /\ i \notin DOMAIN db.items
    BY <1>1, <2>1, BoundsAssumption DEF NewItem, Household, IsDB, IdsBehindSequence, ItemID, IsTable
  <2> HIDE DEF i
  <2>3. ItemWritten(db, db', i, row)
    BY <2>1, <2>2 DEF ItemWritten, ItemCreate, SetItems, i
  <2>4. Knows(db', world)
    BY <1>1, <2>3, WritesGrow, GrowthKeepsKnown
  <2>5. i \in DOMAIN db'.items /\ db'.items[i] = row
    BY <2>3 DEF ItemWritten, Put
  <2>6. world' = [world EXCEPT !.items = Put(@, key, i)]
    BY <1>6 DEF Saved, i
  <2>7. Knows(db', world')
    BY <1>3, <1>6, <2>4, <2>5, <2>6, KnowNew
  <2>8. world'.rooms = world.rooms /\ world'.containers = world.containers
    BY <1>5, <2>6
  <2> QED BY <1>6, <2>1, <2>2, <2>3, <2>7, <2>8 DEF Saved
<1>7. CASE exists /\ INV!UpdateItem(id, row) /\ Saved(<<"item", k>>, world)
  <2>1. db' = ItemUpdate(db, id, row) /\ INV!Next
    BY <1>2, <1>4, <1>7, SameItems, SameSets DEF INV!UpdateItem, INV!Commit, INV!Next
  <2>2. ItemWritten(db, db', id, row)
    BY <1>4, <1>7, <2>1 DEF ItemWritten, ItemUpdate, SetItems
  <2>3. Knows(db', world)
    BY <1>1, <2>2, WritesGrow, GrowthKeepsKnown
  <2> QED BY <1>1, <1>4, <1>7, <2>1, <2>2, <2>3 DEF Saved
<1>8. CASE exists /\ ItemsMatch(db.items[id], row, doc.items[k]) /\ Unchanged(<<"item", k>>)
  <2>1. db.items[id] = [row EXCEPT !.detail = doc.items[k]] /\ UNCHANGED <<db, audit>>
    BY <1>8 DEF ItemsMatch, Unchanged
  <2>2. db.items[id] \in ItemRow
    BY <1>1, <1>4, <1>8 DEF Household, IsDB, IsTable
  <2>3. doc.items[k] \in Detail
    BY <1>2, <2>1, <2>2 DEF ItemRow
  <2>4. row.detail = doc.items[k]
    BY <2>3, StoredAssumption DEF Spelled, ItemRowOf
  <2>5. db.items[id] = row
    BY <1>2, <2>1, <2>4 DEF ItemRow
  <2>6. ItemWritten(db, db', id, row)
    BY <1>1, <1>4, <1>8, <2>1, <2>5, PutSame DEF ItemWritten
  <2> QED BY <1>1, <1>4, <1>8, <2>6 DEF Unchanged
<1> QED BY <1>6, <1>7, <1>8 DEF ApplyItem, ItemRowOf, Resolve, Place, key

-----------------------------------------------------------------------------
(* What stood keeps standing when an entry is applied, and the entry joins *)
(* it: e holds the entries that stand.                                     *)

LEMMA RoomJoins ==
  ASSUME NEW b, NEW f, Household(b), NEW d, NEW e, Stand(b, d, e), NEW n \in DOMAIN d.rooms,
         RoomsApart(d), NEW r,
         RoomWritten(b, f, r, [name |-> Trim[n], detail |-> Stored[d.rooms[n]]])
  PROVE  Stand(f, d, e \cup {<<"room", n>>})
<1>1. /\ Grows(b, f) /\ r \in RoomID /\ f.containers = b.containers /\ f.items = b.items
      /\ f.rooms = Put(b.rooms, r, [name |-> Trim[n], detail |-> Stored[d.rooms[n]]])
      /\ r \in DOMAIN b.rooms => b.rooms[r].name = Trim[n]
  BY WritesGrow DEF RoomWritten
<1>2. RoomStands(f, d, n, r)
  BY <1>1 DEF RoomStands, Put
<1>3. ASSUME NEW m \in DOMAIN d.rooms, m # n, NEW s \in RoomID, RoomStands(b, d, m, s)
      PROVE  RoomStands(f, d, m, s)
  <2>1. s # r
    BY <1>1, <1>3 DEF RoomStands, RoomsApart
  <2>2. f.rooms[s] = b.rooms[s]
    BY <1>1, <1>3, <2>1 DEF RoomStands, Put
  <2> QED BY <1>1, <1>3, <2>2, GrowthKeepsEntry
<1>4. RoomsStand(f, d, e \cup {<<"room", n>>})
  BY <1>1, <1>2, <1>3 DEF RoomsStand, Stand
<1>5. ContainersStand(f, d, e \cup {<<"room", n>>}) /\ ItemsStand(f, d, e \cup {<<"room", n>>})
  BY <1>1, GrowthKeepsEntry DEF ContainersStand, ItemsStand, Stand
<1> QED BY <1>4, <1>5 DEF Stand

LEMMA ContainerJoins ==
  ASSUME NEW b, NEW f, Household(b), NEW d, NEW e, Stand(b, d, e),
         NEW k \in DOMAIN d.containers, NEW c, NEW row, ContainerWritten(b, f, c, row),
         ContainerStands(f, d, k, c),
         \A l \in DOMAIN d.containers :
           <<"container", l>> \in e /\ c \in DOMAIN b.containers
             /\ StoredContainer(l) = StoredContainer(k) => l = k
  PROVE  Stand(f, d, e \cup {<<"container", k>>})
<1>1. /\ Grows(b, f) /\ c \in ContainerID /\ f.rooms = b.rooms /\ f.items = b.items
      /\ f.containers = Put(b.containers, c, row)
  BY WritesGrow DEF ContainerWritten
<1>2. ASSUME NEW l \in DOMAIN d.containers, <<"container", l>> \in e, l # k,
             NEW x \in ContainerID, ContainerStands(b, d, l, x)
      PROVE  ContainerStands(f, d, l, x)
  <2>1. x # c
    BY <1>1, <1>2, GrowthKeepsKeys DEF ContainerStands
  <2>2. f.containers[x] = b.containers[x]
    BY <1>1, <1>2, <2>1 DEF ContainerStands, Put
  <2> QED BY <1>1, <1>2, <2>2, GrowthKeepsEntry
<1>3. ContainersStand(f, d, e \cup {<<"container", k>>})
  BY <1>1, <1>2 DEF ContainersStand, Stand
<1>4. RoomsStand(f, d, e \cup {<<"container", k>>}) /\ ItemsStand(f, d, e \cup {<<"container", k>>})
  BY <1>1, GrowthKeepsEntry DEF RoomsStand, ItemsStand, Stand
<1> QED BY <1>3, <1>4 DEF Stand

LEMMA ItemJoins ==
  ASSUME NEW b, NEW f, Household(b), NEW d, NEW e, Stand(b, d, e), NEW k \in DOMAIN d.items,
         NEW i, NEW row, ItemWritten(b, f, i, row), ItemStands(f, d, k, i),
         \A l \in DOMAIN d.items : StoredItem(l) = StoredItem(k) => l = k
  PROVE  Stand(f, d, e \cup {<<"item", k>>})
<1>1. /\ Grows(b, f) /\ i \in ItemID /\ f.rooms = b.rooms /\ f.containers = b.containers
      /\ f.items = Put(b.items, i, row)
  BY WritesGrow DEF ItemWritten
<1>2. ASSUME NEW l \in DOMAIN d.items, l # k, NEW j \in ItemID, ItemStands(b, d, l, j)
      PROVE  ItemStands(f, d, l, j)
  <2>1. j # i
    BY <1>1, <1>2, GrowthKeepsKeys DEF ItemStands
  <2>2. f.items[j] = b.items[j]
    BY <1>1, <1>2, <2>1 DEF ItemStands, Put
  <2> QED BY <1>1, <1>2, <2>2, GrowthKeepsEntry
<1>3. ItemsStand(f, d, e \cup {<<"item", k>>})
  BY <1>1, <1>2 DEF ItemsStand, Stand
<1>4. RoomsStand(f, d, e \cup {<<"item", k>>}) /\ ContainersStand(f, d, e \cup {<<"item", k>>})
  BY <1>1, GrowthKeepsEntry DEF RoomsStand, ContainersStand, Stand
<1> QED BY <1>3, <1>4 DEF Stand

LEMMA ItemKeyParts ==
  ASSUME NEW k \in ItemKeys
  PROVE  /\ k = [kind |-> k.kind, room |-> k.room, container |-> k.container, name |-> k.name]
         /\ k.name \in Written /\ k.room \in Written
         /\ k.kind = "room" => k.container = NoName
         /\ k.kind # "room" => k.kind = "container" /\ k.container \in Written
BY DEF ItemKeys

\* The row that an import writes for an entry is where the document says.
LEMMA NewContainerStands ==
  ASSUME IInv, status = "applying", NEW k \in DOMAIN doc.containers, RoomsDone,
         \A l \in DOMAIN doc.containers : Before(l, k) => <<"container", l>> \in done,
         NEW f, NEW c, ContainerWritten(db, f, c, ContainerRowOf(k))
  PROVE  ContainerStands(f, doc, k, c)
<1> DEFINE row == ContainerRowOf(k)
           parent == doc.containers[k].parent
<1>1. /\ k \in ContainerKeys
      /\ row.room \in DOMAIN db.rooms /\ db.rooms[row.room].name = k.room
      /\ IF parent = NoName THEN row.parent = Nil
         ELSE /\ row.parent \in DOMAIN db.containers /\ row.parent # Nil
              /\ db.containers[row.parent].name = Trim[parent]
  BY ContainerRowSound
<1>2. row.name = Trim[k.name] /\ row.detail = Stored[doc.containers[k].detail]
  BY DEF ContainerRowOf
<1> HIDE DEF row
<1>3. /\ Grows(db, f) /\ f.rooms = db.rooms /\ c \in DOMAIN f.containers /\ f.containers[c] = row
  BY WritesGrow DEF ContainerWritten, Put, row
<1>4. KeyOf(f, c) = StoredContainer(k)
  BY <1>1, <1>2, <1>3 DEF KeyOf, RoomName, ContainerKey, StoredContainer, ContainerKeys
<1>5. IF parent = NoName THEN row.parent = Nil
      ELSE row.parent \in DOMAIN f.containers /\ f.containers[row.parent].name = Trim[parent]
  BY <1>1, <1>3 DEF Grows
<1> QED BY <1>2, <1>3, <1>4, <1>5 DEF ContainerStands

LEMMA NewItemStands ==
  ASSUME IInv, status = "applying", NEW k \in DOMAIN doc.items, RoomsDone, ContainersDone,
         NEW f, NEW i, ItemWritten(db, f, i, ItemRowOf(k))
  PROVE  ItemStands(f, doc, k, i)
<1> DEFINE row == ItemRowOf(k)
           c   == world.containers[ContainerKey(k.room, k.container)]
<1>1. /\ k \in ItemKeys /\ row.name = Trim[k.name] /\ row.detail = Stored[doc.items[k]]
      /\ NoName \notin Written
  BY ItemRowSound, DocumentsAssumption DEF ItemRowOf
<1>2. /\ k.kind = "room" =>
           /\ row.location = RoomLocation(world.rooms[k.room])
           /\ world.rooms[k.room] \in DOMAIN db.rooms
           /\ RoomName(db, world.rooms[k.room]) = k.room
      /\ k.kind # "room" => /\ row.location = ContainerLocation(c) /\ c \in DOMAIN db.containers
                            /\ KeyOf(db, c) = ContainerKey(k.room, Trim[k.container])
  BY ItemRowSound
<1> HIDE DEF row, c
<1>3. /\ Household(db) /\ Grows(db, f) /\ i \in DOMAIN f.items /\ f.items[i] = row
  BY WritesGrow DEF ItemWritten, Put, row, IInv
<1>4. ItemKeyOf(f, i) = StoredItem(k)
  <2>1. CASE k.kind = "room"
    <3>1. ItemKeyOf(f, i) = ItemKey("room", k.room, NoName, Trim[k.name])
      BY <1>1, <1>2, <1>3, <2>1, GrowthKeepsKeys DEF ItemKeyOf, RoomLocation
    <3>2. StoredItem(k) = ItemKey("room", k.room, NoName, Trim[k.name])
      BY <1>1, <2>1, ItemKeyParts DEF StoredItem, Kept
    <3> QED BY <3>1, <3>2
  <2>2. CASE k.kind # "room"
    <3>1. ItemKeyOf(f, i) = ItemKey("container", k.room, Trim[k.container], Trim[k.name])
      BY <1>1, <1>2, <1>3, <2>2, GrowthKeepsKeys DEF ItemKeyOf, ContainerLocation, ContainerKey
    <3>2. StoredItem(k) = ItemKey("container", k.room, Trim[k.container], Trim[k.name])
      BY <1>1, <2>2, ItemKeyParts DEF StoredItem, Kept
    <3> QED BY <3>1, <3>2
  <2> QED BY <2>1, <2>2
<1> QED BY <1>1, <1>3, <1>4 DEF ItemStands

\* Entries that an import has applied, or is about to, are told apart.
LEMMA EntriesApart ==
  ASSUME IInv, status = "applying"
  PROVE  /\ RoomsApart(doc)
         /\ \A k, l \in DOMAIN doc.containers :
              /\ k \in DOMAIN world.containers /\ l \in DOMAIN world.containers
              /\ StoredContainer(k) = StoredContainer(l)
              => k = l
         /\ RoomsDone /\ ContainersDone => ItemsApart(doc)
<1>1. Household(db) /\ Knows(db, world) /\ Accepts(doc, world) /\ Applying
  BY DEF IInv, Applying
<1>2. ASSUME RoomsDone, ContainersDone, NEW k \in DOMAIN doc.items, NEW l \in DOMAIN doc.items,
             StoredItem(k) = StoredItem(l)
      PROVE  k = l
  <2>1. k \in ItemKeys /\ l \in ItemKeys /\ KnowsPlace(world, k) /\ KnowsPlace(world, l)
    BY <1>2, ItemRowSound
  <2>2. /\ k.kind = l.kind /\ k.room = l.room /\ Trim[k.name] = Trim[l.name]
        /\ Kept(k.container) = Kept(l.container)
    BY <1>2, <2>1 DEF StoredItem, ItemKey
  <2>3. k.container = l.container
    <3>1. CASE k.kind = "room"
      BY <2>1, <2>2, <3>1, ItemKeyParts
    <3>2. CASE k.kind # "room"
      <4>1. k.container \in Written /\ l.container \in Written /\ NoName \notin Written
        BY <2>1, <2>2, <3>2, DocumentsAssumption DEF ItemKeys
      <4>2. /\ ContainerKey(k.room, k.container) \in DOMAIN world.containers
            /\ ContainerKey(l.room, l.container) \in DOMAIN world.containers
        BY <2>1, <2>2, <3>2 DEF KnowsPlace
      <4>3. Trim[k.container] = Trim[l.container]
        BY <2>2, <4>1 DEF Kept
      <4>4. ContainerKey(k.room, k.container) = ContainerKey(l.room, l.container)
        <5>1. StoredContainer(ContainerKey(k.room, k.container)) =
                StoredContainer(ContainerKey(l.room, l.container))
          BY <2>2, <4>3 DEF StoredContainer, ContainerKey
        <5> QED BY <1>1, <4>2, <5>1, KnownApart
      <4> QED BY <4>4 DEF ContainerKey
    <3> QED BY <3>1, <3>2
  <2>4. [k EXCEPT !.name = Trim[@]] = [l EXCEPT !.name = Trim[@]]
    BY <2>1, <2>2, <2>3 DEF ItemKeys
  <2> QED BY <1>1, <2>4 DEF Accepts
<1>3. RoomsApart(doc)
  BY <1>1 DEF Accepts, RoomsApart
<1>4. \A k, l \in DOMAIN doc.containers :
        /\ k \in DOMAIN world.containers /\ l \in DOMAIN world.containers
        /\ StoredContainer(k) = StoredContainer(l)
        => k = l
  BY <1>1, KnownApart
<1>5. RoomsDone /\ ContainersDone => ItemsApart(doc)
  BY <1>2 DEF ItemsApart
<1> QED BY <1>3, <1>4, <1>5

-----------------------------------------------------------------------------
(* An entry of an export that still stands is found, and found the same.   *)

LEMMA QuietRoom ==
  ASSUME IInv, status = "applying", settled, AsExported(doc),
         NEW n \in DOMAIN doc.rooms, ApplyRoom(n)
  PROVE  Unchanged(<<"room", n>>)
<1> DEFINE row == RoomRowOf(n)
<1>1. Household(db) /\ world = World(db) /\ Stand(db, doc, Entries(doc))
  BY DEF IInv, Settled, Quiet
<1>2. <<"room", n>> \in Entries(doc)
  BY DEF Entries
<1>3. PICK r \in RoomID : RoomStands(db, doc, n, r)
  BY <1>1, <1>2 DEF Stand, RoomsStand
<1>4. r \in DOMAIN db.rooms /\ db.rooms[r] = row /\ RoomName(db, r) = row.name
  BY <1>3 DEF RoomStands, RoomRowOf, RoomName
<1>5. row.name \in DOMAIN world.rooms /\ world.rooms[row.name] = r
  BY <1>1, <1>4, WorldFinds
<1> QED BY <1>4, <1>5 DEF ApplyRoom, RoomRowOf

LEMMA QuietContainer ==
  ASSUME IInv, status = "applying", settled, AsExported(doc),
         NEW k \in DOMAIN doc.containers, ApplyContainer(k)
  PROVE  Unchanged(<<"container", k>>)
<1> DEFINE row == ContainerRowOf(k)
           parent == doc.containers[k].parent
<1>1. /\ Household(db) /\ world = World(db) /\ Stand(db, doc, Entries(doc)) /\ doc \in Documents
      /\ <<"container", k>> \in Entries(doc)
  BY DEF IInv, Settled, Quiet, Entries
<1>2. PICK c \in ContainerID : ContainerStands(db, doc, k, c)
  BY <1>1 DEF Stand, ContainersStand
<1> DEFINE old == db.containers[c]
<1>3. /\ c \in DOMAIN db.containers /\ KeyOf(db, c) = k /\ old.detail = row.detail
      /\ IF parent = NoName THEN old.parent = Nil
         ELSE /\ old.parent \in DOMAIN db.containers
              /\ db.containers[old.parent].name = parent
  BY <1>2 DEF ContainerStands, AsExported, Kept, ContainerRowOf
<1>4. k \in DOMAIN world.containers /\ world.containers[k] = c
  BY <1>1, <1>3, WorldFinds
<1>5. /\ old \in ContainerRow /\ old.room \in DOMAIN db.rooms
      /\ old.parent \in DOMAIN db.containers => db.containers[old.parent].room = old.room
  BY <1>1, <1>3 DEF Household, IsDB, IsTable, ReferencesExistIn, SubtreesShareRoom
<1>6. old.room = row.room
  <2>1. k.room = RoomName(db, old.room)
    BY <1>3 DEF KeyOf, ContainerKey
  <2> QED BY <1>1, <1>5, <2>1, WorldFinds DEF ContainerRowOf
<1>7. old.name = row.name
  <2>1. k = ContainerKey(k.room, Trim[k.name])
    BY DEF AsExported, StoredContainer
  <2>2. k.name = Trim[k.name] /\ k.name = old.name
    BY <1>3, <2>1 DEF KeyOf, ContainerKey
  <2> QED BY <2>2 DEF ContainerRowOf
<1>8. old.parent = row.parent
  <2>1. CASE parent = NoName
    BY <1>3, <2>1 DEF ContainerRowOf
  <2>2. CASE parent # NoName
    <3>1. KeyOf(db, old.parent) = ParentKey(doc, k)
      BY <1>3, <1>5, <2>2 DEF KeyOf, ParentKey, ContainerKey
    <3>2. world.containers[ParentKey(doc, k)] = old.parent
      BY <1>1, <1>3, <2>2, <3>1, WorldFinds
    <3> QED BY <2>2, <3>2 DEF ContainerRowOf
  <2> QED BY <2>1, <2>2
<1>9. old = row
  BY <1>3, <1>5, <1>6, <1>7, <1>8 DEF ContainerRow, ContainerRowOf
<1> QED BY <1>4, <1>9 DEF ApplyContainer, ContainerRowOf, ContainersMatch

LEMMA QuietItem ==
  ASSUME IInv, status = "applying", settled, AsExported(doc),
         NEW k \in DOMAIN doc.items, ApplyItem(k)
  PROVE  Unchanged(<<"item", k>>)
<1> DEFINE row == ItemRowOf(k)
<1>1. /\ Household(db) /\ world = World(db) /\ Stand(db, doc, Entries(doc)) /\ doc \in Documents
      /\ <<"item", k>> \in Entries(doc) /\ k \in ItemKeys
  BY RowOfEntry DEF IInv, Settled, Quiet, Entries
<1>2. PICK i \in ItemID : ItemStands(db, doc, k, i)
  BY <1>1 DEF Stand, ItemsStand
<1> DEFINE old == db.items[i]
<1>3. /\ i \in DOMAIN db.items /\ ItemKeyOf(db, i) = k
      /\ old.detail = doc.items[k] /\ row.detail = doc.items[k]
  BY <1>2 DEF ItemStands, AsExported, ItemRowOf
<1>4. k \in DOMAIN world.items /\ world.items[k] = i
  BY <1>1, <1>3, WorldFinds
<1>5. old \in ItemRow /\ LocationExists(db, old.location)
  BY <1>1, <1>3 DEF Household, IsDB, IsTable, ReferencesExistIn
<1>6. [k EXCEPT !.name = Trim[@]] = k /\ row.name = k.name
  <2>1. k.name = Trim[k.name]
    BY DEF AsExported, StoredItem, ItemKey
  <2> QED BY <1>1, <2>1, ItemKeyParts DEF ItemRowOf
<1>7. old.name = k.name
  BY <1>3 DEF ItemKeyOf, ItemKey
<1>8. old.location = Place(world, k)
  <2>1. CASE old.location.kind = "room"
    <3>1. /\ old.location = RoomLocation(old.location.id) /\ old.location.id \in DOMAIN db.rooms
          /\ k.kind = "room" /\ k.room = RoomName(db, old.location.id)
      BY <1>3, <1>5, <2>1
      DEF ItemRow, Location, RoomLocation, ContainerLocation, LocationExists, ItemKeyOf, ItemKey
    <3> QED BY <1>1, <3>1, WorldFinds DEF Place
  <2>2. CASE old.location.kind # "room"
    <3> DEFINE c == old.location.id
    <3>1. old.location = ContainerLocation(c) /\ c \in DOMAIN db.containers
      BY <1>5, <2>2 DEF ItemRow, Location, RoomLocation, ContainerLocation, LocationExists
    <3>2. k = ItemKey("container", KeyOf(db, c).room, KeyOf(db, c).name, old.name)
      BY <1>3, <2>2 DEF ItemKeyOf
    <3>3. k.kind = "container" /\ ContainerKey(k.room, k.container) = KeyOf(db, c)
      BY <3>2 DEF ItemKey, KeyOf, ContainerKey
    <3> QED BY <1>1, <3>1, <3>3, WorldFinds DEF Place
  <2> QED BY <2>1, <2>2
<1>9. old = [row EXCEPT !.detail = doc.items[k]]
  BY <1>3, <1>5, <1>6, <1>7, <1>8 DEF ItemRow, ItemRowOf
<1> QED BY <1>4, <1>6, <1>9 DEF ApplyItem, ItemRowOf, Resolve, Place, ItemsMatch

LEMMA QuietApply ==
  ASSUME IInv, status = "applying", settled, AsExported(doc), Apply
  PROVE  UNCHANGED <<db, audit, doc, world, status, wrote, settled>>
<1>1. \A n \in DOMAIN doc.rooms : ApplyRoom(n) => Unchanged(<<"room", n>>)
  BY QuietRoom
<1>2. \A k \in DOMAIN doc.containers : ApplyContainer(k) => Unchanged(<<"container", k>>)
  BY QuietContainer
<1>3. \A k \in DOMAIN doc.items : ApplyItem(k) => Unchanged(<<"item", k>>)
  BY QuietItem
<1> QED BY <1>1, <1>2, <1>3 DEF Apply, Unchanged

-----------------------------------------------------------------------------
(* The inductive invariant.                                                *)

LEMMA InitIInv == Init => IInv
<1>1. Init => Household(db)
  BY EmptyHousehold DEF Init, INV!Init, INV!EmptyDB, INV!NoRows, EmptyDB, NoRows
<1>2. Nothing.rooms = NoRows /\ Nothing.containers = NoRows /\ Nothing.items = NoRows
  BY DEF Nothing
<1>3. DOMAIN NoRows = {}
  BY DEF NoRows
<1>4. Init => TypeOK
  BY <1>1, <1>2, <1>3 DEF Init, TypeOK, Household
<1> QED
  BY <1>1, <1>4 DEF Init, IInv

\* The ids an import knows are ids.
LEMMA KnownIds ==
  ASSUME NEW b, Household(b), NEW w, Knows(b, w)
  PROVE  /\ \A n \in DOMAIN w.rooms : w.rooms[n] \in RoomID
         /\ \A k \in DOMAIN w.containers : w.containers[k] \in ContainerID
         /\ \A k \in DOMAIN w.items : w.items[k] \in ItemID
BY HouseholdIds DEF Knows, KnowsRooms, KnowsContainers, KnowsItems

\* What every entry that is applied has in common.
LEMMA EntryKeeps ==
  ASSUME IInv, status = "applying", Apply, NEW entry,
         INV!Next \/ UNCHANGED <<db, audit>>,
         Knows(db', world'), done' = done \cup {entry}, UNCHANGED <<doc, status, settled>>,
         wrote' \in BOOLEAN,
         DOMAIN world.rooms \subseteq DOMAIN world'.rooms,
         DOMAIN world.containers \subseteq DOMAIN world'.containers,
         \A n \in DOMAIN doc.rooms : entry = <<"room", n>> => Trim[n] \in DOMAIN world'.rooms,
         \A k \in DOMAIN doc.containers :
           entry = <<"container", k>> => k \in DOMAIN world'.containers,
         Stand(db', doc, done \cup {entry}),
         settled => Stand(db', doc, Entries(doc) \cup {entry})
  PROVE  IInv'
<1>1. Household(db) /\ Applying /\ TypeOK
  BY DEF IInv
<1>2. Household(db')
  BY <1>1, MutationSound
<1>3. TypeOK'
  BY <1>1, <1>2, KnownIds DEF TypeOK, Household
<1>4. Applying'
  <2>1. Accepts(doc, world')
    BY <1>1, AcceptsMore DEF Applying
  <2> QED BY <1>1, <2>1 DEF Applying
<1>5. settled' => Settled'
  BY DEF IInv, Settled, Stand, RoomsStand, ContainersStand, ItemsStand
<1>6. settled' => Quiet'
  <2> SUFFICES ASSUME settled, AsExported(doc) PROVE world' = World(db') /\ ~wrote'
    BY DEF Quiet
  <2>1. UNCHANGED <<db, audit, doc, world, status, wrote, settled>>
    BY QuietApply
  <2> QED BY <2>1 DEF IInv, Quiet
<1> QED BY <1>2, <1>3, <1>4, <1>5, <1>6 DEF IInv

LEMMA RoomKeeps ==
  ASSUME IInv, status = "applying", NEW n \in DOMAIN doc.rooms, ApplyRoom(n), ~Refuse
  PROVE  IInv'
<1>1. Household(db) /\ RoomsApart(doc) /\ Stand(db, doc, done)
      /\ (settled => Stand(db, doc, Entries(doc)))
  BY EntriesApart DEF IInv, Applying, Settled
<1>2. PICK r \in RoomID : RoomWritten(db, db', r, RoomRowOf(n))
  BY RoomStep
<1>3. /\ Stand(db', doc, done \cup {<<"room", n>>})
      /\ settled => Stand(db', doc, Entries(doc) \cup {<<"room", n>>})
  BY <1>1, <1>2, RoomJoins DEF RoomRowOf
<1> QED BY <1>3, RoomStep, EntryKeeps DEF Apply

LEMMA ContainerKeeps ==
  ASSUME IInv, status = "applying", NEW k \in DOMAIN doc.containers, ApplyContainer(k), ~Refuse
  PROVE  IInv'
<1>1. /\ Household(db) /\ Stand(db, doc, done)
      /\ settled => Stand(db, doc, Entries(doc)) /\ ContainersApart(doc)
      /\ \A l \in DOMAIN doc.containers :
           <<"container", l>> \in done => l \in DOMAIN world.containers
      /\ RoomsDone /\ \A l \in DOMAIN doc.containers : Before(l, k) => <<"container", l>> \in done
  BY DEF IInv, Applying, Settled, ApplyContainer
<1>2. PICK c \in ContainerID : /\ ContainerWritten(db, db', c, ContainerRowOf(k))
                               /\ c \in DOMAIN db.containers => k \in DOMAIN world.containers
  BY ContainerStep
<1>3. ContainerStands(db', doc, k, c)
  BY <1>1, <1>2, NewContainerStands
<1>4. Stand(db', doc, done \cup {<<"container", k>>})
  <2>1. \A l \in DOMAIN doc.containers :
          <<"container", l>> \in done /\ c \in DOMAIN db.containers
            /\ StoredContainer(l) = StoredContainer(k) => l = k
    BY <1>1, <1>2, EntriesApart
  <2> QED BY <1>1, <1>2, <1>3, <2>1, ContainerJoins
<1>5. settled => Stand(db', doc, Entries(doc) \cup {<<"container", k>>})
  BY <1>1, <1>2, <1>3, ContainerJoins DEF ContainersApart
<1> QED BY <1>4, <1>5, ContainerStep, EntryKeeps DEF Apply

LEMMA ItemKeeps ==
  ASSUME IInv, status = "applying", NEW k \in DOMAIN doc.items, ApplyItem(k), ~Refuse
  PROVE  IInv'
<1>1. /\ Household(db) /\ Stand(db, doc, done) /\ (settled => Stand(db, doc, Entries(doc)))
      /\ RoomsDone /\ ContainersDone /\ ItemsApart(doc)
  BY EntriesApart DEF IInv, Applying, Settled, ApplyItem
<1>2. PICK i \in ItemID : ItemWritten(db, db', i, ItemRowOf(k))
  BY ItemStep
<1>3. ItemStands(db', doc, k, i)
  BY <1>1, <1>2, NewItemStands
<1>4. /\ Stand(db', doc, done \cup {<<"item", k>>})
      /\ settled => Stand(db', doc, Entries(doc) \cup {<<"item", k>>})
  BY <1>1, <1>2, <1>3, ItemJoins DEF ItemsApart
<1> QED BY <1>4, ItemStep, EntryKeeps DEF Apply

\* Between imports there is nothing to know, and only what is settled to keep.
LEMMA IdleKeeps ==
  ASSUME IInv, Household(db'), status' # "applying", status' \in {"idle", "refused"},
         wrote' \in BOOLEAN, settled' \in BOOLEAN, world' = Nothing,
         doc' = doc \/ doc' = Nothing,
         settled' => doc' = doc /\ db' = db /\ Settled
  PROVE  IInv'
<1>1. TypeOK'
  BY DEF IInv, TypeOK, Household, Nothing, NoRows
<1>2. settled' => Settled'
  BY DEF Settled
<1> QED BY <1>1, <1>2 DEF IInv

LEMMA StartKeeps ==
  ASSUME IInv, NEW d \in Documents, Start(d)
  PROVE  IInv'
<1>1. Household(db) /\ db' = db /\ settled' = (settled /\ d = doc) /\ wrote' = FALSE /\ TypeOK
  BY DEF IInv, Start
<1>2. CASE Accepts(d, World(db))
  <2>1. status' = "applying" /\ doc' = d /\ world' = World(db) /\ done' = {}
    BY <1>2 DEF Start
  <2>2. Knows(db', world')
    BY <1>1, <2>1, WorldIsKnown
  <2>3. TypeOK'
    BY <1>1, <2>1, <2>2, KnownIds DEF TypeOK, Household
  <2>4. Applying'
    BY <1>1, <1>2, <2>1, <2>2
    DEF Applying, Stand, RoomsStand, ContainersStand, ItemsStand
  <2>5. settled' => Settled'
    BY <1>1, <2>1 DEF IInv, Settled
  <2>6. Quiet'
    BY <1>1, <2>1 DEF Quiet
  <2> QED BY <1>1, <2>3, <2>4, <2>5, <2>6 DEF IInv
<1>3. CASE ~Accepts(d, World(db))
  <2>1. status' = "refused" /\ Forget(IF settled' THEN doc ELSE Nothing)
    BY <1>3 DEF Start
  <2>2. settled' \in BOOLEAN /\ (settled' => Settled)
    BY <1>1 DEF IInv
  <2> QED BY <1>1, <2>1, <2>2, IdleKeeps DEF Forget
<1> QED BY <1>2, <1>3

LEMMA FinishKeeps ==
  ASSUME IInv, Finish
  PROVE  IInv'
<1>1. /\ status = "applying" /\ RoomsDone /\ ContainersDone /\ ItemsDone
      /\ Applying /\ Household(db)
      /\ status' = "idle" /\ settled' = TRUE /\ wrote' = FALSE /\ Forget(doc) /\ db' = db
  BY DEF IInv, Finish
<1>2. Settled
  <2>1. RoomsApart(doc) /\ ItemsApart(doc)
    BY <1>1, EntriesApart
  <2>2. ContainersApart(doc)
    BY <1>1, EntriesApart DEF ContainersApart, ContainersDone, Applying
  <2>3. Stand(db, doc, Entries(doc))
    BY <1>1 DEF Applying, Stand, RoomsStand, ContainersStand, ItemsStand,
       RoomsDone, ContainersDone, ItemsDone
  <2> QED BY <1>1, <2>1, <2>2, <2>3 DEF Settled, Applying
<1> QED BY <1>1, <1>2, IdleKeeps DEF Forget

LEMMA OutsideKeeps ==
  ASSUME IInv, Outside
  PROVE  IInv'
<1>1. /\ INV!Next /\ settled' = (settled /\ db' = db) /\ Forget(IF settled' THEN doc ELSE Nothing)
      /\ status' = "idle" /\ wrote' = FALSE /\ Household(db)
  BY DEF IInv, Outside
<1>2. Household(db')
  BY <1>1, MutationSound
<1>3. settled' \in BOOLEAN /\ (settled' => Settled)
  BY <1>1 DEF IInv
<1> QED BY <1>1, <1>2, <1>3, IdleKeeps DEF Forget

LEMMA NextIInv == IInv /\ [Next]_vars => IInv'
<1> SUFFICES ASSUME IInv, [Next]_vars PROVE IInv'
  OBVIOUS
<1>1. ASSUME Refuse \/ Stop PROVE IInv'
  BY <1>1, IdleKeeps DEF Refuse, Stop, Forget, IInv, TypeOK
<1>2. ASSUME NEW n \in DOMAIN doc.rooms, ApplyRoom(n) PROVE IInv'
  BY <1>1, <1>2, RoomKeeps DEF ApplyRoom
<1>3. ASSUME NEW k \in DOMAIN doc.containers, ApplyContainer(k) PROVE IInv'
  BY <1>1, <1>3, ContainerKeeps DEF ApplyContainer
<1>4. ASSUME NEW k \in DOMAIN doc.items, ApplyItem(k) PROVE IInv'
  BY <1>1, <1>4, ItemKeeps DEF ApplyItem
<1>5. CASE UNCHANGED vars
  BY <1>5 DEF vars, IInv, TypeOK, Applying, Settled, Quiet
<1> QED BY <1>1, <1>2, <1>3, <1>4, <1>5, OutsideKeeps, StartKeeps, FinishKeeps DEF Next, Apply

-----------------------------------------------------------------------------
(* What an export writes, an import accepts.                               *)

\* A container of an export hangs from the container it hung from.
LEMMA ExportedParent ==
  ASSUME NEW b, Household(b), NEW c \in DOMAIN b.containers
  PROVE  LET d == Export(b)  k == KeyOf(b, c)  q == b.containers[c].parent IN
         /\ IF q = Nil THEN d.containers[k].parent = NoName
            ELSE /\ q \in DOMAIN b.containers /\ d.containers[k].parent # NoName
                 /\ ParentKey(d, k) = KeyOf(b, q)
         /\ ParentKey(d, k) \in DOMAIN d.containers => q # Nil
<1> DEFINE d == Export(b)
           k == KeyOf(b, c)
           q == b.containers[c].parent
<1>1. /\ Name \subseteq Written /\ NoName \notin Written
      /\ \A x \in DOMAIN b.containers : b.containers[x].name \in Name
      /\ q \in DOMAIN b.containers \cup {Nil} /\ Nil \notin DOMAIN b.containers
      /\ q \in DOMAIN b.containers => b.containers[q].room = b.containers[c].room
  BY TrimAssumption, DocumentsAssumption, HouseholdIds
  DEF Spelled, Household, IsDB, IsTable, ContainerRow, ReferencesExistIn, SubtreesShareRoom
<1>2. /\ d.containers[k].parent = IF q = Nil THEN NoName ELSE b.containers[q].name
      /\ DOMAIN d.containers = {KeyOf(b, x) : x \in DOMAIN b.containers}
  <2>1. d.containers[k] = [parent |-> IF q = Nil THEN NoName ELSE b.containers[q].name,
                           detail |-> b.containers[c].detail]
    BY ExportRow
  <2>2. DOMAIN d.containers = {KeyOf(b, x) : x \in DOMAIN b.containers}
    BY ExportRow
  <2> QED BY <2>1, <2>2
<1>3. /\ k.room = RoomName(b, b.containers[c].room)
      /\ \A x \in DOMAIN b.containers : KeyOf(b, x).name = b.containers[x].name
  BY DEF KeyOf, ContainerKey
<1>4. q # Nil => ParentKey(d, k) = KeyOf(b, q)
  BY <1>1, <1>2, <1>3 DEF ParentKey, KeyOf
<1>5. q = Nil => ParentKey(d, k).name = NoName
  BY <1>2 DEF ParentKey, ContainerKey
<1>6. ParentKey(d, k) \in DOMAIN d.containers => q # Nil
  BY <1>1, <1>2, <1>3, <1>5
<1> QED BY <1>1, <1>2, <1>4, <1>6

\* The export of a household is a document spelled as it is stored, and no
\* import refuses it before it begins, whatever its own inventory holds.
THEOREM ExportIsAccepted ==
  ASSUME NEW b, Household(b), NEW w
  PROVE  IsDocument(Export(b)) /\ AsExported(Export(b)) /\ Accepts(Export(b), w)
<1> DEFINE d == Export(b)
<1>1. /\ Name \subseteq Written /\ NoName \notin Written /\ \A n \in Name : Trim[n] = n
      /\ Detail \subseteq Text /\ \A t \in Detail : Stored[t] = t
  BY TrimAssumption, StoredAssumption, DocumentsAssumption DEF Spelled
<1>2. /\ DOMAIN d.rooms = {RoomName(b, r) : r \in DOMAIN b.rooms}
      /\ DOMAIN d.containers = {KeyOf(b, c) : c \in DOMAIN b.containers}
      /\ DOMAIN d.items = {ItemKeyOf(b, i) : i \in DOMAIN b.items}
  BY ExportRow
<1>3. ASSUME NEW r \in DOMAIN b.rooms
      PROVE  RoomName(b, r) \in Name /\ d.rooms[RoomName(b, r)] \in Detail
  BY ExportRow DEF RoomName, Household, IsDB, IsTable, RoomRow
<1>4. ASSUME NEW c \in DOMAIN b.containers
      PROVE  LET k == KeyOf(b, c) IN
             /\ k = ContainerKey(k.room, k.name) /\ k.room \in Name /\ k.name \in Name
             /\ k.room \in DOMAIN d.rooms
             /\ d.containers[k] \in [parent : Name \cup {NoName}, detail : Detail]
             /\ d.containers[k].parent # NoName => ParentKey(d, k) \in DOMAIN d.containers
  <2> DEFINE k == KeyOf(b, c)
             q == b.containers[c].parent
  <2>1. /\ b.containers[c].name \in Name /\ b.containers[c].detail \in Detail
        /\ b.containers[c].room \in DOMAIN b.rooms
        /\ q \in DOMAIN b.containers => b.containers[q].name \in Name
        /\ q \in DOMAIN b.containers \cup {Nil}
    BY DEF Household, IsDB, IsTable, ContainerRow, ReferencesExistIn
  <2>2. /\ k = ContainerKey(k.room, k.name)
        /\ k.room = RoomName(b, b.containers[c].room) /\ k.name = b.containers[c].name
    BY DEF KeyOf, ContainerKey
  <2>3. d.containers[k] = [parent |-> IF q = Nil THEN NoName ELSE b.containers[q].name,
                           detail |-> b.containers[c].detail]
    BY ExportRow
  <2>4. d.containers[k] \in [parent : Name \cup {NoName}, detail : Detail]
    BY <2>1, <2>3
  <2>5. d.containers[k].parent # NoName => ParentKey(d, k) \in DOMAIN d.containers
    BY <1>2, ExportedParent
  <2> QED BY <1>2, <1>3, <2>1, <2>2, <2>4, <2>5
<1>5. ASSUME NEW i \in DOMAIN b.items
      PROVE  LET k == ItemKeyOf(b, i) IN
             /\ k \in ItemKeys /\ k.name \in Name /\ Kept(k.container) = k.container
             /\ d.items[k] \in Detail
             /\ IF k.kind = "room" THEN k.room \in DOMAIN d.rooms
                ELSE ContainerKey(k.room, k.container) \in DOMAIN d.containers
  <2> DEFINE k  == ItemKeyOf(b, i)
             at == b.items[i].location
  <2>1. /\ b.items[i].name \in Name /\ b.items[i].detail \in Detail
        /\ at \in Location /\ LocationExists(b, at)
    BY DEF Household, IsDB, IsTable, ItemRow, ReferencesExistIn
  <2>2. d.items[k] \in Detail
    BY <2>1, ExportRow
  <2>3. CASE at.kind = "room"
    <3>1. /\ k = ItemKey("room", RoomName(b, at.id), NoName, b.items[i].name)
          /\ at.id \in DOMAIN b.rooms
      BY <2>1, <2>3 DEF ItemKeyOf, Location, RoomLocation, ContainerLocation, LocationExists
    <3> QED BY <1>1, <1>2, <1>3, <2>1, <2>2, <3>1 DEF ItemKey, ItemKeys, Kept
  <2>4. CASE at.kind # "room"
    <3> DEFINE c == KeyOf(b, at.id)
    <3>1. k = ItemKey("container", c.room, c.name, b.items[i].name) /\ at.id \in DOMAIN b.containers
      BY <2>1, <2>4 DEF ItemKeyOf, Location, RoomLocation, ContainerLocation, LocationExists
    <3>2. c = ContainerKey(c.room, c.name) /\ c.room \in Name /\ c.name \in Name
          /\ c \in DOMAIN d.containers
      BY <1>2, <1>4, <3>1
    <3> HIDE DEF c
    <3> QED BY <1>1, <2>1, <2>2, <3>1, <3>2 DEF ItemKey, ItemKeys, Kept
  <2> QED BY <2>3, <2>4
<1>6. IsDocument(d)
  <2>1. IsFiniteSet(DOMAIN d.containers)
    <3>1. IsFiniteSet(DOMAIN b.containers)
      <4>1. DOMAIN b.containers \subseteq 1 .. MaxContainer
        BY HouseholdIds DEF ContainerID
      <4>2. IsFiniteSet(1 .. MaxContainer)
        BY BoundsAssumption, FS_Interval
      <4> QED BY <4>1, <4>2, FS_Subset
    <3> DEFINE name == [c \in DOMAIN b.containers |-> KeyOf(b, c)]
    <3>2. name \in Surjection(DOMAIN b.containers, DOMAIN d.containers)
      BY <1>2 DEF Surjection
    <3> QED BY <3>1, <3>2, FS_Surjection
  <2>2. /\ d.rooms = [n \in DOMAIN d.rooms |-> d.rooms[n]]
        /\ d.containers = [k \in DOMAIN d.containers |-> d.containers[k]]
        /\ d.items = [k \in DOMAIN d.items |-> d.items[k]]
    BY DEF Export
  <2>3. DOMAIN d.rooms \subseteq Written /\ \A n \in DOMAIN d.rooms : d.rooms[n] \in Text
    BY <1>1, <1>2, <1>3
  <2>4. /\ DOMAIN d.containers \subseteq ContainerKeys
        /\ \A k \in DOMAIN d.containers :
             d.containers[k] \in [parent : Written \cup {NoName}, detail : Text]
    BY <1>1, <1>2, <1>4 DEF ContainerKey, ContainerKeys
  <2>5. DOMAIN d.items \subseteq ItemKeys /\ \A k \in DOMAIN d.items : d.items[k] \in Text
    BY <1>1, <1>2, <1>5
  <2> HIDE DEF d
  <2> QED BY <2>1, <2>2, <2>3, <2>4, <2>5 DEF IsDocument
<1>7. AsExported(d)
  <2>1. \A n \in DOMAIN d.rooms : Trim[n] = n /\ Stored[d.rooms[n]] = d.rooms[n]
    BY <1>1, <1>2, <1>3
  <2>2. ASSUME NEW c \in DOMAIN b.containers
        PROVE  LET k == KeyOf(b, c) IN
               /\ StoredContainer(k) = k
               /\ Kept(d.containers[k].parent) = d.containers[k].parent
               /\ Stored[d.containers[k].detail] = d.containers[k].detail
    BY <1>1, <1>4 DEF StoredContainer, Kept
  <2>3. ASSUME NEW i \in DOMAIN b.items
        PROVE  LET k == ItemKeyOf(b, i) IN StoredItem(k) = k /\ Stored[d.items[k]] = d.items[k]
    BY <1>1, <1>5, ItemKeyParts DEF StoredItem, ItemKey
  <2> QED BY <1>2, <2>1, <2>2, <2>3 DEF AsExported
<1>8. ASSUME NEW c \in DOMAIN b.containers PROVE ~InCircle(d, KeyOf(b, c))
  <2> DEFINE cs == b.containers
             k  == KeyOf(b, c)
             q  == cs[c].parent
             S  == {KeyOf(b, x) : x \in Walk(cs, q)}
  <2> SUFFICES ASSUME ParentKey(d, k) \in DOMAIN d.containers, k \in Chain(d, ParentKey(d, k))
               PROVE  FALSE
    BY DEF InCircle
  <2>1. q \in DOMAIN cs /\ ParentKey(d, k) = KeyOf(b, q) /\ Acyclic(cs)
    BY ExportedParent DEF Household
  <2>2. Walk(cs, q) \subseteq DOMAIN cs /\ q \in Walk(cs, q) /\ c \notin Walk(cs, q)
    BY <2>1, WalkFacts, NotAboveItsParent
  <2>3. ParentKey(d, k) \in S /\ S \in SUBSET DOMAIN d.containers
    BY <1>2, <2>1, <2>2
  <2>4. ASSUME NEW x \in Walk(cs, q), ParentKey(d, KeyOf(b, x)) \in DOMAIN d.containers
        PROVE  ParentKey(d, KeyOf(b, x)) \in S
    <3>1. cs[x].parent \in DOMAIN cs /\ ParentKey(d, KeyOf(b, x)) = KeyOf(b, cs[x].parent)
      BY <2>2, <2>4, ExportedParent
    <3> QED BY <2>1, <3>1, WalkFacts
  <2>5. \A y \in S : ParentKey(d, y) \in DOMAIN d.containers => ParentKey(d, y) \in S
    BY <2>4
  <2>6. k \notin S
    BY <2>2, UniqueKeys
  <2> HIDE DEF S
  <2> QED BY <2>3, <2>5, <2>6 DEF Chain
<1>9. Accepts(d, w)
  <2>1. \A n \in DOMAIN d.rooms : n \in KnownRooms(d, w) /\ Trim[n] = n
    BY <1>7 DEF KnownRooms, AsExported
  <2>2. DOMAIN d.containers \subseteq KnownContainers(d, w)
    BY DEF KnownContainers
  <2>3. \A k \in DOMAIN d.containers :
          /\ k.room \in KnownRooms(d, w)
          /\ d.containers[k].parent # NoName => ParentKey(d, k) \in KnownContainers(d, w)
          /\ ~InCircle(d, k)
    BY <1>2, <1>4, <1>8, <2>1, <2>2
  <2>4. \A k \in DOMAIN d.items :
          IF k.kind = "room" THEN k.room \in KnownRooms(d, w)
          ELSE ContainerKey(k.room, k.container) \in KnownContainers(d, w)
    BY <1>2, <1>5, <2>1, <2>2
  <2>5. \A k \in DOMAIN d.items : [k EXCEPT !.name = Trim[@]] = k
    <3>1. \A k \in DOMAIN d.items : k \in ItemKeys /\ Trim[k.name] = k.name
      BY <1>1, <1>2, <1>5
    <3> QED BY <3>1, ItemKeyParts
  <2> HIDE DEF d
  <2> QED BY <2>1, <2>3, <2>4, <2>5, Zenon DEF Accepts
<1> QED BY <1>6, <1>7, <1>9

-----------------------------------------------------------------------------
\* The inductive invariant: the household, what an import knows, what stands.
THEOREM InductiveInvariant == Spec => []IInv
<1> QED
  BY InitIInv, NextIInv, PTL DEF Spec

-----------------------------------------------------------------------------
\* The ids an import works with are of the right kind, whenever it is stopped.
THEOREM TypeCorrect == Spec => []TypeOK
<1>1. IInv => TypeOK
  BY DEF IInv
<1> QED
  BY <1>1, InductiveInvariant, PTL

\* What a finished import left is what an export writes: every entry, under its
\* stored name, with its stored fields and its parent.
THEOREM ImportGivesBack == Spec => []ImportedAsWritten
<1>1. IInv => ImportedAsWritten
  <2> SUFFICES ASSUME IInv, settled PROVE ImportedAsWritten
    BY DEF ImportedAsWritten
  <2> DEFINE now == Export(db)
  <2>1. Household(db) /\ doc \in Documents /\ Stand(db, doc, Entries(doc))
    BY DEF IInv, Settled
  <2>2. ASSUME NEW n \in DOMAIN doc.rooms
        PROVE  Trim[n] \in DOMAIN now.rooms /\ now.rooms[Trim[n]] = Stored[doc.rooms[n]]
    <3>1. PICK r \in RoomID : RoomStands(db, doc, n, r)
      BY <2>1 DEF Stand, RoomsStand, Entries
    <3>2. /\ r \in DOMAIN db.rooms /\ RoomName(db, r) = Trim[n]
          /\ db.rooms[r].detail = Stored[doc.rooms[n]]
      BY <3>1 DEF RoomStands, RoomName
    <3> QED BY <2>1, <3>2, ExportRow
  <2>3. ASSUME NEW k \in DOMAIN doc.containers
        PROVE  LET key == StoredContainer(k)  written == doc.containers[k] IN
               /\ key \in DOMAIN now.containers
               /\ now.containers[key].parent = Kept(written.parent)
               /\ now.containers[key].detail = Stored[written.detail]
    <3>1. PICK c \in ContainerID : ContainerStands(db, doc, k, c)
      BY <2>1 DEF Stand, ContainersStand, Entries
    <3>2. /\ c \in DOMAIN db.containers /\ KeyOf(db, c) = StoredContainer(k)
          /\ db.containers[c].detail = Stored[doc.containers[k].detail]
          /\ IF doc.containers[k].parent = NoName THEN db.containers[c].parent = Nil
             ELSE /\ db.containers[c].parent # Nil
                  /\ db.containers[db.containers[c].parent].name = Trim[doc.containers[k].parent]
      BY <2>1, <3>1, HouseholdIds DEF ContainerStands
    <3> DEFINE row == [parent |-> IF db.containers[c].parent = Nil THEN NoName
                                  ELSE db.containers[db.containers[c].parent].name,
                       detail |-> db.containers[c].detail]
    <3>3. StoredContainer(k) \in DOMAIN now.containers /\ now.containers[StoredContainer(k)] = row
      BY <2>1, <3>2, ExportRow
    <3>4. row.parent = Kept(doc.containers[k].parent)
      BY <3>2 DEF Kept
    <3> QED BY <3>2, <3>3, <3>4
  <2>4. ASSUME NEW k \in DOMAIN doc.items
        PROVE  /\ StoredItem(k) \in DOMAIN now.items
               /\ now.items[StoredItem(k)] = Stored[doc.items[k]]
    <3>1. PICK i \in ItemID : ItemStands(db, doc, k, i)
      BY <2>1 DEF Stand, ItemsStand, Entries
    <3> QED BY <2>1, <3>1, ExportRow DEF ItemStands
  <2> QED BY <2>2, <2>3, <2>4 DEF ImportedAsWritten
<1> QED
  BY <1>1, InductiveInvariant, PTL

\* An import that is applied, or stopped anywhere, leaves what its document
\* does not mention as it was.
LEMMA EntryTouchesItsOwn ==
  ASSUME IInv, status = "applying", Apply, ~Refuse
  PROVE  LET was == Export(db)  now == Export(db') IN
         /\ SameBut(was.rooms, now.rooms, {Trim[n] : n \in DOMAIN doc.rooms})
         /\ SameBut(was.containers, now.containers,
                    {StoredContainer(k) : k \in DOMAIN doc.containers})
         /\ SameBut(was.items, now.items, {StoredItem(k) : k \in DOMAIN doc.items})
<1> DEFINE R == {Trim[n] : n \in DOMAIN doc.rooms}
           C == {StoredContainer(k) : k \in DOMAIN doc.containers}
           I == {StoredItem(k) : k \in DOMAIN doc.items}
           Rooms == \A r \in DOMAIN db'.rooms :
             RoomName(db', r) \in R \/ (r \in DOMAIN db.rooms /\ db'.rooms[r] = db.rooms[r])
           Containers == \A c \in DOMAIN db'.containers :
             \/ KeyOf(db', c) \in C
             \/ c \in DOMAIN db.containers /\ db'.containers[c] = db.containers[c]
           Items == \A i \in DOMAIN db'.items :
             ItemKeyOf(db', i) \in I \/ (i \in DOMAIN db.items /\ db'.items[i] = db.items[i])
<1>1. Household(db)
  BY DEF IInv
<1>2. ASSUME NEW n \in DOMAIN doc.rooms, ApplyRoom(n)
      PROVE  Household(db') /\ Grows(db, db') /\ Rooms /\ Containers /\ Items
  <2>1. PICK r \in RoomID : RoomWritten(db, db', r, RoomRowOf(n))
    BY <1>2, RoomStep
  <2>2. Household(db') /\ Grows(db, db')
    BY <1>1, <1>2, <2>1, RoomStep, MutationSound, WritesGrow
  <2>3. Rooms
    BY <2>1 DEF RoomWritten, Put, RoomRowOf, RoomName
  <2> QED BY <2>1, <2>2, <2>3 DEF RoomWritten
<1>3. ASSUME NEW k \in DOMAIN doc.containers, ApplyContainer(k)
      PROVE  Household(db') /\ Grows(db, db') /\ Rooms /\ Containers /\ Items
  <2>1. PICK c \in ContainerID : ContainerWritten(db, db', c, ContainerRowOf(k))
    BY <1>3, ContainerStep
  <2>2. Household(db') /\ Grows(db, db')
    BY <1>1, <1>3, <2>1, ContainerStep, MutationSound, WritesGrow
  <2>3. ContainerStands(db', doc, k, c)
    BY <1>3, <2>1, NewContainerStands DEF ApplyContainer
  <2>4. Containers
    BY <2>1, <2>3 DEF ContainerWritten, Put, ContainerStands
  <2> QED BY <2>1, <2>2, <2>4 DEF ContainerWritten
<1>4. ASSUME NEW k \in DOMAIN doc.items, ApplyItem(k)
      PROVE  Household(db') /\ Grows(db, db') /\ Rooms /\ Containers /\ Items
  <2>1. PICK i \in ItemID : ItemWritten(db, db', i, ItemRowOf(k))
    BY <1>4, ItemStep
  <2>2. Household(db') /\ Grows(db, db')
    BY <1>1, <1>4, <2>1, ItemStep, MutationSound, WritesGrow
  <2>3. ItemStands(db', doc, k, i)
    BY <1>4, <2>1, NewItemStands DEF ApplyItem
  <2>4. Items
    BY <2>1, <2>3 DEF ItemWritten, Put, ItemStands
  <2> QED BY <2>1, <2>2, <2>4 DEF ItemWritten
<1>5. Household(db') /\ Grows(db, db') /\ Rooms /\ Containers /\ Items
  BY <1>2, <1>3, <1>4 DEF Apply
<1> HIDE DEF R, C, I
<1> QED BY <1>1, <1>5, GrowthShows DEF R, C, I

\* The rest of the household, its fields, parents and places, survives an
\* import of any document, one that is abandoned half way included.
THEOREM RestUntouched == Spec => OnlyMentionedChanges
<1> DEFINE Touches ==
      status = "applying" =>
        LET was == Export(db)  now == Export(db') IN
        /\ SameBut(was.rooms, now.rooms, {Trim[n] : n \in DOMAIN doc.rooms})
        /\ SameBut(was.containers, now.containers,
                   {StoredContainer(k) : k \in DOMAIN doc.containers})
        /\ SameBut(was.items, now.items, {StoredItem(k) : k \in DOMAIN doc.items})
<1>1. IInv /\ [Next]_vars => [Touches]_vars
  <2> SUFFICES ASSUME IInv, Next, status = "applying" PROVE Touches
    OBVIOUS
  <2>1. ASSUME db' = db PROVE Touches
    BY <2>1 DEF SameBut
  <2>2. CASE Apply
    BY <2>1, <2>2, EntryTouchesItsOwn DEF Refuse
  <2>3. CASE ~Apply
    BY <2>1, <2>3 DEF Next, Outside, Start, Finish, Stop
  <2> QED BY <2>2, <2>3
<1> QED
  BY <1>1, InductiveInvariant, PTL DEF Spec, OnlyMentionedChanges

\* An export imported again, while nobody else wrote, is found unchanged: no
\* row and no event is written, and nothing is refused. (A document whose names
\* or tags are not spelled as they are stored is another matter: backup_again.)
THEOREM ReimportIsQuiet ==
  ASSUME \A d \in Documents : AsExported(d)
  PROVE  Spec => SecondImportIsQuiet
<1> DEFINE Quietly == settled /\ status = "applying" => ~wrote' /\ status' # "refused"
<1>1. IInv /\ [Next]_vars => [Quietly]_vars
  <2> SUFFICES ASSUME IInv, Next, settled, status = "applying"
               PROVE  ~wrote' /\ status' # "refused"
    OBVIOUS
  <2>1. AsExported(doc) /\ ~wrote
    BY DEF IInv, Applying, Quiet
  <2>2. CASE Apply
    BY <2>1, <2>2, QuietApply
  <2>3. CASE ~Apply
    BY <2>3 DEF Next, Outside, Start, Finish, Stop
  <2> QED BY <2>2, <2>3
<1> QED
  BY <1>1, InductiveInvariant, PTL DEF Spec, SecondImportIsQuiet

\* To the inventory, and to whoever reads its log, an import is a sequence of
\* ordinary calls.
THEOREM ImplementsInventory == Spec => INV!Spec
<1>1. Init => INV!Init
  BY DEF Init
<1>2. IInv /\ [Next]_vars => [INV!Next]_(INV!vars)
  <2> SUFFICES ASSUME IInv, [Next]_vars PROVE INV!Next \/ UNCHANGED <<db, audit>>
    BY DEF INV!vars
  <2>1. CASE Refuse
    BY <2>1 DEF Refuse
  <2>2. CASE Apply /\ ~Refuse
    BY <2>2, RoomStep, ContainerStep, ItemStep DEF Apply, ApplyRoom, ApplyContainer, ApplyItem
  <2>3. CASE UNCHANGED vars
    BY <2>3 DEF vars
  <2> QED BY <2>1, <2>2, <2>3 DEF Next, Outside, Start, Finish, Stop
<1> QED
  BY <1>1, <1>2, InductiveInvariant, PTL DEF Spec, INV!Spec
=============================================================================
