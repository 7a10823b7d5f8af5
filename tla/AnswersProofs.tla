---------------------------- MODULE AnswersProofs ----------------------------
(***************************************************************************)
(* What can be relied on of an answer put together from several queries,   *)
(* for any homes, any requests and any number of writes in between. First  *)
(* what the operators of Locations compute: how a container's path is made *)
(* of its chain and how it is written, what Resolve answers. Then the      *)
(* inductive invariant: every listing a call holds is that of a database   *)
(* it has run against, and what a call resolves from it is a place of a    *)
(* household. One lemma for each query and for the writes, and at the end  *)
(* the theorems about Answers.                                             *)
(***************************************************************************)
EXTENDS Answers, InventoryProofs, FiniteSetTheorems, SequenceTheorems, WellFoundedInduction

\* A set of numbers has a least one.
LEMMA LeastNat ==
  ASSUME NEW T \in SUBSET Nat, T # {}
  PROVE  \E n \in T : \A m \in T : n <= m
<1> DEFINE R == OpToRel(<, Nat)
<1>1. IsWellFoundedOn(R, Nat)
  BY NatLessThanWellFounded
<1>2. \A x, y \in Nat : x < y => <<x, y>> \in R
  BY DEF OpToRel
<1> HIDE DEF R
<1>3. PICK x \in T : \A y \in T : <<y, x>> \notin R
  BY <1>1, WFMin
<1>4. ASSUME NEW y \in T PROVE x <= y
  <2>1. x \in Nat /\ y \in Nat /\ ~(y < x)
    BY <1>2, <1>3
  <2> QED
    BY <2>1
<1> QED
  BY <1>4

-----------------------------------------------------------------------------
(* Listings.                                                               *)

RoomListing(rooms) ==
  /\ IsTable(rooms, RoomID, RoomRow)
  /\ \A r, s \in DOMAIN rooms : rooms[r].name = rooms[s].name => r = s

ContainerListing(cs) ==
  /\ IsTable(cs, ContainerID, ContainerRow)
  /\ Acyclic(cs)
  /\ \A c \in DOMAIN cs : cs[c].parent \in DOMAIN cs \cup {Nil}
  /\ \A c \in DOMAIN cs : cs[c].parent \in DOMAIN cs => cs[c].room = cs[cs[c].parent].room
  /\ \A c, d \in DOMAIN cs : cs[c].room = cs[d].room /\ cs[c].name = cs[d].name => c = d

ItemListing(items) ==
  /\ IsTable(items, ItemID, ItemRow)
  /\ \A i, j \in DOMAIN items :
       items[i].location = items[j].location /\ items[i].name = items[j].name => i = j

\* A container with those above it.
Chain(cs, c) == Rows(cs, Walk(cs, c))

LEMMA HouseholdListings ==
  ASSUME NEW d, Household(d)
  PROVE  RoomListing(d.rooms) /\ ContainerListing(d.containers) /\ ItemListing(d.items)
  BY DEF Household, IsDB, ReferencesExistIn, SubtreesShareRoom, NamesUniqueIn, RoomListing,
     ContainerListing, ItemListing

LEMMA IdsAreFinite == IsFiniteSet(RoomID) /\ IsFiniteSet(ContainerID) /\ IsFiniteSet(ItemID)
  BY BoundsAssumption, FS_Interval DEF RoomID, ContainerID, ItemID

LEMMA RowsFacts ==
  ASSUME NEW table, NEW ids
  PROVE  /\ DOMAIN Rows(table, ids) = DOMAIN table \cap ids
         /\ \A x \in DOMAIN table \cap ids : Rows(table, ids)[x] = table[x]
  BY DEF Rows, Restrict

LEMMA RowsTable ==
  ASSUME NEW table, NEW ids, NEW Id, NEW Row, IsTable(table, Id, Row)
  PROVE  IsTable(Rows(table, ids), Id, Row)
  BY DEF IsTable, Rows, Restrict

LEMMA RowsListing ==
  ASSUME NEW table, NEW ids
  PROVE  /\ RoomListing(table) => RoomListing(Rows(table, ids))
         /\ ItemListing(table) => ItemListing(Rows(table, ids))
<1> DEFINE some == Rows(table, ids)
<1>1. DOMAIN some \subseteq DOMAIN table /\ \A x \in DOMAIN some : some[x] = table[x]
  BY RowsFacts
<1>2. /\ IsTable(table, RoomID, RoomRow) => IsTable(some, RoomID, RoomRow)
      /\ IsTable(table, ItemID, ItemRow) => IsTable(some, ItemID, ItemRow)
  BY RowsTable
<1> HIDE DEF some
<1> QED
  BY <1>1, <1>2 DEF RoomListing, ItemListing, some

-----------------------------------------------------------------------------
(* The containers above a container.                                       *)

LEMMA WalkUp ==
  ASSUME NEW cs, NEW c \in DOMAIN cs, NEW x \in Walk(cs, c)
  PROVE  x \in DOMAIN cs /\ Walk(cs, x) \subseteq Walk(cs, c)
<1>1. Walk(cs, c) \in SUBSET DOMAIN cs
  BY WalkFacts
<1> QED
  BY <1>1, WalkFacts, WalkLeast

\* A container is above itself, and so is what is above its parent.
LEMMA WalkStep ==
  ASSUME NEW cs, NEW c \in DOMAIN cs
  PROVE  Walk(cs, c) = {c} \cup (IF cs[c].parent \in DOMAIN cs THEN Walk(cs, cs[c].parent) ELSE {})
<1> DEFINE p == cs[c].parent
           S == {c} \cup (IF p \in DOMAIN cs THEN Walk(cs, p) ELSE {})
<1>1. S \in SUBSET DOMAIN cs /\ c \in S
  BY WalkFacts
<1>2. \A y \in S : cs[y].parent \in DOMAIN cs => cs[y].parent \in S
  BY WalkFacts
<1>3. S \subseteq Walk(cs, c)
  <2>1. {c} \subseteq Walk(cs, c)
    BY WalkFacts
  <2>2. p \in DOMAIN cs => Walk(cs, p) \subseteq Walk(cs, c)
    <3>1. p \in DOMAIN cs => p \in Walk(cs, c)
      BY WalkFacts
    <3> QED
      BY <3>1, WalkUp
  <2> QED
    BY <2>1, <2>2
<1> HIDE DEF S
<1>4. Walk(cs, c) \subseteq S
  BY <1>1, <1>2, WalkLeast
<1>5. Walk(cs, c) = S
  BY <1>3, <1>4
<1> QED
  BY <1>5 DEF S

\* What is above another container has fewer above it.
LEMMA HigherIsShallower ==
  ASSUME NEW cs, ContainerListing(cs), NEW c \in DOMAIN cs
  PROVE  /\ IsFiniteSet(Walk(cs, c)) /\ Cardinality(Walk(cs, c)) \in Nat \ {0}
         /\ \A x \in Walk(cs, c) \ {c} : Cardinality(Walk(cs, x)) < Cardinality(Walk(cs, c))
<1>1. IsFiniteSet(DOMAIN cs)
  <2>1. DOMAIN cs \in SUBSET ContainerID
    BY DEF ContainerListing, IsTable
  <2> QED
    BY <2>1, IdsAreFinite, FS_Subset
<1>2. IsFiniteSet(Walk(cs, c)) /\ c \in Walk(cs, c)
  BY <1>1, WalkFacts, FS_Subset
<1>3. Cardinality(Walk(cs, c)) \in Nat \ {0}
  BY <1>2, FS_CardinalityType, FS_EmptySet
<1>4. ASSUME NEW x \in Walk(cs, c) \ {c} PROVE Cardinality(Walk(cs, x)) < Cardinality(Walk(cs, c))
  <2>1. x \in DOMAIN cs /\ Walk(cs, x) \subseteq Walk(cs, c)
    BY <1>4, WalkUp
  <2>2. c \notin Walk(cs, x)
    <3>1. cs[c].parent \in DOMAIN cs /\ x \in Walk(cs, cs[c].parent)
      BY <1>4, WalkStep
    <3>2. c \notin Walk(cs, cs[c].parent)
      BY <3>1, NotAboveItsParent DEF ContainerListing
    <3> QED
      BY <3>1, <3>2, WalkUp
  <2>3. IsFiniteSet(Walk(cs, x)) /\ Cardinality(Walk(cs, x)) <= Cardinality(Walk(cs, c))
        /\ Cardinality(Walk(cs, x)) # Cardinality(Walk(cs, c))
    BY <1>2, <2>1, <2>2, FS_Subset
  <2>4. Cardinality(Walk(cs, x)) \in Nat
    BY <2>3, FS_CardinalityType
  <2> QED
    BY <1>3, <2>3, <2>4
<1> QED
  BY <1>2, <1>3, <1>4

\* All that is above a container is in its room.
LEMMA WalkSharesRoom ==
  ASSUME NEW cs, ContainerListing(cs), NEW c \in DOMAIN cs
  PROVE  \A x \in Walk(cs, c) : cs[x].room = cs[c].room
<1> DEFINE S == {x \in DOMAIN cs : cs[x].room = cs[c].room}
<1>1. \A y \in S : cs[y].parent \in DOMAIN cs => cs[y].parent \in S
  BY DEF ContainerListing
<1>2. Walk(cs, c) \subseteq S
  BY <1>1, WalkLeast
<1> QED
  BY <1>2

\* The chain of a container holds all that its own containers look up to.
LEMMA ChainWalk ==
  ASSUME NEW cs, NEW c \in DOMAIN cs
  PROVE  /\ DOMAIN Chain(cs, c) = Walk(cs, c)
         /\ \A x \in Walk(cs, c) : Chain(cs, c)[x] = cs[x] /\ Walk(Chain(cs, c), x) = Walk(cs, x)
<1> DEFINE ch == Chain(cs, c)
<1>1. Walk(cs, c) \subseteq DOMAIN cs
  BY WalkFacts
<1>2. DOMAIN ch = Walk(cs, c) /\ \A x \in Walk(cs, c) : ch[x] = cs[x]
  <2>1. DOMAIN cs \cap Walk(cs, c) = Walk(cs, c)
    BY <1>1
  <2> QED
    BY <2>1, RowsFacts DEF Chain
<1> HIDE DEF ch
<1>3. ASSUME NEW x \in Walk(cs, c) PROVE Walk(ch, x) = Walk(cs, x)
  <2>1. x \in DOMAIN cs /\ Walk(cs, x) \subseteq DOMAIN ch
    BY <1>2, WalkUp
  <2>2. \A y \in Walk(cs, x) : ch[y].parent \in DOMAIN ch => ch[y].parent \in Walk(cs, x)
    BY <1>1, <1>2, <2>1, WalkFacts
  <2>3. Walk(ch, x) \subseteq Walk(cs, x)
    BY <2>1, <2>2, WalkFacts, WalkLeast
  <2>4. x \in Walk(ch, x) /\ Walk(ch, x) \subseteq DOMAIN cs
    BY <1>1, <1>2, WalkFacts
  <2>5. ASSUME NEW y \in Walk(ch, x), cs[y].parent \in DOMAIN cs PROVE cs[y].parent \in Walk(ch, x)
    <3>1. y \in Walk(cs, c) /\ ch[y] = cs[y] /\ cs[y].parent \in Walk(cs, c)
      BY <1>2, <2>5, WalkFacts
    <3> QED
      BY <1>2, <3>1, WalkFacts
  <2>6. Walk(cs, x) \subseteq Walk(ch, x)
    BY <2>4, <2>5, WalkLeast
  <2> QED
    BY <2>3, <2>6
<1> QED
  BY <1>2, <1>3 DEF ch

LEMMA ChainListing ==
  ASSUME NEW cs, ContainerListing(cs), NEW c \in DOMAIN cs
  PROVE  ContainerListing(Chain(cs, c))
<1> DEFINE ch == Chain(cs, c)
<1>1. /\ DOMAIN ch = Walk(cs, c) /\ Walk(cs, c) \subseteq DOMAIN cs
      /\ \A x \in DOMAIN ch : ch[x] = cs[x]
  BY ChainWalk, WalkFacts
<1>2. IsTable(ch, ContainerID, ContainerRow)
  BY RowsTable DEF ContainerListing, Chain
<1>3. \A x \in DOMAIN ch : cs[x].parent \in DOMAIN ch \cup {Nil}
  BY <1>1, WalkFacts DEF ContainerListing
<1> HIDE DEF ch
<1>4. Acyclic(ch)
  BY <1>1 DEF ContainerListing, Acyclic
<1> QED
  BY <1>1, <1>2, <1>3, <1>4 DEF ContainerListing, ch

-----------------------------------------------------------------------------
(* Paths.                                                                  *)

LEMMA PrefixOne ==
  ASSUME NEW S, NEW a \in S, NEW s \in Seq(S)
  PROVE  /\ <<a>> \o s = [k \in 1 .. Len(s) + 1 |-> IF k = 1 THEN a ELSE s[k - 1]]
         /\ Len(<<a>> \o s) = Len(s) + 1
  OBVIOUS

\* There is a container at every depth down to a container's own.
LEMMA NestingFull ==
  ASSUME NEW index, ContainerListing(index.containers)
  PROVE  \A c \in DOMAIN index.containers : \A k \in 1 .. Depth(index, c) :
           Nesting(index, c)[k] \in Walk(index.containers, c)
<1> DEFINE cs == index.containers
           Gap(c) == \E k \in 1 .. Depth(index, c) : \A x \in Walk(cs, c) : Depth(index, x) # k
           bad == {Depth(index, c) : c \in {x \in DOMAIN cs : Gap(x)}}
<1>1. \A c \in DOMAIN cs : /\ Depth(index, c) \in Nat /\ c \in Walk(cs, c)
                           /\ \A x \in Walk(cs, c) \ {c} : Depth(index, x) < Depth(index, c)
  BY HigherIsShallower, WalkFacts DEF Depth
<1>2. \A c \in DOMAIN cs : ~Gap(c)
  <2> SUFFICES ASSUME bad # {} PROVE FALSE
    OBVIOUS
  <2>1. bad \in SUBSET Nat
    BY <1>1
  <2>2. PICK n \in bad : \A m \in bad : n <= m
    <3> HIDE DEF bad
    <3> QED BY <2>1, LeastNat
  <2>3. PICK c \in DOMAIN cs : Gap(c) /\ Depth(index, c) = n
    BY <2>2
  <2>4. PICK k \in 1 .. Depth(index, c) : \A x \in Walk(cs, c) : Depth(index, x) # k
    BY <2>3
  <2> DEFINE p == cs[c].parent
  <2>5. CASE p \in DOMAIN cs
    <3>1. Walk(cs, c) = {c} \cup Walk(cs, p) /\ c \notin Walk(cs, p) /\ p \in Walk(cs, p)
      BY <2>5, WalkStep, NotAboveItsParent, WalkFacts DEF ContainerListing
    <3>2. Depth(index, c) = Depth(index, p) + 1
      <4>1. IsFiniteSet(Walk(cs, p))
        BY <2>5, HigherIsShallower
      <4>2. Cardinality(Walk(cs, p) \cup {c}) = Cardinality(Walk(cs, p)) + 1
        <5> DEFINE S == Walk(cs, p)
        <5>1. IsFiniteSet(S) /\ c \notin S
          BY <3>1, <4>1
        <5> HIDE DEF S
        <5>2. Cardinality(S \cup {c}) = Cardinality(S) + 1
          BY <5>1, FS_AddElement
        <5> QED
          BY <5>2 DEF S
      <4>3. Walk(cs, c) = Walk(cs, p) \cup {c}
        BY <3>1
      <4> QED
        BY <4>2, <4>3 DEF Depth
    <3>3. Depth(index, p) \in Nat /\ ~Gap(p)
      <4>1. Depth(index, p) \in Nat /\ n = Depth(index, p) + 1
        BY <1>1, <2>3, <2>5, <3>2
      <4>2. ASSUME Gap(p) PROVE Depth(index, p) \in bad
        BY <2>5, <4>2
      <4>3. Depth(index, p) \notin bad
        BY <2>2, <4>1
      <4> HIDE DEF bad, Gap
      <4> QED
        BY <4>1, <4>2, <4>3
    <3>4. k \in 1 .. Depth(index, p)
      BY <1>1, <2>4, <3>2, <3>3
    <3> QED
      BY <2>4, <3>1, <3>3, <3>4
  <2>6. CASE p \notin DOMAIN cs
    <3>1. Walk(cs, c) = {c}
      BY <2>6, WalkStep
    <3>2. Depth(index, c) = 1
      BY <3>1, FS_Singleton DEF Depth
    <3> QED
      BY <1>1, <2>4, <3>2
  <2> QED
    BY <2>5, <2>6
<1> QED
  <2> SUFFICES ASSUME NEW c \in DOMAIN cs, NEW k \in 1 .. Depth(index, c)
               PROVE  Nesting(index, c)[k] \in Walk(cs, c)
    OBVIOUS
  <2>1. \E x \in Walk(cs, c) : Depth(index, x) = k
    BY <1>2
  <2>2. Nesting(index, c)[k] = CHOOSE x \in Walk(cs, c) : Depth(index, x) = k
    BY DEF Nesting
  <2> QED
    BY <2>1, <2>2

\* A container's path, name by name.
LEMMA PathNames ==
  ASSUME NEW index, NEW c, index.containers[c].room \in DOMAIN index.rooms,
         Depth(index, c) \in Nat
  PROVE  PathOf(index, c) =
           [k \in 1 .. Depth(index, c) + 1 |->
              IF k = 1 THEN index.rooms[index.containers[c].room].name
              ELSE index.containers[Nesting(index, c)[k - 1]].name]
<1> DEFINE n == Depth(index, c)
           down == Nesting(index, c)
           a == index.rooms[index.containers[c].room].name
           s == [k \in 1 .. n |-> index.containers[down[k]].name]
           S == {a} \cup {s[k] : k \in 1 .. n}
<1>1. DOMAIN down = 1 .. n
  BY DEF Nesting
<1>2. PathOf(index, c) = <<a>> \o s
  BY <1>1 DEF PathOf
<1> HIDE DEF n, down, a
<1>3. n \in Nat
  BY DEF n
<1>4. s \in Seq(S) /\ Len(s) = n /\ a \in S
  BY <1>3
<1>5. \A k \in 1 .. n : s[k] = index.containers[down[k]].name
  OBVIOUS
<1> HIDE DEF s, S
<1>6. <<a>> \o s = [k \in 1 .. n + 1 |-> IF k = 1 THEN a ELSE s[k - 1]]
  BY <1>4, PrefixOne
<1>7. \A k \in 1 .. n + 1 : k # 1 => k - 1 \in 1 .. n
  BY <1>3
<1> QED
  BY <1>2, <1>5, <1>6, <1>7 DEF n, down, a

\* A path ends in the name of the container itself.
LEMMA PathEnds ==
  ASSUME NEW index, RoomListing(index.rooms), ContainerListing(index.containers),
         NEW c \in DOMAIN index.containers, index.containers[c].room \in DOMAIN index.rooms
  PROVE  /\ Len(PathOf(index, c)) = Depth(index, c) + 1 /\ Depth(index, c) \in Nat \ {0}
         /\ PathOf(index, c)[1] = index.rooms[index.containers[c].room].name
         /\ PathOf(index, c)[Depth(index, c) + 1] = index.containers[c].name
<1> DEFINE n == Depth(index, c)
           W == Walk(index.containers, c)
<1>1. n \in Nat \ {0} /\ \A x \in W \ {c} : Depth(index, x) < n
  BY HigherIsShallower DEF Depth
<1>2. c \in W
  BY WalkFacts
<1>3. Nesting(index, c)[n] = c
  <2>1. Nesting(index, c)[n] = CHOOSE x \in W : Depth(index, x) = n
    BY <1>1 DEF Nesting
  <2>2. \A x \in W : Depth(index, x) = n <=> x = c
    BY <1>1
  <2> HIDE DEF n, W
  <2> QED
    BY <1>2, <2>1, <2>2
<1>4. PathOf(index, c) =
        [k \in 1 .. n + 1 |-> IF k = 1 THEN index.rooms[index.containers[c].room].name
                              ELSE index.containers[Nesting(index, c)[k - 1]].name]
  BY <1>1, PathNames
<1> HIDE DEF n
<1> QED
  BY <1>1, <1>3, <1>4 DEF n

\* A path depends on no more than the chain of the container and its room.
LEMMA PathByChain ==
  ASSUME NEW i, NEW j, NEW c \in DOMAIN i.containers, c \in DOMAIN j.containers,
         ContainerListing(i.containers),
         Chain(i.containers, c) = Chain(j.containers, c),
         LET r == i.containers[c].room IN
           /\ r \in DOMAIN i.rooms <=> r \in DOMAIN j.rooms
           /\ r \in DOMAIN i.rooms => i.rooms[r].name = j.rooms[r].name
  PROVE  PathOf(i, c) = PathOf(j, c)
<1> DEFINE W == Walk(i.containers, c)
<1>1. /\ Walk(j.containers, c) = W /\ c \in W
      /\ \A x \in W : /\ i.containers[x] = j.containers[x]
                      /\ Walk(i.containers, x) = Walk(j.containers, x)
  BY ChainWalk, WalkFacts
<1>2. \A x \in W : Depth(i, x) = Depth(j, x)
  BY <1>1 DEF Depth
<1> HIDE DEF W
<1>3. Nesting(i, c) = Nesting(j, c)
  <2>1. \A k : (CHOOSE x \in W : Depth(i, x) = k) = (CHOOSE x \in W : Depth(j, x) = k)
    BY <1>2
  <2> QED
    BY <1>1, <1>2, <2>1 DEF Nesting, W
<1>4. Depth(i, c) \in Nat
  BY HigherIsShallower DEF Depth
<1>5. \A k \in 1 .. Depth(i, c) : Nesting(i, c)[k] \in W
  BY NestingFull DEF W
<1>6. Depth(j, c) = Depth(i, c) /\ Nesting(j, c) = Nesting(i, c)
  BY <1>1, <1>2, <1>3
<1>7. j.containers[c].room = i.containers[c].room
  BY <1>1
<1>8. CASE i.containers[c].room \notin DOMAIN i.rooms
  BY <1>7, <1>8 DEF PathOf
<1>9. CASE i.containers[c].room \in DOMAIN i.rooms
  <2>1. \A k \in 1 .. Depth(i, c) + 1 : k # 1 =>
          i.containers[Nesting(i, c)[k - 1]].name = j.containers[Nesting(i, c)[k - 1]].name
    <3>1. \A k \in 1 .. Depth(i, c) + 1 : k # 1 => k - 1 \in 1 .. Depth(i, c)
      BY <1>4
    <3> QED
      BY <1>1, <1>5, <3>1
  <2>2. PathOf(i, c) =
          [k \in 1 .. Depth(i, c) + 1 |-> IF k = 1 THEN i.rooms[i.containers[c].room].name
                                         ELSE i.containers[Nesting(i, c)[k - 1]].name]
    BY <1>4, <1>9, PathNames
  <2>3. PathOf(j, c) =
          [k \in 1 .. Depth(i, c) + 1 |-> IF k = 1 THEN j.rooms[i.containers[c].room].name
                                         ELSE j.containers[Nesting(i, c)[k - 1]].name]
    <3>1. j.containers[c].room \in DOMAIN j.rooms /\ Depth(j, c) \in Nat
      BY <1>4, <1>6, <1>7, <1>9
    <3> QED
      BY <1>6, <1>7, <3>1, PathNames
  <2> QED
    BY <1>9, <2>1, <2>2, <2>3
<1> QED
  BY <1>8, <1>9

\* A nested container reads as its parent followed by its own name, one that
\* is not as its room.
LEMMA PathAppends ==
  ASSUME NEW index, ContainerListing(index.containers), NEW c \in DOMAIN index.containers,
         index.containers[c].room \in DOMAIN index.rooms
  PROVE  LET p == index.containers[c].parent
             n == index.containers[c].name IN
         /\ p \in DOMAIN index.containers => PathOf(index, c) = Append(PathOf(index, p), n)
         /\ p \notin DOMAIN index.containers =>
              PathOf(index, c) = Append(<<index.rooms[index.containers[c].room].name>>, n)
<1> DEFINE cs == index.containers
           p == cs[c].parent
           a == index.rooms[cs[c].room].name
           name(k) == cs[Nesting(index, c)[k]].name
<1>1. \A x \in DOMAIN cs : /\ Depth(index, x) \in Nat \ {0} /\ x \in Walk(cs, x)
                           /\ \A y \in Walk(cs, x) \ {x} : Depth(index, y) < Depth(index, x)
  BY HigherIsShallower, WalkFacts DEF Depth
<1>2. PathOf(index, c) = [k \in 1 .. Depth(index, c) + 1 |-> IF k = 1 THEN a ELSE name(k - 1)]
  BY <1>1, PathNames
<1>3. name(Depth(index, c)) = cs[c].name
  <2>1. Nesting(index, c)[Depth(index, c)]
          = CHOOSE x \in Walk(cs, c) : Depth(index, x) = Depth(index, c)
    BY <1>1 DEF Nesting
  <2>2. \A x \in Walk(cs, c) : Depth(index, x) = Depth(index, c) <=> x = c
    BY <1>1
  <2> QED
    BY <1>1, <2>1, <2>2
<1>4. ASSUME p \in DOMAIN cs PROVE PathOf(index, c) = Append(PathOf(index, p), cs[c].name)
  <2>1. Walk(cs, c) = Walk(cs, p) \cup {c} /\ c \notin Walk(cs, p)
    BY <1>4, WalkStep, NotAboveItsParent DEF ContainerListing
  <2>2. Depth(index, c) = Depth(index, p) + 1
    BY <1>4, <2>1, HigherIsShallower, FS_AddElement DEF Depth
  <2>3. ASSUME NEW k \in 1 .. Depth(index, p) PROVE Nesting(index, p)[k] = Nesting(index, c)[k]
    <3>1. k # Depth(index, c) /\ k \in 1 .. Depth(index, c)
      BY <1>1, <1>4, <2>2
    <3>2. {x \in Walk(cs, c) : Depth(index, x) = k} = {x \in Walk(cs, p) : Depth(index, x) = k}
      BY <2>1, <3>1
    <3>3. (CHOOSE x \in Walk(cs, c) : Depth(index, x) = k)
            = (CHOOSE x \in Walk(cs, p) : Depth(index, x) = k)
      BY <3>2
    <3> QED
      BY <3>1, <3>3 DEF Nesting
  <2>4. cs[p].room = cs[c].room
    BY <1>4 DEF ContainerListing
  <2>5. PathOf(index, p) = [k \in 1 .. Depth(index, p) + 1 |-> IF k = 1 THEN a ELSE name(k - 1)]
    <3>1. PathOf(index, p) = [k \in 1 .. Depth(index, p) + 1 |->
                                IF k = 1 THEN a ELSE cs[Nesting(index, p)[k - 1]].name]
      <4>1. p \in DOMAIN cs /\ cs[p].room \in DOMAIN index.rooms /\ Depth(index, p) \in Nat
        BY <1>1, <1>4, <2>4
      <4>2. PathOf(index, p) =
              [k \in 1 .. Depth(index, p) + 1 |->
                 IF k = 1 THEN index.rooms[cs[p].room].name
                 ELSE cs[Nesting(index, p)[k - 1]].name]
        <5> HIDE DEF cs, p
        <5> QED
          BY <4>1, PathNames DEF cs
      <4> QED
        BY <2>4, <4>2
    <3>2. \A k \in 1 .. Depth(index, p) + 1 : k # 1 => k - 1 \in 1 .. Depth(index, p)
      BY <1>1, <1>4
    <3> QED
      BY <2>3, <3>1, <3>2
  <2> HIDE DEF a, name
  <2>6. \A m \in Nat : \A s, t : \A b :
          /\ s = [k \in 1 .. m + 1 |-> IF k = 1 THEN a ELSE name(k - 1)]
          /\ t = [k \in 1 .. m + 2 |-> IF k = 1 THEN a ELSE name(k - 1)]
          /\ b = name(m + 1)
          => t = Append(s, b)
    <3> SUFFICES ASSUME NEW m \in Nat, NEW s, NEW t,
                        s = [k \in 1 .. m + 1 |-> IF k = 1 THEN a ELSE name(k - 1)],
                        t = [k \in 1 .. m + 2 |-> IF k = 1 THEN a ELSE name(k - 1)]
                 PROVE  t = Append(s, name(m + 1))
      OBVIOUS
    <3> DEFINE S == {a} \cup {name(k - 1) : k \in 1 .. m + 2}
    <3>1. s \in Seq(S) /\ Len(s) = m + 1 /\ name(m + 1) \in S
      BY SMTT(30)
    <3>2. Append(s, name(m + 1)) = [k \in 1 .. m + 2 |-> IF k <= m + 1 THEN s[k] ELSE name(m + 1)]
      <4> HIDE DEF S
      <4> QED BY <3>1
    <3> QED
      BY <3>2
  <2> QED
    BY <1>1, <1>2, <1>3, <1>4, <2>2, <2>5, <2>6
<1>5. ASSUME p \notin DOMAIN cs PROVE PathOf(index, c) = Append(<<a>>, cs[c].name)
  <2>1. Walk(cs, c) = {c}
    BY <1>5, WalkStep
  <2>2. Depth(index, c) = 1
    BY <2>1, FS_Singleton DEF Depth
  <2>3. PathOf(index, c) = <<a, cs[c].name>>
    BY <1>2, <1>3, <2>2
  <2> QED
    BY <2>3
<1> QED
  BY <1>4, <1>5

-----------------------------------------------------------------------------
(* Places.                                                                 *)

Listed(index) == RoomListing(index.rooms) /\ ContainerListing(index.containers)

LEMMA PlacesAre ==
  ASSUME NEW index, Listed(index), NEW p \in Places(index)
  PROVE  /\ p \in Location /\ Known(index, p) /\ NameOf(index, p) \in Name
         /\ \/ p.kind = "room" /\ p = RoomLocation(p.id) /\ p.id \in DOMAIN index.rooms
            \/ /\ p.kind = "container" /\ p = ContainerLocation(p.id)
               /\ p.id \in DOMAIN index.containers
               /\ index.containers[p.id].room \in DOMAIN index.rooms
  BY DEF Listed, RoomListing, ContainerListing, IsTable, RoomRow, ContainerRow, Places, Location,
     RoomLocation, ContainerLocation, Known, NameOf

\* The names that lead to a place begin with its room's and end with its own.
LEMMA NamesEnd ==
  ASSUME NEW index, Listed(index), NEW p \in Places(index)
  PROVE  /\ p.kind = "room" => /\ Len(NamesTo(index, p)) = 1
                               /\ NamesTo(index, p)[1] = index.rooms[p.id].name
         /\ p.kind = "container" =>
              /\ Len(NamesTo(index, p)) = Depth(index, p.id) + 1
              /\ Depth(index, p.id) \in Nat \ {0}
              /\ NamesTo(index, p)[1] = index.rooms[index.containers[p.id].room].name
              /\ NamesTo(index, p)[Depth(index, p.id) + 1] = index.containers[p.id].name
<1>1. CASE p.kind = "room"
  BY <1>1, PlacesAre DEF NamesTo
<1>2. CASE p.kind = "container"
  <2>1. NamesTo(index, p) = PathOf(index, p.id)
    BY <1>2, PlacesAre DEF NamesTo
  <2>2. p.id \in DOMAIN index.containers /\ index.containers[p.id].room \in DOMAIN index.rooms
    BY <1>2, PlacesAre
  <2> QED
    BY <1>2, <2>1, <2>2, PathEnds DEF Listed
<1> QED
  BY <1>1, <1>2

\* A sequence with one more element.
LEMMA OneMore ==
  ASSUME NEW S, NEW s \in Seq(S), NEW i \in 2 .. Len(s)
  PROVE  [j \in 1 .. i - 1 |-> s[j]] \o <<s[i]>> = [j \in 1 .. i |-> s[j]]
<1> DEFINE r == [j \in 1 .. i - 1 |-> s[j]]
<1>1. r \in Seq(S) /\ Len(r) = i - 1 /\ s[i] \in S /\ i \in Nat
  OBVIOUS
<1>2. \A j \in 1 .. i - 1 : r[j] = s[j]
  OBVIOUS
<1> HIDE DEF r
<1>3. r \o <<s[i]>> = [j \in 1 .. i |-> IF j <= i - 1 THEN r[j] ELSE s[i]]
  BY <1>1
<1>4. \A j \in 1 .. i : (IF j <= i - 1 THEN r[j] ELSE s[i]) = s[j]
  BY <1>1, <1>2
<1> QED
  BY <1>3, <1>4 DEF r

\* Sequences of one element each, put together.
LEMMA FlattenSingletons ==
  ASSUME NEW S, NEW s \in Seq(S), s # <<>>
  PROVE  FlattenSeq([k \in 1 .. Len(s) |-> <<s[k]>>]) = s
<1> DEFINE n == Len(s)
           t == [k \in 1 .. n |-> <<s[k]>>]
           Next1(g) == [i \in 1 .. Len(t) |-> IF i = 1 THEN t[i] ELSE g[i - 1] \o t[i]]
           pre == [i \in 1 .. n |-> [j \in 1 .. i |-> s[j]]]
<1>1. n \in Nat \ {0} /\ Len(t) = n
  BY EmptySeq
<1>2. FlattenSeq(t) = (CHOOSE g : g = Next1(g))[n]
  BY <1>1 DEF FlattenSeq
<1>3. \A i \in 1 .. n : t[i] = <<s[i]>>
  OBVIOUS
<1>4. \A i \in 1 .. n : pre[i] = [j \in 1 .. i |-> s[j]]
  OBVIOUS
<1>5. pre[1] = t[1]
  BY <1>1, <1>3, <1>4
<1>6. \A i \in 2 .. n : pre[i] = pre[i - 1] \o t[i]
  BY <1>1, <1>3, <1>4, OneMore
<1>7. pre = Next1(pre)
  <2>1. pre = [i \in 1 .. n |-> pre[i]]
    OBVIOUS
  <2>2. \A i \in 1 .. n : pre[i] = IF i = 1 THEN t[i] ELSE pre[i - 1] \o t[i]
    <3> SUFFICES ASSUME NEW i \in 1 .. n
                 PROVE  pre[i] = IF i = 1 THEN t[i] ELSE pre[i - 1] \o t[i]
      OBVIOUS
    <3> HIDE DEF pre, t
    <3>1. CASE i = 1
      BY <1>5, <3>1
    <3>2. CASE i # 1
      <4>1. i \in 2 .. n
        BY <1>1, <3>2
      <4>2. pre[i] = pre[i - 1] \o t[i]
        BY <1>6, <4>1
      <4> QED
        BY <3>2, <4>2
    <3> QED
      BY <3>1, <3>2
  <2> HIDE DEF pre, t
  <2> QED
    BY <1>1, <2>1, <2>2
<1>8. ASSUME NEW g, g = Next1(g) PROVE g = pre
  <2> HIDE DEF t
  <2>1. g = [i \in 1 .. n |-> g[i]] /\ \A i \in 1 .. n : g[i] = IF i = 1 THEN t[i] ELSE g[i - 1] \o t[i]
    BY <1>1, <1>8
  <2> DEFINE bad == {i \in 1 .. n : g[i] # pre[i]}
  <2> HIDE DEF pre
  <2>2. ASSUME bad # {} PROVE FALSE
    <3>1. PICK i \in bad : \A k \in bad : i <= k
      <4>1. bad \in SUBSET Nat
        BY <1>1
      <4> HIDE DEF bad
      <4> QED
        BY <2>2, <4>1, LeastNat
    <3>2. CASE i = 1
      BY <1>1, <1>5, <2>1, <3>1, <3>2
    <3>3. CASE i # 1
      <4>1. i \in 2 .. n /\ i - 1 \in 1 .. n /\ i - 1 \notin bad
        BY <1>1, <3>1, <3>3
      <4>2. g[i - 1] = pre[i - 1]
        BY <4>1
      <4>3. pre[i] = pre[i - 1] \o t[i]
        BY <1>6, <4>1
      <4>4. g[i] = g[i - 1] \o t[i]
        <5>1. i \in 1 .. n
          BY <3>1
        <5>2. g[i] = IF i = 1 THEN t[i] ELSE g[i - 1] \o t[i]
          BY <2>1, <5>1
        <5> QED
          BY <3>3, <5>2
      <4> QED
        BY <3>1, <4>2, <4>3, <4>4
    <3> QED
      BY <3>2, <3>3
  <2>3. \A i \in 1 .. n : g[i] = pre[i]
    BY <2>2
  <2>4. pre = [i \in 1 .. n |-> pre[i]]
    BY DEF pre
  <2> QED
    BY <2>1, <2>3, <2>4
<1>9. (CHOOSE g : g = Next1(g)) = pre
  <2> HIDE DEF Next1, pre
  <2> QED
    BY <1>7, <1>8
<1>10. pre[n] = s
  BY <1>1
<1> HIDE DEF t, pre
<1>11. FlattenSeq(t) = s
  BY <1>2, <1>9, <1>10
<1> QED
  BY <1>11 DEF t

\* What a place is called from the room down are names of places.
LEMMA NamesAre ==
  ASSUME NEW index, Listed(index), NEW p \in Places(index)
  PROVE  /\ NamesTo(index, p) \in Seq(Name) /\ NamesTo(index, p) # <<>>
         /\ \A k \in 1 .. Len(NamesTo(index, p)) :
              \E q \in Places(index) : NamesTo(index, p)[k] = NameOf(index, q)
<1>1. CASE p.kind = "room"
  <2>1. NamesTo(index, p) = <<NameOf(index, p)>> /\ NameOf(index, p) \in Name
    BY <1>1, PlacesAre DEF NamesTo, NameOf
  <2> QED
    BY <2>1
<1>2. CASE p.kind = "container"
  <2> DEFINE cs == index.containers
             c == p.id
             n == Depth(index, c)
             room == RoomLocation(cs[c].room)
             names == NamesTo(index, p)
             at(k) == IF k = 1 THEN room ELSE ContainerLocation(Nesting(index, c)[k - 1])
  <2>1. c \in DOMAIN cs /\ cs[c].room \in DOMAIN index.rooms /\ ContainerListing(cs)
    BY <1>2, PlacesAre DEF Listed
  <2>2. n \in Nat
    BY <2>1, HigherIsShallower DEF Depth
  <2>3. names = [k \in 1 .. n + 1 |-> IF k = 1 THEN index.rooms[cs[c].room].name
                                      ELSE cs[Nesting(index, c)[k - 1]].name]
    <3>1. names = PathOf(index, c)
      BY <1>2, PlacesAre DEF NamesTo
    <3> HIDE DEF names, n, c
    <3>2. Depth(index, c) \in Nat
      BY <2>2 DEF n
    <3>3. PathOf(index, c) = [k \in 1 .. Depth(index, c) + 1 |->
                                IF k = 1 THEN index.rooms[index.containers[c].room].name
                                ELSE index.containers[Nesting(index, c)[k - 1]].name]
      BY <2>1, <3>2, PathNames
    <3> QED
      BY <3>1, <3>3 DEF n
  <2>4. room \in Places(index) /\ NameOf(index, room) = index.rooms[cs[c].room].name
    BY <2>1 DEF Places, NameOf, RoomLocation
  <2>5. ASSUME NEW k \in 1 .. n
        PROVE  LET x == ContainerLocation(Nesting(index, c)[k]) IN
               x \in Places(index) /\ NameOf(index, x) = cs[Nesting(index, c)[k]].name
    <3> DEFINE y == Nesting(index, c)[k]
    <3>1. y \in Walk(cs, c)
      BY <2>1, NestingFull
    <3> HIDE DEF y, c
    <3>2. y \in DOMAIN cs /\ cs[y].room = cs[c].room
      BY <2>1, <3>1, WalkFacts, WalkSharesRoom
    <3>3. ContainerLocation(y) \in Places(index)
      BY <2>1, <3>2 DEF Places
    <3>4. NameOf(index, ContainerLocation(y)) = cs[y].name
      BY DEF NameOf, ContainerLocation
    <3> QED
      BY <3>3, <3>4 DEF y
  <2> HIDE DEF names, n, room, c
  <2>6. ASSUME NEW k \in 1 .. n + 1
        PROVE  at(k) \in Places(index) /\ names[k] = NameOf(index, at(k))
    <3>1. CASE k = 1
      BY <2>3, <2>4, <3>1
    <3>2. CASE k # 1
      <4>1. k - 1 \in 1 .. n
        BY <2>2, <3>2
      <4> QED
        BY <2>3, <2>5, <3>2, <4>1
    <3> QED
      BY <3>1, <3>2
  <2> HIDE DEF at
  <2>7. \A k \in 1 .. n + 1 : names[k] \in Name
    BY <2>6, PlacesAre
  <2>8. names \in Seq(Name) /\ Len(names) = n + 1
    BY <2>2, <2>3, <2>7
  <2> QED
    BY <2>2, <2>6, <2>8 DEF names
<1> QED
  BY <1>1, <1>2, PlacesAre

\* With plain names a path has one segment for each of them.
LEMMA PlainPath ==
  ASSUME NEW index, Listed(index), PlainNames(index), NEW p \in Places(index)
  PROVE  LET names == NamesTo(index, p) IN
         PathKey(Path(index, p)) = [k \in 1 .. Len(names) |-> Segments(names[k])[1]]
<1> DEFINE names == NamesTo(index, p)
           n == Len(names)
           s == [k \in 1 .. n |-> Spelling[names[k]][1]]
<1>1. names \in Seq(Name) /\ names # <<>>
  BY NamesAre
<1>2. \A k \in 1 .. n : /\ names[k] \in Name /\ Len(Spelling[names[k]]) = 1
  <2>1. \A k \in 1 .. n : \E q \in Places(index) : names[k] = NameOf(index, q)
    BY NamesAre
  <2> HIDE DEF names
  <2> QED
    BY <2>1, PlacesAre DEF PlainNames
<1>3. \A k \in 1 .. n : Spelling[names[k]] \in Seq(DOMAIN Folded)
  BY <1>2, SpellingAssumption
<1> HIDE DEF names
<1>4. n \in Nat /\ DOMAIN names = 1 .. n /\ n # 0
  BY <1>1, EmptySeq
<1>5. s \in Seq(DOMAIN Folded) /\ Len(s) = n /\ s # <<>>
  BY <1>2, <1>3, <1>4
<1>6. \A k \in 1 .. n : Spelling[names[k]] = <<s[k]>>
  BY <1>2, <1>3
<1>7. [k \in DOMAIN names |-> Spelling[names[k]]] = [k \in 1 .. Len(s) |-> <<s[k]>>]
  BY <1>4, <1>5, <1>6
<1>8. Path(index, p) = s
  BY <1>5, <1>7, FlattenSingletons DEF Path, Rendered, names
<1>9. \A k \in 1 .. n : Segments(names[k])[1] = Folded[s[k]]
  BY <1>2, <1>3 DEF Segments, PathKey
<1>10. DOMAIN s = 1 .. n
  OBVIOUS
<1> HIDE DEF s, n
<1>11. PathKey(s) = [k \in 1 .. n |-> Folded[s[k]]]
  BY <1>10 DEF PathKey
<1> QED
  BY <1>8, <1>9, <1>11 DEF names, n

\* Of places side by side, plain names fold differently.
LEMMA PlainNamesApart ==
  ASSUME NEW index, Listed(index), PlainNames(index),
         NEW p \in Places(index), NEW q \in Places(index), SideBySide(index, p, q),
         Segments(NameOf(index, p))[1] = Segments(NameOf(index, q))[1]
  PROVE  p = q
<1>1. ASSUME NEW x \in Places(index)
      PROVE  Segments(NameOf(index, x)) = <<Segments(NameOf(index, x))[1]>>
  <2>1. Len(Spelling[NameOf(index, x)]) = 1 /\ Spelling[NameOf(index, x)] \in Seq(DOMAIN Folded)
    BY PlacesAre, SpellingAssumption DEF PlainNames
  <2> QED
    BY <2>1 DEF Segments, PathKey
<1>2. Segments(NameOf(index, p)) = Segments(NameOf(index, q))
  BY <1>1
<1>3. NameOf(index, p) = NameOf(index, q)
  BY <1>2 DEF PlainNames
<1>4. p.id = q.id /\ p.kind = q.kind
  BY <1>3, PlacesAre DEF SideBySide, NameOf, Listed, RoomListing, ContainerListing
<1> QED
  BY <1>4, PlacesAre

\* With plain names no two places are looked up alike.
LEMMA PlainPathsApart ==
  ASSUME NEW index, Listed(index), PlainNames(index),
         NEW p \in Places(index), NEW q \in Places(index),
         PathKey(Path(index, p)) = PathKey(Path(index, q))
  PROVE  p = q
<1> DEFINE np == NamesTo(index, p)
           nq == NamesTo(index, q)
           key(names) == [k \in 1 .. Len(names) |-> Segments(names[k])[1]]
<1>1. np \in Seq(Name) /\ nq \in Seq(Name)
  BY NamesAre
<1>2. key(np) = key(nq)
  BY PlainPath
<1>3. /\ p.kind = "room" => Len(np) = 1 /\ np[1] = index.rooms[p.id].name
      /\ q.kind = "room" => Len(nq) = 1 /\ nq[1] = index.rooms[q.id].name
      /\ p.kind = "container" =>
           /\ Len(np) > 1 /\ np[Len(np)] = index.containers[p.id].name
           /\ np[1] = index.rooms[index.containers[p.id].room].name
      /\ q.kind = "container" =>
           /\ Len(nq) > 1 /\ nq[Len(nq)] = index.containers[q.id].name
           /\ nq[1] = index.rooms[index.containers[q.id].room].name
  BY NamesEnd
<1> HIDE DEF np, nq
<1>4. Len(np) = Len(nq) /\ \A k \in 1 .. Len(np) : Segments(np[k])[1] = Segments(nq[k])[1]
  BY <1>1, <1>2
<1>5. Len(np) \in Nat /\ p.kind = q.kind
  BY <1>1, <1>3, <1>4, PlacesAre
<1>6. CASE p.kind = "room"
  <2>1. SideBySide(index, p, q)
    BY <1>5, <1>6 DEF SideBySide
  <2>2. Segments(NameOf(index, p))[1] = Segments(NameOf(index, q))[1]
    BY <1>3, <1>4, <1>5, <1>6 DEF NameOf
  <2> QED
    BY <2>1, <2>2, PlainNamesApart
<1>7. CASE p.kind = "container"
  <2> DEFINE r == index.containers[p.id].room
             u == index.containers[q.id].room
  <2>1. RoomLocation(r) = RoomLocation(u)
    <3>1. RoomLocation(r) \in Places(index) /\ RoomLocation(u) \in Places(index)
      BY <1>5, <1>7, PlacesAre DEF Places
    <3>2. SideBySide(index, RoomLocation(r), RoomLocation(u))
      BY DEF SideBySide, RoomLocation
    <3>3. Segments(index.rooms[r].name)[1] = Segments(index.rooms[u].name)[1]
      BY <1>3, <1>4, <1>5, <1>7
    <3>4. Segments(NameOf(index, RoomLocation(r)))[1] = Segments(NameOf(index, RoomLocation(u)))[1]
      BY <3>3 DEF NameOf, RoomLocation
    <3> QED
      BY <3>1, <3>2, <3>4, PlainNamesApart
  <2>2. SideBySide(index, p, q)
    BY <1>5, <2>1 DEF SideBySide, RoomLocation
  <2>3. Segments(NameOf(index, p))[1] = Segments(NameOf(index, q))[1]
    BY <1>3, <1>4, <1>5, <1>7 DEF NameOf
  <2> QED
    BY <2>2, <2>3, PlainNamesApart
<1> QED
  BY <1>6, <1>7, PlacesAre

LEMMA EarlierOrders ==
  ASSUME NEW index, Listed(index)
  PROVE  /\ \A p, q \in Places(index) : p = q \/ Earlier(index, p, q) \/ Earlier(index, q, p)
         /\ \A p \in Places(index) : ~Earlier(index, p, p)
         /\ \A p, q, r \in Places(index) :
              Earlier(index, p, q) /\ Earlier(index, q, r) => Earlier(index, p, r)
<1>1. /\ \A p \in Places(index) : NameOf(index, p) \in Int
      /\ \A p \in Places(index) : p.kind = "container" => index.containers[p.id].room \in Int
  <2>1. \A c \in DOMAIN index.containers : index.containers[c].room \in Int
    BY DEF Listed, ContainerListing, IsTable, ContainerRow, RoomID
  <2> QED
    BY <2>1, PlacesAre, SpellingAssumption
<1>2. \A p, q \in Places(index) :
        /\ p.kind = "room" /\ q.kind = "room" /\ NameOf(index, p) = NameOf(index, q) => p = q
        /\ /\ p.kind = "container" /\ q.kind = "container"
           /\ index.containers[p.id].room = index.containers[q.id].room
           /\ NameOf(index, p) = NameOf(index, q)
           => p = q
  <2> TAKE p, q \in Places(index)
  <2>1. ASSUME p.kind = "room", q.kind = "room", NameOf(index, p) = NameOf(index, q)
        PROVE  p = q
    <3>1. /\ p = RoomLocation(p.id) /\ p.id \in DOMAIN index.rooms
          /\ q = RoomLocation(q.id) /\ q.id \in DOMAIN index.rooms
      BY <2>1, PlacesAre
    <3>2. index.rooms[p.id].name = index.rooms[q.id].name
      BY <2>1 DEF NameOf
    <3> QED
      BY <3>1, <3>2 DEF Listed, RoomListing
  <2>2. ASSUME p.kind = "container", q.kind = "container", NameOf(index, p) = NameOf(index, q),
               index.containers[p.id].room = index.containers[q.id].room
        PROVE  p = q
    <3>1. /\ p = ContainerLocation(p.id) /\ p.id \in DOMAIN index.containers
          /\ q = ContainerLocation(q.id) /\ q.id \in DOMAIN index.containers
      BY <2>2, PlacesAre
    <3>2. index.containers[p.id].name = index.containers[q.id].name
      BY <2>2 DEF NameOf
    <3> QED
      BY <2>2, <3>1, <3>2 DEF Listed, ContainerListing
  <2> QED
    BY <2>1, <2>2
<1>3. \A p \in Places(index) : p.kind \in {"room", "container"}
  BY PlacesAre
<1> QED
  BY <1>1, <1>2, <1>3 DEF Earlier

LEMMA PlacesFinite ==
  ASSUME NEW index, Listed(index)
  PROVE  IsFiniteSet(Places(index))
<1> DEFINE C == {x \in DOMAIN index.containers : index.containers[x].room \in DOMAIN index.rooms}
           f == [r \in DOMAIN index.rooms |-> RoomLocation(r)]
           g == [c \in C |-> ContainerLocation(c)]
           R1 == {RoomLocation(r) : r \in DOMAIN index.rooms}
           C1 == {ContainerLocation(c) : c \in C}
<1>1. DOMAIN index.rooms \in SUBSET RoomID /\ C \in SUBSET ContainerID
  BY DEF Listed, RoomListing, ContainerListing, IsTable
<1>2. IsFiniteSet(DOMAIN index.rooms) /\ IsFiniteSet(C)
  BY <1>1, IdsAreFinite, FS_Subset
<1>3. f \in Surjection(DOMAIN index.rooms, R1)
  BY DEF Surjection
<1>4. g \in Surjection(C, C1)
  BY DEF Surjection
<1>5. IsFiniteSet(R1) /\ IsFiniteSet(C1)
  <2> HIDE DEF f, g, C, R1, C1
  <2> QED BY <1>2, <1>3, <1>4, FS_Surjection
<1> QED
  BY <1>5, FS_Union DEF Places

\* Of some places of an index one was entered last.
LEMMA EnteredLast ==
  ASSUME NEW index, Listed(index), NEW T \in SUBSET Places(index), T # {}
  PROVE  \E p \in T : \A q \in T \ {p} : Earlier(index, q, p)
<1> DEFINE later(p) == {q \in T : Earlier(index, p, q)}
           counts == {Cardinality(later(p)) : p \in T}
<1>1. IsFiniteSet(T)
  BY PlacesFinite, FS_Subset
<1>2. \A p \in T : IsFiniteSet(later(p)) /\ Cardinality(later(p)) \in Nat
  BY <1>1, FS_Subset, FS_CardinalityType
<1>3. counts \in SUBSET Nat /\ counts # {}
  BY <1>2
<1>4. PICK n \in counts : \A m \in counts : n <= m
  <2> HIDE DEF counts
  <2> QED BY <1>3, LeastNat
<1>5. PICK p \in T : Cardinality(later(p)) = n
  BY <1>4
<1>6. ASSUME NEW q \in T \ {p} PROVE Earlier(index, q, p)
  <2> SUFFICES ASSUME Earlier(index, p, q) PROVE FALSE
    BY <1>6, EarlierOrders
  <2>1. later(q) \subseteq later(p) /\ q \in later(p) /\ q \notin later(q)
    BY <1>6, EarlierOrders
  <2>2. later(q) # later(p)
    BY <2>1
  <2>3. Cardinality(later(q)) \in Nat /\ n <= Cardinality(later(q))
    BY <1>2, <1>4, <1>6
  <2>4. IsFiniteSet(later(p)) /\ Cardinality(later(p)) = n /\ n \in Nat
    BY <1>2, <1>5
  <2> HIDE DEF later
  <2>5. Cardinality(later(q)) <= n /\ Cardinality(later(q)) # n
    BY <2>1, <2>2, <2>4, FS_Subset
  <2> QED
    BY <2>3, <2>4, <2>5
<1> QED
  BY <1>6

-----------------------------------------------------------------------------
(* Resolution.                                                             *)

ReadAs(index, query) == {p \in Places(index) : PathKey(Path(index, p)) = query}
NamedAs(index, query) == {p \in Places(index) : Segments(NameOf(index, p)) = query}

\* What resolves is one place. It is read as the words say, or else it is the
\* only one of that name and nothing reads so.
LEMMA Resolution ==
  ASSUME NEW index, Listed(index), NEW query
  PROVE  LET found == Resolve(index, query) IN
         /\ ReadAs(index, query) # {} =>
              \E p \in ReadAs(index, query) : found = Resolved(Ok, {p})
         /\ ReadAs(index, query) = {} /\ found.outcome = Ok =>
              \E p \in Places(index) : found = Resolved(Ok, {p}) /\ NamedAs(index, query) = {p}
         /\ found.outcome = Ambiguous => found.places \subseteq Places(index)
<1> DEFINE reads == ReadAs(index, query)
           named == NamedAs(index, query)
           found == Resolve(index, query)
           last == CHOOSE p \in reads : \A q \in reads \ {p} : Earlier(index, q, p)
<1>1. found = CASE reads # {} -> Resolved(Ok, {last})
                [] reads = {} /\ (Len(query) > 1 \/ named = {}) -> Resolved(NotFound, {})
                [] OTHER -> Resolved(IF Cardinality(named) = 1 THEN Ok ELSE Ambiguous, named)
  BY DEF Resolve, ReadAs, NamedAs
<1>2. reads # {} => last \in reads
  <2>1. reads \in SUBSET Places(index)
    BY DEF ReadAs
  <2>2. reads # {} => \E p \in reads : \A q \in reads \ {p} : Earlier(index, q, p)
    BY <2>1, EnteredLast
  <2> QED
    BY <2>2
<1>3. named \subseteq Places(index) /\ (Cardinality(named) = 1 => \E p : named = {p})
  <2>1. IsFiniteSet(named) /\ named \subseteq Places(index)
    BY PlacesFinite, FS_Subset DEF NamedAs
  <2> QED
    BY <2>1, FS_Singleton
<1> HIDE DEF last, reads, named, found
<1>4. /\ reads # {} => found = Resolved(Ok, {last})
      /\ reads = {} /\ found.outcome = Ok => found = Resolved(Ok, named) /\ Cardinality(named) = 1
      /\ found.outcome = Ambiguous => found.places = named
  BY <1>1 DEF Resolved, Ok, NotFound, Ambiguous
<1> QED
  BY <1>2, <1>3, <1>4 DEF reads, named, found
-----------------------------------------------------------------------------
(* The inductive invariant.                                                *)

Query == Queries[call.kind]   \* the queries of the call
Steps == Len(Query) - Len(call.todo)

\* A query of the call that has been run.
Ran(query) == \E k \in 1 .. Steps : Query[k] = query

Fields ==
  call = [kind |-> call.kind, subject |-> call.subject, query |-> call.query, todo |-> call.todo,
          outcome |-> call.outcome, index |-> Index(call.index.rooms, call.index.containers),
          items |-> call.items, tags |-> call.tags, aliases |-> call.aliases, room |-> call.room]

\* The call is none, or one that runs its queries in their order until it ends.
InOrder ==
  /\ call.kind = "none" => call = NoCall /\ others = 0
  /\ call.kind # "none" =>
       /\ call.kind \in DOMAIN Queries
       /\ Len(call.todo) \in 0 .. Len(Query)
       /\ call.todo = SubSeq(Query, Steps + 1, Len(Query))
       /\ call.kind \in {"add_item", "add_container"} /\ ~Ran("write") => call.subject \in Name
  /\ call.todo # <<>> => call.outcome = Ok

\* Until its own write a call only reads, and what it has read it has read from
\* one of the databases it has run against.
Reading == call.kind # "none" /\ call.outcome = Ok /\ ~Ran("write")

\* A search that finds nothing reads no further.
Found == call.kind = "search" => DOMAIN call.items # {}

LabelsIn(d) ==
  [i \in DOMAIN call.items |-> IF i \in DOMAIN Selected(d) THEN d.items[i].detail ELSE NoLabels]

Listings ==
  /\ ~Ran("items") /\ ~Ran("item") => call.items = NoRows
  /\ Found /\ Ran("rooms") => \E d \in seen : call.index.rooms = d.rooms
  /\ Found /\ Ran("containers") => \E d \in seen : call.index.containers = d.containers
  /\ Ran("items") \/ Ran("item") => \E d \in seen : call.items = Selected(d)
  /\ Found /\ Ran("tags") => \E d \in seen : call.tags = LabelsIn(d)
  /\ Found /\ Ran("aliases") => \E d \in seen : call.aliases = LabelsIn(d)

Chained ==
  /\ Ran("chain") =>
       \E d \in seen : /\ call.subject \in DOMAIN d.containers
                       /\ call.index.containers = Chain(d.containers, call.subject)
                       /\ call.room = d.containers[call.subject].room
  /\ Ran("room") =>
       \E d \in seen : call.room \in DOMAIN d.rooms /\ call.index.rooms = Rows(d.rooms, {call.room})

Placed ==
  /\ Ran("place") \/ Ran("parent") => Target.outcome = Ok
  /\ Ran("parent") /\ TargetPlace.kind = "room" => call.room = TargetPlace.id

\* One write touches one table.
OneTable(d, e) ==
  \/ d.rooms = e.rooms /\ d.containers = e.containers
  \/ d.rooms = e.rooms /\ d.items = e.items
  \/ d.containers = e.containers /\ d.items = e.items

\* With at most one write of others there are two moments at most.
Moments ==
  /\ others = 0 => seen = {db}
  /\ others <= 1 => \E d \in seen : seen = {d, db} /\ OneTable(d, db)

IInv ==
  /\ RecordedHousehold /\ others \in 0 .. MaxOthers
  /\ call.kind # "none" => db \in seen
  /\ \A d \in seen : Household(d)
  /\ Fields /\ Listed(call.index) /\ ItemListing(call.items)
  /\ InOrder
  /\ Reading => Listings /\ Chained /\ Placed /\ Moments

-----------------------------------------------------------------------------
(* A call runs its queries in their order.                                 *)

QueryNames == {"item", "items", "tags", "aliases", "rooms", "containers", "place", "container",
               "chain", "room", "parent", "write"}

LEMMA QueriesAre ==
  /\ DOMAIN Queries = {"get_item", "search", "count_items", "list_location", "get_container",
                       "export", "move_item", "add_item", "move_container", "add_container"}
  /\ Queries["get_item"] = <<"item", "tags", "aliases", "rooms", "containers">>
  /\ Queries["search"] = <<"items", "tags", "aliases", "rooms", "containers">>
  /\ Queries["count_items"] = <<"items", "tags", "aliases", "rooms", "containers">>
  /\ Queries["list_location"] = <<"rooms", "containers", "place", "items", "tags", "aliases">>
  /\ Queries["get_container"] = <<"container", "chain", "room">>
  /\ Queries["export"] = <<"rooms", "containers", "items", "tags", "aliases">>
  /\ Queries["move_item"] = <<"rooms", "containers", "write", "item", "tags", "aliases">>
  /\ Queries["add_item"] = <<"rooms", "containers", "write">>
  /\ Queries["move_container"] =
       <<"rooms", "containers", "write", "container", "rooms", "containers">>
  /\ Queries["add_container"] =
       <<"rooms", "containers", "parent", "write", "container", "rooms", "containers">>
  BY DEF Queries

LEMMA QueriesAreSequences ==
  \A k \in DOMAIN Queries : Queries[k] \in Seq(QueryNames) /\ Len(Queries[k]) \in Nat \ {0}
<1> DEFINE fits(s) == s \in Seq(QueryNames) /\ Len(s) \in Nat \ {0}
<1>1. /\ fits(<<"item", "tags", "aliases", "rooms", "containers">>)
      /\ fits(<<"items", "tags", "aliases", "rooms", "containers">>)
      /\ fits(<<"rooms", "containers", "items", "tags", "aliases">>)
  BY DEF QueryNames
<1>2. /\ fits(<<"rooms", "containers", "place", "items", "tags", "aliases">>)
      /\ fits(<<"container", "chain", "room">>)
  BY DEF QueryNames
<1>3. /\ fits(<<"rooms", "containers", "write", "item", "tags", "aliases">>)
      /\ fits(<<"rooms", "containers", "write">>)
  BY DEF QueryNames
<1>4. /\ fits(<<"rooms", "containers", "write", "container", "rooms", "containers">>)
      /\ fits(<<"rooms", "containers", "parent", "write", "container", "rooms", "containers">>)
  BY DEF QueryNames
<1> HIDE DEF fits
<1>5. \A k \in DOMAIN Queries : fits(Queries[k])
  BY <1>1, <1>2, <1>3, <1>4, QueriesAre
<1> QED
  BY <1>5 DEF fits

LEMMA EmptySuffix ==
  ASSUME NEW S, NEW t \in Seq(S), NEW m \in Nat, NEW n \in 0 .. m, Len(t) = m - n
  PROVE  t = <<>> <=> n = m
<1>1. CASE t = <<>>
  BY <1>1
<1>2. CASE t # <<>>
  <2>1. Len(t) \in Nat \ {0}
    BY <1>2, EmptySeq
  <2> QED
    BY <1>2, <2>1
<1> QED
  BY <1>1, <1>2

LEMMA OneFurther ==
  ASSUME NEW m \in Nat, NEW n \in 0 .. m - 1
  PROVE  n \in Nat /\ n + 1 \in 1 .. m /\ m - (m - (n + 1)) = n + 1
  OBVIOUS

LEMMA SuffixFacts ==
  ASSUME NEW S, NEW s \in Seq(S), NEW n \in 0 .. Len(s), NEW t, t = SubSeq(s, n + 1, Len(s))
  PROVE  /\ t = <<>> <=> n = Len(s)
         /\ t # <<>> => /\ n + 1 \in 1 .. Len(s) /\ Head(t) = s[n + 1]
                        /\ Tail(t) = SubSeq(s, n + 2, Len(s)) /\ Len(Tail(t)) = Len(s) - (n + 1)
<1>1. Len(s) \in Nat /\ \A k \in 1 .. Len(s) : s[k] \in S
  OBVIOUS
<1>2. t \in Seq(S) /\ Len(t) = Len(s) - n
  <2>1. /\ SubSeq(s, n + 1, Len(s)) \in Seq(S)
        /\ Len(SubSeq(s, n + 1, Len(s))) = IF n + 1 <= Len(s) THEN Len(s) - (n + 1) + 1 ELSE 0
    BY <1>1, SubSeqProperties
  <2> QED
    BY <1>1, <2>1
<1>3. t = <<>> <=> n = Len(s)
  <2>1. ASSUME NEW u \in Seq(S), NEW m \in Nat, m = Len(s), Len(u) = m - n
        PROVE  u = <<>> <=> n = m
    <3>1. n \in 0 .. m
      BY <2>1
    <3> QED
      BY <2>1, <3>1, EmptySuffix
  <2> QED
    BY <1>1, <1>2, <2>1, Zenon
<1>4. ASSUME t # <<>>
      PROVE  /\ n + 1 \in 1 .. Len(s) /\ Head(t) = s[n + 1]
             /\ Tail(t) = SubSeq(s, n + 2, Len(s)) /\ Len(Tail(t)) = Len(s) - (n + 1)
  <2>1. n + 1 \in 1 .. Len(s) /\ Len(s) \in n + 1 .. Len(s)
    BY <1>1, <1>3, <1>4
  <2>2. Head(t) = s[n + 1] /\ Tail(t) = SubSeq(s, (n + 1) + 1, Len(s))
    BY <2>1, HeadTailOfSubSeq
  <2>3. Len(Tail(t)) = Len(t) - 1
    BY <1>2, <1>4, HeadTailProperties
  <2> QED
    BY <1>1, <1>2, <2>1, <2>2, <2>3
<1> QED
  BY <1>3, <1>4

\* The query that is run next, and what has been run after it.
LEMMA AtQuery ==
  ASSUME InOrder, NEW q, At(q)
  PROVE  /\ call.kind \in DOMAIN Queries /\ call.kind # "none" /\ call.outcome = Ok
         /\ Steps \in 0 .. Len(Query) - 1 /\ Query[Steps + 1] = q
         /\ Tail(call.todo) = SubSeq(Query, Steps + 2, Len(Query))
         /\ Len(Tail(call.todo)) = Len(Query) - (Steps + 1)
<1>1. call.todo # <<>> /\ Head(call.todo) = q
  BY DEF At
<1>2. call.kind # "none"
  BY <1>1 DEF InOrder, NoCall
<1>3. /\ call.kind \in DOMAIN Queries /\ call.outcome = Ok
      /\ Len(call.todo) \in 0 .. Len(Query)
      /\ call.todo = SubSeq(Query, Steps + 1, Len(Query))
  BY <1>1, <1>2 DEF InOrder
<1>4. Query \in Seq(QueryNames) /\ Len(Query) \in Nat
  BY <1>3, QueriesAreSequences DEF Query
<1>5. Steps \in 0 .. Len(Query)
  BY <1>3, <1>4 DEF Steps
<1> QED
  BY <1>1, <1>2, <1>3, <1>4, <1>5, SuffixFacts

LEMMA GoesOn ==
  ASSUME InOrder, NEW q, At(q),
         NEW s, NEW r, NEW c, NEW it, NEW tg, NEW al, NEW rm,
         call' = [kind |-> call.kind, subject |-> s, query |-> call.query,
                  todo |-> Tail(call.todo), outcome |-> call.outcome,
                  index |-> Index(r, c), items |-> it, tags |-> tg, aliases |-> al, room |-> rm],
         s = call.subject \/ q = "write"
  PROVE  /\ Fields' /\ InOrder' /\ call'.kind # "none" /\ Query' = Query
         /\ \A x : Ran(x)' <=> Ran(x) \/ x = q
<1>1. /\ call'.kind = call.kind /\ call'.subject = s /\ call'.outcome = call.outcome
      /\ call'.todo = Tail(call.todo) /\ Query' = Query
  BY DEF Query
<1>2. Fields'
  BY DEF Fields, Index
<1>3. Len(Query) \in Nat
  BY AtQuery, QueriesAreSequences DEF Query
<1>4. Steps' = Steps + 1
  <2>1. Len(Tail(call.todo)) = Len(Query) - (Steps + 1) /\ Steps \in 0 .. Len(Query) - 1
    BY AtQuery
  <2>2. Steps' = Len(Query) - Len(Tail(call.todo))
    BY <1>1 DEF Steps
  <2>3. Len(Query) - (Len(Query) - (Steps + 1)) = Steps + 1
    BY <1>3, <2>1, OneFurther
  <2> QED
    BY <2>1, <2>2, <2>3
<1>5. ASSUME NEW x PROVE Ran(x)' <=> Ran(x) \/ x = q
  <2>1. Steps \in Nat /\ Query[Steps + 1] = q
    BY <1>3, AtQuery
  <2>2. Ran(x)' <=> \E k \in 1 .. Steps + 1 : Query[k] = x
    BY <1>1, <1>4 DEF Ran
  <2>3. 1 .. Steps + 1 = (1 .. Steps) \cup {Steps + 1}
    BY <2>1
  <2> QED
    BY <2>1, <2>2, <2>3 DEF Ran
<1>6. InOrder'
  <2>1. call'.kind # "none" /\ call'.kind \in DOMAIN Queries /\ call'.outcome = Ok
    BY <1>1, AtQuery
  <2>2. Len(call'.todo) \in 0 .. Len(Query')
    BY <1>1, <1>3, AtQuery
  <2>3. call'.todo = SubSeq(Query', Steps' + 1, Len(Query'))
    BY <1>1, <1>3, <1>4, AtQuery, SMTT(30)
  <2>4. call'.kind \in {"add_item", "add_container"} /\ ~Ran("write")' => call'.subject \in Name
    BY <1>1, <1>5, AtQuery DEF InOrder
  <2> QED
    BY <2>1, <2>2, <2>3, <2>4 DEF InOrder
<1> QED
  BY <1>1, <1>2, <1>5, <1>6, AtQuery

\* What each kind of call has run after so many steps, and runs next.
RunsInOrder(queries) ==
  /\ \A q : Ran(q) <=> \E k \in 1 .. Len(queries) : k <= Steps /\ queries[k] = q
  /\ \A q : At(q) => \E k \in 1 .. Len(queries) : k = Steps + 1 /\ queries[k] = q
  /\ Steps \in 0 .. Len(queries)
  /\ call.todo = <<>> => Steps = Len(queries)

LEMMA Runs ==
  ASSUME InOrder, call.kind # "none"
  PROVE  RunsInOrder(Queries[call.kind])
<1>1. /\ call.kind \in DOMAIN Queries
      /\ Len(call.todo) \in 0 .. Len(Query)
      /\ call.todo = SubSeq(Query, Steps + 1, Len(Query))
  BY DEF InOrder
<1>2. Query \in Seq(QueryNames) /\ Len(Query) \in Nat
  BY <1>1, QueriesAreSequences DEF Query
<1>3. Steps \in 0 .. Len(Query)
  BY <1>1, <1>2 DEF Steps
<1>4. call.todo = <<>> => Steps = Len(Query)
  BY <1>1, <1>2, <1>3, SuffixFacts
<1>5. ASSUME NEW q, At(q) PROVE \E k \in 1 .. Len(Query) : k = Steps + 1 /\ Query[k] = q
  <2>1. Steps \in 0 .. Len(Query) - 1 /\ Query[Steps + 1] = q
    BY <1>5, AtQuery
  <2> QED
    BY <1>2, <2>1, OneFurther
<1>6. \A q : Ran(q) <=> \E k \in 1 .. Len(Query) : k <= Steps /\ Query[k] = q
  BY <1>2, <1>3 DEF Ran
<1> QED
  BY <1>3, <1>4, <1>5, <1>6 DEF RunsInOrder, Query
-----------------------------------------------------------------------------
(* What has been run when a query is run.                                  *)

Order ==
  /\ At("rooms") \/ At("containers") =>
       \/ Ran("write")
       \/ /\ ~Ran("place") /\ ~Ran("parent") /\ ~Ran("chain") /\ ~Ran("room")
          /\ call.kind = "list_location" => ~Ran("item") /\ ~Ran("items")
  /\ At("item") => call.kind # "search"
  /\ At("item") \/ At("items") =>
       \/ Ran("write")
       \/ /\ ~Ran("tags") /\ ~Ran("aliases") /\ ~Ran("item") /\ ~Ran("items")
          /\ call.kind = "search" => ~Ran("rooms") /\ ~Ran("containers")
  /\ At("place") => call.kind = "list_location"
  /\ At("chain") \/ At("room") =>
       /\ call.kind = "get_container" /\ ~Ran("room")
       /\ At("room") => Ran("chain")
  /\ call.kind = "get_container" =>
       \A q \in {"rooms", "containers", "item", "items", "tags", "aliases", "place", "parent"} :
         ~Ran(q)
  /\ At("parent") => call.kind = "add_container"
  /\ call.kind = "add_container" => \A q \in {"place", "chain", "room"} : ~Ran(q)
  /\ At("write") =>
       /\ call.kind \notin Lookups /\ ~Ran("write") /\ Ran("rooms") /\ Ran("containers")
       /\ call.kind = "add_container" => Ran("parent")
  /\ call.kind \in Lookups =>
       /\ ~Ran("write") /\ ~Ran("parent")
       /\ call.kind # "list_location" => ~Ran("place")
  /\ Ran("tags") \/ Ran("aliases") => Ran("item") \/ Ran("items")

LEMMA InOrderHas ==
  ASSUME InOrder, call.kind # "none"
  PROVE  Order
<1>1. CASE call.kind = "get_item"
  <2>1. RunsInOrder(<<"item", "tags", "aliases", "rooms", "containers">>)
    BY <1>1, Runs, QueriesAre
  <2>2. /\ Steps \in 0 .. 5
        /\ \A q : Ran(q) <=>
              \/ Steps >= 1 /\ q = "item"
              \/ Steps >= 2 /\ q = "tags"
              \/ Steps >= 3 /\ q = "aliases"
              \/ Steps >= 4 /\ q = "rooms"
              \/ Steps >= 5 /\ q = "containers"
        /\ \A q : At(q) =>
              \/ Steps = 0 /\ q = "item"
              \/ Steps = 1 /\ q = "tags"
              \/ Steps = 2 /\ q = "aliases"
              \/ Steps = 3 /\ q = "rooms"
              \/ Steps = 4 /\ q = "containers"
    BY <2>1 DEF RunsInOrder
  <2> QED
    BY <1>1, <2>2 DEF Order, Lookups
<1>2. CASE call.kind = "search"
  <2>1. RunsInOrder(<<"items", "tags", "aliases", "rooms", "containers">>)
    BY <1>2, Runs, QueriesAre
  <2>2. /\ Steps \in 0 .. 5
        /\ \A q : Ran(q) <=>
              \/ Steps >= 1 /\ q = "items"
              \/ Steps >= 2 /\ q = "tags"
              \/ Steps >= 3 /\ q = "aliases"
              \/ Steps >= 4 /\ q = "rooms"
              \/ Steps >= 5 /\ q = "containers"
        /\ \A q : At(q) =>
              \/ Steps = 0 /\ q = "items"
              \/ Steps = 1 /\ q = "tags"
              \/ Steps = 2 /\ q = "aliases"
              \/ Steps = 3 /\ q = "rooms"
              \/ Steps = 4 /\ q = "containers"
    BY <2>1 DEF RunsInOrder
  <2> QED
    BY <1>2, <2>2 DEF Order, Lookups
<1>3. CASE call.kind = "count_items"
  <2>1. RunsInOrder(<<"items", "tags", "aliases", "rooms", "containers">>)
    BY <1>3, Runs, QueriesAre
  <2>2. /\ Steps \in 0 .. 5
        /\ \A q : Ran(q) <=>
              \/ Steps >= 1 /\ q = "items"
              \/ Steps >= 2 /\ q = "tags"
              \/ Steps >= 3 /\ q = "aliases"
              \/ Steps >= 4 /\ q = "rooms"
              \/ Steps >= 5 /\ q = "containers"
        /\ \A q : At(q) =>
              \/ Steps = 0 /\ q = "items"
              \/ Steps = 1 /\ q = "tags"
              \/ Steps = 2 /\ q = "aliases"
              \/ Steps = 3 /\ q = "rooms"
              \/ Steps = 4 /\ q = "containers"
    BY <2>1 DEF RunsInOrder
  <2> QED
    BY <1>3, <2>2 DEF Order, Lookups
<1>4. CASE call.kind = "list_location"
  <2>1. RunsInOrder(<<"rooms", "containers", "place", "items", "tags", "aliases">>)
    BY <1>4, Runs, QueriesAre
  <2>2. /\ Steps \in 0 .. 6
        /\ \A q : Ran(q) <=>
              \/ Steps >= 1 /\ q = "rooms"
              \/ Steps >= 2 /\ q = "containers"
              \/ Steps >= 3 /\ q = "place"
              \/ Steps >= 4 /\ q = "items"
              \/ Steps >= 5 /\ q = "tags"
              \/ Steps >= 6 /\ q = "aliases"
        /\ \A q : At(q) =>
              \/ Steps = 0 /\ q = "rooms"
              \/ Steps = 1 /\ q = "containers"
              \/ Steps = 2 /\ q = "place"
              \/ Steps = 3 /\ q = "items"
              \/ Steps = 4 /\ q = "tags"
              \/ Steps = 5 /\ q = "aliases"
    BY <2>1 DEF RunsInOrder
  <2> QED
    BY <1>4, <2>2 DEF Order, Lookups
<1>5. CASE call.kind = "get_container"
  <2>1. RunsInOrder(<<"container", "chain", "room">>)
    BY <1>5, Runs, QueriesAre
  <2>2. /\ Steps \in 0 .. 3
        /\ \A q : Ran(q) <=>
              \/ Steps >= 1 /\ q = "container"
              \/ Steps >= 2 /\ q = "chain"
              \/ Steps >= 3 /\ q = "room"
        /\ \A q : At(q) =>
              \/ Steps = 0 /\ q = "container"
              \/ Steps = 1 /\ q = "chain"
              \/ Steps = 2 /\ q = "room"
    BY <2>1 DEF RunsInOrder
  <2> QED
    BY <1>5, <2>2 DEF Order, Lookups
<1>6. CASE call.kind = "export"
  <2>1. RunsInOrder(<<"rooms", "containers", "items", "tags", "aliases">>)
    BY <1>6, Runs, QueriesAre
  <2>2. /\ Steps \in 0 .. 5
        /\ \A q : Ran(q) <=>
              \/ Steps >= 1 /\ q = "rooms"
              \/ Steps >= 2 /\ q = "containers"
              \/ Steps >= 3 /\ q = "items"
              \/ Steps >= 4 /\ q = "tags"
              \/ Steps >= 5 /\ q = "aliases"
        /\ \A q : At(q) =>
              \/ Steps = 0 /\ q = "rooms"
              \/ Steps = 1 /\ q = "containers"
              \/ Steps = 2 /\ q = "items"
              \/ Steps = 3 /\ q = "tags"
              \/ Steps = 4 /\ q = "aliases"
    BY <2>1 DEF RunsInOrder
  <2> QED
    BY <1>6, <2>2 DEF Order, Lookups
<1>7. CASE call.kind = "move_item"
  <2>1. RunsInOrder(<<"rooms", "containers", "write", "item", "tags", "aliases">>)
    BY <1>7, Runs, QueriesAre
  <2>2. /\ Steps \in 0 .. 6
        /\ \A q : Ran(q) <=>
              \/ Steps >= 1 /\ q = "rooms"
              \/ Steps >= 2 /\ q = "containers"
              \/ Steps >= 3 /\ q = "write"
              \/ Steps >= 4 /\ q = "item"
              \/ Steps >= 5 /\ q = "tags"
              \/ Steps >= 6 /\ q = "aliases"
        /\ \A q : At(q) =>
              \/ Steps = 0 /\ q = "rooms"
              \/ Steps = 1 /\ q = "containers"
              \/ Steps = 2 /\ q = "write"
              \/ Steps = 3 /\ q = "item"
              \/ Steps = 4 /\ q = "tags"
              \/ Steps = 5 /\ q = "aliases"
    BY <2>1 DEF RunsInOrder
  <2> QED
    BY <1>7, <2>2 DEF Order, Lookups
<1>8. CASE call.kind = "add_item"
  <2>1. RunsInOrder(<<"rooms", "containers", "write">>)
    BY <1>8, Runs, QueriesAre
  <2>2. /\ Steps \in 0 .. 3
        /\ \A q : Ran(q) <=>
              \/ Steps >= 1 /\ q = "rooms"
              \/ Steps >= 2 /\ q = "containers"
              \/ Steps >= 3 /\ q = "write"
        /\ \A q : At(q) =>
              \/ Steps = 0 /\ q = "rooms"
              \/ Steps = 1 /\ q = "containers"
              \/ Steps = 2 /\ q = "write"
    BY <2>1 DEF RunsInOrder
  <2> QED
    BY <1>8, <2>2 DEF Order, Lookups
<1>9. CASE call.kind = "move_container"
  <2>1. RunsInOrder(<<"rooms", "containers", "write", "container", "rooms", "containers">>)
    BY <1>9, Runs, QueriesAre
  <2>2. /\ Steps \in 0 .. 6
        /\ \A q : Ran(q) <=>
              \/ Steps >= 1 /\ q = "rooms"
              \/ Steps >= 2 /\ q = "containers"
              \/ Steps >= 3 /\ q = "write"
              \/ Steps >= 4 /\ q = "container"
              \/ Steps >= 5 /\ q = "rooms"
              \/ Steps >= 6 /\ q = "containers"
        /\ \A q : At(q) =>
              \/ Steps = 0 /\ q = "rooms"
              \/ Steps = 1 /\ q = "containers"
              \/ Steps = 2 /\ q = "write"
              \/ Steps = 3 /\ q = "container"
              \/ Steps = 4 /\ q = "rooms"
              \/ Steps = 5 /\ q = "containers"
    BY <2>1 DEF RunsInOrder
  <2> QED
    BY <1>9, <2>2 DEF Order, Lookups
<1>10. CASE call.kind = "add_container"
  <2>1. RunsInOrder(<<"rooms", "containers", "parent", "write", "container", "rooms",
                      "containers">>)
    BY <1>10, Runs, QueriesAre
  <2>2. /\ Steps \in 0 .. 7
        /\ \A q : Ran(q) <=>
              \/ Steps >= 1 /\ q = "rooms"
              \/ Steps >= 2 /\ q = "containers"
              \/ Steps >= 3 /\ q = "parent"
              \/ Steps >= 4 /\ q = "write"
              \/ Steps >= 5 /\ q = "container"
              \/ Steps >= 6 /\ q = "rooms"
              \/ Steps >= 7 /\ q = "containers"
        /\ \A q : At(q) =>
              \/ Steps = 0 /\ q = "rooms"
              \/ Steps = 1 /\ q = "containers"
              \/ Steps = 2 /\ q = "parent"
              \/ Steps = 3 /\ q = "write"
              \/ Steps = 4 /\ q = "container"
              \/ Steps = 5 /\ q = "rooms"
              \/ Steps = 6 /\ q = "containers"
    BY <2>1 DEF RunsInOrder
  <2> QED
    BY <1>10, <2>2 DEF Order, Lookups
<1> QED
  BY <1>1, <1>2, <1>3, <1>4, <1>5, <1>6, <1>7, <1>8, <1>9, <1>10, QueriesAre DEF InOrder
-----------------------------------------------------------------------------
(* The reads.                                                              *)

LEMMA SelectedSame ==
  ASSUME call'.kind = call.kind, call'.subject = call.subject, call'.query = call.query,
         call.kind = "list_location" => call'.index = call.index, NEW d
  PROVE  /\ Selected(d)' = Selected(d)
         /\ call'.items = call.items => LabelsIn(d)' = LabelsIn(d)
<1>1. call.kind = "list_location" => TargetPlace' = TargetPlace
  <2>1. ASSUME call.kind = "list_location" PROVE Target' = Target
    BY <2>1 DEF Target
  <2>2. Target' = Target => TargetPlace' = TargetPlace
    BY DEF TargetPlace
  <2> QED
    BY <2>1, <2>2
<1>2. \A i, row : Selects(i, row)' = Selects(i, row)
  BY <1>1 DEF Selects
<1>3. Selected(d)' = Selected(d)
  BY <1>2 DEF Selected
<1> QED
  BY <1>3 DEF LabelsIn

\* A query that reads keeps the invariant when what it has read is of now.
LEMMA ReadKeeps ==
  ASSUME IInv, NEW q, At(q), Reads,
         NEW r, NEW c, NEW it, NEW tg, NEW al, NEW rm,
         call' = [kind |-> call.kind, subject |-> call.subject, query |-> call.query,
                  todo |-> Tail(call.todo), outcome |-> call.outcome,
                  index |-> Index(r, c), items |-> it, tags |-> tg, aliases |-> al, room |-> rm],
         RoomListing(r), ContainerListing(c), ItemListing(it),
         Reading => Listings' /\ Chained' /\ Placed'
  PROVE  IInv'
<1>1. /\ Fields' /\ InOrder' /\ call'.kind # "none" /\ call.kind # "none"
      /\ \A x : Ran(x)' <=> Ran(x) \/ x = q
  BY GoesOn, AtQuery DEF IInv
<1>2. Listed(call.index)' /\ ItemListing(call.items)'
  BY DEF Listed, Index
<1>3. Reading' => Reading
  BY <1>1 DEF Reading
<1>4. /\ (RecordedHousehold /\ others \in 0 .. MaxOthers)' /\ db' \in seen'
      /\ \A d \in seen' : Household(d)
  BY <1>1 DEF IInv, Reads, RecordedHousehold
<1>5. Moments => Moments'
  BY DEF Moments, Reads, OneTable
<1> QED
  BY <1>1, <1>2, <1>3, <1>4, <1>5 DEF IInv

LEMMA ReadRoomsKeeps ==
  ASSUME IInv, ReadRooms
  PROVE  IInv'
<1>1. /\ At("rooms") /\ Reads /\ InOrder /\ Listed(call.index) /\ ItemListing(call.items)
      /\ call' = [kind |-> call.kind, subject |-> call.subject, query |-> call.query,
                  todo |-> Tail(call.todo), outcome |-> call.outcome,
                  index |-> Index(db.rooms, call.index.containers), items |-> call.items,
                  tags |-> call.tags, aliases |-> call.aliases, room |-> call.room]
  <2>1. Fields /\ At("rooms") /\ Reads /\ InOrder /\ Listed(call.index) /\ ItemListing(call.items)
    BY DEF ReadRooms, IInv
  <2>2. call' = [[call EXCEPT !.index.rooms = db.rooms] EXCEPT !.todo = Tail(@)]
    BY DEF ReadRooms, Goes
  <2>3. call.index = [rooms |-> call.index.rooms, containers |-> call.index.containers]
    BY <2>1 DEF Fields, Index
  <2>4. [call.index EXCEPT !.rooms = db.rooms]
          = [rooms |-> db.rooms, containers |-> call.index.containers]
    BY <2>3
  <2> QED
    BY <2>1, <2>2, <2>4 DEF Fields, Index
<1>2. RoomListing(db.rooms) /\ ContainerListing(call.index.containers)
  BY <1>1, HouseholdListings DEF IInv, RecordedHousehold, Listed
<1>3. ASSUME Reading PROVE Listings' /\ Chained' /\ Placed'
  <2>1. /\ Order /\ Listings /\ Chained /\ Placed /\ db \in seen /\ seen' = seen
        /\ \A x : Ran(x)' <=> Ran(x) \/ x = "rooms"
    BY <1>1, <1>3, InOrderHas, GoesOn DEF IInv, Reading, Reads
  <2>2. /\ ~Ran("place") /\ ~Ran("parent") /\ ~Ran("chain") /\ ~Ran("room")
        /\ call.kind = "list_location" => ~Ran("item") /\ ~Ran("items")
    BY <1>1, <1>3, <2>1 DEF Order, Reading
  <2>3. /\ call'.index.rooms = db.rooms /\ call'.index.containers = call.index.containers
        /\ call'.items = call.items /\ call'.tags = call.tags /\ call'.aliases = call.aliases
        /\ call'.kind = call.kind
    BY <1>1 DEF Index
  <2>4. Ran("item") \/ Ran("items") =>
          \A d : Selected(d)' = Selected(d) /\ LabelsIn(d)' = LabelsIn(d)
    BY <1>1, <2>2, SelectedSame
  <2>5. Ran("tags") \/ Ran("aliases") => Ran("item") \/ Ran("items")
    BY <2>1 DEF Order
  <2> HIDE <1>1
  <2>6. Found' <=> Found
    BY <2>3 DEF Found
  <2>7. Listings'
    BY <2>1, <2>3, <2>4, <2>5, <2>6 DEF Listings
  <2>8. Chained' /\ Placed'
    BY <2>1, <2>2 DEF Chained, Placed
  <2> QED
    BY <2>7, <2>8
<1> QED
  BY <1>1, <1>2, <1>3, ReadKeeps

LEMMA ReadContainersKeeps ==
  ASSUME IInv, ReadContainers
  PROVE  IInv'
<1>1. /\ At("containers") /\ Reads /\ InOrder /\ Listed(call.index) /\ ItemListing(call.items)
      /\ call' = [kind |-> call.kind, subject |-> call.subject, query |-> call.query,
                  todo |-> Tail(call.todo), outcome |-> call.outcome,
                  index |-> Index(call.index.rooms, db.containers), items |-> call.items,
                  tags |-> call.tags, aliases |-> call.aliases, room |-> call.room]
  <2>1. /\ Fields /\ At("containers") /\ Reads /\ InOrder
        /\ Listed(call.index) /\ ItemListing(call.items)
    BY DEF ReadContainers, IInv
  <2>2. call' = [[call EXCEPT !.index.containers = db.containers] EXCEPT !.todo = Tail(@)]
    BY DEF ReadContainers, Goes
  <2>3. call.index = [rooms |-> call.index.rooms, containers |-> call.index.containers]
    BY <2>1 DEF Fields, Index
  <2>4. [call.index EXCEPT !.containers = db.containers]
          = [rooms |-> call.index.rooms, containers |-> db.containers]
    BY <2>3
  <2> QED
    BY <2>1, <2>2, <2>4 DEF Fields, Index
<1>2. RoomListing(call.index.rooms) /\ ContainerListing(db.containers)
  BY <1>1, HouseholdListings DEF IInv, RecordedHousehold, Listed
<1>3. ASSUME Reading PROVE Listings' /\ Chained' /\ Placed'
  <2>1. /\ Order /\ Listings /\ Chained /\ Placed /\ db \in seen /\ seen' = seen
        /\ \A x : Ran(x)' <=> Ran(x) \/ x = "containers"
    BY <1>1, <1>3, InOrderHas, GoesOn DEF IInv, Reading, Reads
  <2>2. /\ ~Ran("place") /\ ~Ran("parent") /\ ~Ran("chain") /\ ~Ran("room")
        /\ call.kind = "list_location" => ~Ran("item") /\ ~Ran("items")
    BY <1>1, <1>3, <2>1 DEF Order, Reading
  <2>3. /\ call'.index.rooms = call.index.rooms /\ call'.index.containers = db.containers
        /\ call'.items = call.items /\ call'.tags = call.tags /\ call'.aliases = call.aliases
        /\ call'.kind = call.kind
    BY <1>1 DEF Index
  <2>4. Ran("item") \/ Ran("items") =>
          \A d : Selected(d)' = Selected(d) /\ LabelsIn(d)' = LabelsIn(d)
    BY <1>1, <2>2, SelectedSame
  <2>5. Ran("tags") \/ Ran("aliases") => Ran("item") \/ Ran("items")
    BY <2>1 DEF Order
  <2> HIDE <1>1
  <2>6. Found' <=> Found
    BY <2>3 DEF Found
  <2>7. Listings'
    BY <2>1, <2>3, <2>4, <2>5, <2>6 DEF Listings
  <2>8. Chained' /\ Placed'
    BY <2>1, <2>2 DEF Chained, Placed
  <2> QED
    BY <2>7, <2>8
<1> QED
  BY <1>1, <1>2, <1>3, ReadKeeps

\* What the listing of items selects, read as it is now.
LEMMA SelectedKeeps ==
  ASSUME IInv, NEW q \in {"item", "items"}, At(q), Reads,
         Goes([call EXCEPT !.items = Selected(db)]),
         q = "item" => call.kind # "search",
         call.kind = "search" => DOMAIN Selected(db) # {}
  PROVE  IInv'
<1>1. /\ InOrder /\ Listed(call.index)
      /\ call' = [kind |-> call.kind, subject |-> call.subject, query |-> call.query,
                  todo |-> Tail(call.todo), outcome |-> call.outcome,
                  index |-> Index(call.index.rooms, call.index.containers),
                  items |-> Selected(db), tags |-> call.tags, aliases |-> call.aliases,
                  room |-> call.room]
  <2>1. Fields /\ InOrder /\ Listed(call.index)
    BY DEF IInv
  <2>2. call' = [[call EXCEPT !.items = Selected(db)] EXCEPT !.todo = Tail(@)]
    BY DEF Goes
  <2>3. call.index = Index(call.index.rooms, call.index.containers)
    BY <2>1 DEF Fields
  <2>4. call = [kind |-> call.kind, subject |-> call.subject, query |-> call.query,
                todo |-> call.todo, outcome |-> call.outcome, index |-> call.index,
                items |-> call.items, tags |-> call.tags, aliases |-> call.aliases,
                room |-> call.room]
    BY <2>1, <2>3 DEF Fields
  <2> QED
    BY <2>1, <2>2, <2>3, <2>4
<1>2. /\ RoomListing(call.index.rooms) /\ ContainerListing(call.index.containers)
      /\ ItemListing(Selected(db))
  BY <1>1, HouseholdListings, RowsListing DEF IInv, RecordedHousehold, Listed, Selected
<1>3. ASSUME Reading PROVE Listings' /\ Chained' /\ Placed'
  <2>1. /\ Order /\ Listings /\ Chained /\ Placed /\ db \in seen /\ seen' = seen
        /\ \A x : Ran(x)' <=> Ran(x) \/ x = q
    BY <1>1, <1>3, InOrderHas, GoesOn DEF IInv, Reading, Reads
  <2>2. /\ ~Ran("tags") /\ ~Ran("aliases")
        /\ call.kind = "search" => ~Ran("rooms") /\ ~Ran("containers")
    BY <1>1, <1>3, <2>1 DEF Order, Reading
  <2>3. /\ call'.index.rooms = call.index.rooms
        /\ call'.index.containers = call.index.containers /\ call'.index = call.index
        /\ call'.items = Selected(db) /\ call'.kind = call.kind /\ call'.room = call.room
        /\ call'.subject = call.subject /\ call'.query = call.query
    BY <1>1 DEF Index, IInv, Fields
  <2>4. \A d : Selected(d)' = Selected(d)
    BY <2>3, SelectedSame
  <2>5. Target' = Target /\ (Target' = Target => TargetPlace' = TargetPlace)
    BY <2>3 DEF Target, TargetPlace
  <2>6. Listings'
    BY <2>1, <2>2, <2>3, <2>4 DEF Listings, Found
  <2>7. Chained' /\ Placed'
    BY <2>1, <2>3, <2>5 DEF Chained, Placed
  <2> QED
    BY <2>6, <2>7
<1> QED
  BY <1>1, <1>2, <1>3, ReadKeeps

\* The call with other labels and another room.
With(tags, aliases, room) == [call EXCEPT !.tags = tags, !.aliases = aliases, !.room = room]

\* A query that reads neither an index nor items keeps the invariant when it
\* tells the truth about labels, chain and place.
LEMMA OtherKeeps ==
  ASSUME IInv, NEW q, At(q), Reads, q \notin {"rooms", "containers", "item", "items"},
         NEW tg, NEW al, NEW rm,
         Goes(With(tg, al, rm)),
         tg = call.tags \/ q = "tags", q = "tags" => tg = Labels,
         al = call.aliases \/ q = "aliases", q = "aliases" => al = Labels,
         rm = call.room \/ q = "parent", q \notin {"chain", "room"},
         q \in {"place", "parent"} => Target.outcome = Ok,
         q = "parent" /\ TargetPlace.kind = "room" => rm = TargetPlace.id
  PROVE  IInv'
<1>1. /\ InOrder /\ Listed(call.index) /\ ItemListing(call.items)
      /\ call' = [kind |-> call.kind, subject |-> call.subject, query |-> call.query,
                  todo |-> Tail(call.todo), outcome |-> call.outcome,
                  index |-> Index(call.index.rooms, call.index.containers), items |-> call.items,
                  tags |-> tg, aliases |-> al, room |-> rm]
  <2>1. Fields /\ InOrder /\ Listed(call.index) /\ ItemListing(call.items)
    BY DEF IInv
  <2>2. call' = [[call EXCEPT !.tags = tg, !.aliases = al, !.room = rm] EXCEPT !.todo = Tail(@)]
    BY DEF Goes, With
  <2>3. call.index = Index(call.index.rooms, call.index.containers)
    BY <2>1 DEF Fields
  <2>4. call = [kind |-> call.kind, subject |-> call.subject, query |-> call.query,
                todo |-> call.todo, outcome |-> call.outcome, index |-> call.index,
                items |-> call.items, tags |-> call.tags, aliases |-> call.aliases,
                room |-> call.room]
    BY <2>1, <2>3 DEF Fields
  <2> QED
    BY <2>1, <2>2, <2>3, <2>4
<1>2. RoomListing(call.index.rooms) /\ ContainerListing(call.index.containers)
  BY <1>1 DEF Listed
<1>3. ASSUME Reading PROVE Listings' /\ Chained' /\ Placed'
  <2>1. /\ Order /\ Listings /\ Chained /\ Placed /\ db \in seen /\ seen' = seen
        /\ \A x : Ran(x)' <=> Ran(x) \/ x = q
    BY <1>1, <1>3, InOrderHas, GoesOn DEF IInv, Reading, Reads
  <2>2. /\ call'.index.rooms = call.index.rooms
        /\ call'.index.containers = call.index.containers /\ call'.index = call.index
        /\ call'.items = call.items /\ call'.kind = call.kind /\ call'.room = rm
        /\ call'.subject = call.subject /\ call'.query = call.query
        /\ call'.tags = tg /\ call'.aliases = al
    BY <1>1 DEF Index, IInv, Fields
  <2>3. \A d : Selected(d)' = Selected(d) /\ LabelsIn(d)' = LabelsIn(d)
    BY <2>2, SelectedSame
  <2>4. Target' = Target /\ (Target' = Target => TargetPlace' = TargetPlace)
    BY <2>2 DEF Target, TargetPlace
  <2>5. Labels = LabelsIn(db)
    BY DEF Labels, LabelsIn
  <2>6. q = "parent" => ~Ran("chain") /\ ~Ran("room")
    BY <2>1 DEF Order
  <2>7. Found' <=> Found
    BY <2>2 DEF Found
  <2>8. Listings'
    BY <2>1, <2>2, <2>3, <2>5, <2>7 DEF Listings
  <2>9. Chained' /\ Placed'
    BY <2>1, <2>2, <2>4, <2>6 DEF Chained, Placed
  <2> QED
    BY <2>8, <2>9
<1> QED
  BY <1>1, <1>2, <1>3, ReadKeeps

\* A call that ends early has failed, or it is a search that found nothing.
LEMMA EndsKeeps ==
  ASSUME IInv, NEW q, At(q), Reads, NEW outcome, Ends(outcome),
         outcome = Ok => call.kind = "search" /\ q = "items" /\ DOMAIN Selected(db) = {}
  PROVE  IInv'
<1>1. /\ Fields /\ InOrder /\ Listed(call.index) /\ ItemListing(call.items)
      /\ call.kind # "none" /\ call.kind \in DOMAIN Queries
  BY AtQuery DEF IInv
<1>2. call' = [kind |-> call.kind, subject |-> call.subject, query |-> call.query,
               todo |-> <<>>, outcome |-> outcome,
               index |-> Index(call.index.rooms, call.index.containers), items |-> call.items,
               tags |-> call.tags, aliases |-> call.aliases, room |-> call.room]
  <2>1. call' = [call EXCEPT !.todo = <<>>, !.outcome = outcome]
    BY DEF Ends
  <2>2. call.index = Index(call.index.rooms, call.index.containers)
    BY <1>1 DEF Fields
  <2>3. call = [kind |-> call.kind, subject |-> call.subject, query |-> call.query,
                todo |-> call.todo, outcome |-> call.outcome, index |-> call.index,
                items |-> call.items, tags |-> call.tags, aliases |-> call.aliases,
                room |-> call.room]
    BY <1>1, <2>2 DEF Fields
  <2> QED
    BY <2>1, <2>2, <2>3
<1>3. /\ call'.kind = call.kind /\ call'.subject = call.subject /\ call'.query = call.query
      /\ call'.todo = <<>> /\ call'.outcome = outcome /\ call'.index = call.index
      /\ call'.items = call.items /\ Query' = Query
  BY <1>1, <1>2 DEF Query, Fields
<1>4. Fields'
  BY <1>2 DEF Fields, Index
<1>5. /\ Len(Query) \in Nat /\ Query \in Seq(QueryNames) /\ Steps \in 0 .. Len(Query)
      /\ Steps' = Len(Query)
  <2>1. Query \in Seq(QueryNames) /\ Len(Query) \in Nat
    BY <1>1, QueriesAreSequences DEF Query
  <2>2. Len(call'.todo) = 0
    BY <1>3
  <2>3. Steps' = Len(Query) - 0
    BY <1>3, <2>2 DEF Steps
  <2>4. Steps \in 0 .. Len(Query)
    BY <1>1, Runs DEF RunsInOrder, Query
  <2> QED
    BY <2>1, <2>3, <2>4
<1>6. \A x : Ran(x) => Ran(x)'
  <2>1. 1 .. Steps \subseteq 1 .. Len(Query)
    BY <1>5
  <2> QED
    BY <1>3, <1>5, <2>1 DEF Ran
<1>7. InOrder'
  <2>1. call'.todo = SubSeq(Query', Steps' + 1, Len(Query'))
    <3>1. Len(Query) \in Int /\ Len(Query) + 1 \in Int /\ Len(Query) < Len(Query) + 1
      BY <1>5
    <3>2. SubSeq(Query, Len(Query) + 1, Len(Query)) = <<>>
      BY <3>1, SubSeqEmpty
    <3> QED
      BY <1>3, <1>5, <3>2
  <2>2. Len(call'.todo) \in 0 .. Len(Query')
    BY <1>3, <1>5
  <2> QED
    BY <1>1, <1>3, <1>6, <2>1, <2>2 DEF InOrder
<1>8. ASSUME Reading' PROVE Listings' /\ Chained' /\ Placed' /\ Moments'
  <2>1. outcome = Ok /\ call.kind = "search" /\ At("items") /\ DOMAIN Selected(db) = {}
    BY <1>3, <1>8 DEF Reading
  <2>2. Reading /\ Order
    BY <1>1, <1>3, <1>6, <1>8, <2>1, AtQuery, InOrderHas DEF Reading
  <2>3. /\ Listings /\ Moments /\ db \in seen /\ seen' = seen /\ db' = db /\ others' = others
    BY <1>1, <2>2 DEF IInv, Reads
  <2>4. ~Ran("items") /\ ~Ran("item")
    BY <2>1, <2>2 DEF Order, Reading
  <2>5. call.items = NoRows
    BY <2>3, <2>4 DEF Listings
  <2>6. NoRows = Selected(db)
    BY <2>1 DEF NoRows, Selected, Rows, Restrict
  <2>7. \A d : Selected(d)' = Selected(d)
    BY <1>3, SelectedSame
  <2>8. ~Found'
    BY <1>3, <2>1, <2>5 DEF Found, NoRows
  <2>9. Listings'
    BY <1>3, <2>3, <2>5, <2>6, <2>7, <2>8 DEF Listings
  <2>10. \A x \in {"chain", "room", "place", "parent"} : ~Ran(x)'
    <3>1. \A x : Ran(x)' => \E k \in 1 .. 5 :
            <<"items", "tags", "aliases", "rooms", "containers">>[k] = x
      <4>1. Query' = <<"items", "tags", "aliases", "rooms", "containers">> /\ Steps' = 5
        BY <1>3, <1>5, <2>1, QueriesAre DEF Query
      <4> QED
        BY <4>1 DEF Ran
    <3> QED
      BY <3>1
  <2>11. Chained' /\ Placed'
    BY <2>10 DEF Chained, Placed
  <2>12. Moments'
    BY <2>3 DEF Moments, OneTable
  <2> QED
    BY <2>9, <2>11, <2>12
<1>9. /\ (RecordedHousehold /\ others \in 0 .. MaxOthers)' /\ db' \in seen'
      /\ \A d \in seen' : Household(d)
  BY <1>1 DEF IInv, Reads, RecordedHousehold
<1>10. Listed(call.index)' /\ ItemListing(call.items)'
  BY <1>1, <1>3
<1> QED
  BY <1>4, <1>7, <1>8, <1>9, <1>10 DEF IInv

\* The room of a chain is that of its container.
LEMMA ChainTop ==
  ASSUME NEW cs, ContainerListing(cs), NEW c, DOMAIN Chain(cs, c) # {},
         NEW top, top = CHOOSE x \in DOMAIN Chain(cs, c) :
                          Chain(cs, c)[x].parent \notin DOMAIN Chain(cs, c)
  PROVE  c \in DOMAIN cs /\ Chain(cs, c)[top].room = cs[c].room
<1>1. c \in DOMAIN cs
  <2> SUFFICES ASSUME c \notin DOMAIN cs PROVE FALSE
    OBVIOUS
  <2>1. Walk(cs, c) = {}
    <3>1. {} \in SUBSET DOMAIN cs /\ {c} \cap DOMAIN cs \subseteq {}
      OBVIOUS
    <3> QED
      BY <3>1 DEF Walk
  <2>2. DOMAIN Chain(cs, c) = {}
    BY <2>1, RowsFacts DEF Chain
  <2> QED
    BY <2>2
<1> DEFINE ch == Chain(cs, c)
<1>2. /\ DOMAIN ch = Walk(cs, c) /\ ContainerListing(ch)
      /\ \A x \in DOMAIN ch : ch[x].room = cs[c].room
  BY <1>1, ChainWalk, ChainListing, WalkSharesRoom
<1> HIDE DEF ch
<1>3. \E x \in DOMAIN ch : ch[x].parent \notin DOMAIN ch
  <2>1. DOMAIN ch \in SUBSET DOMAIN ch /\ DOMAIN ch # {}
    BY DEF ch
  <2> QED
    BY <1>2, <2>1 DEF ContainerListing, Acyclic
<1>4. top \in DOMAIN ch
  BY <1>3 DEF ch
<1> QED
  BY <1>1, <1>2, <1>4 DEF ch

LEMMA ReadChainKeeps ==
  ASSUME IInv, ReadChain
  PROVE  IInv'
<1> DEFINE chain == Chain(db.containers, call.subject)
           top == CHOOSE c \in DOMAIN chain : chain[c].parent \notin DOMAIN chain
           rm == chain[top].room
<1>1. CASE DOMAIN chain # {}
  <2>1. /\ Fields /\ At("chain") /\ Reads /\ InOrder
        /\ Listed(call.index) /\ ItemListing(call.items)
    BY DEF ReadChain, IInv
  <2>2. call' = [kind |-> call.kind, subject |-> call.subject, query |-> call.query,
                 todo |-> Tail(call.todo), outcome |-> call.outcome,
                 index |-> Index(call.index.rooms, chain), items |-> call.items,
                 tags |-> call.tags, aliases |-> call.aliases, room |-> rm]
    <3>1. call' = [[call EXCEPT !.index.containers = chain, !.room = rm] EXCEPT !.todo = Tail(@)]
      BY <1>1 DEF ReadChain, Goes, Chain
    <3>2. call.index = [rooms |-> call.index.rooms, containers |-> call.index.containers]
      BY <2>1 DEF Fields, Index
    <3>3. [call.index EXCEPT !.containers = chain]
            = [rooms |-> call.index.rooms, containers |-> chain]
      BY <3>2
    <3> HIDE DEF chain, rm
    <3> QED
      BY <2>1, <3>1, <3>3 DEF Fields, Index
  <2>3. /\ ContainerListing(db.containers) /\ call.subject \in DOMAIN db.containers
        /\ rm = db.containers[call.subject].room
    BY <1>1, ChainTop, HouseholdListings DEF IInv, RecordedHousehold
  <2>4. RoomListing(call.index.rooms) /\ ContainerListing(chain)
    BY <2>1, <2>3, ChainListing DEF Listed
  <2> HIDE DEF rm
  <2>5. ASSUME Reading PROVE Listings' /\ Chained' /\ Placed'
    <3>1. /\ Order /\ Listings /\ Chained /\ Placed /\ db \in seen /\ seen' = seen
          /\ \A x : Ran(x)' <=> Ran(x) \/ x = "chain"
      BY <2>1, <2>2, <2>5, InOrderHas, GoesOn DEF IInv, Reading, Reads
    <3>2. /\ ~Ran("rooms") /\ ~Ran("containers") /\ ~Ran("item") /\ ~Ran("items")
          /\ ~Ran("tags") /\ ~Ran("aliases") /\ ~Ran("place") /\ ~Ran("parent") /\ ~Ran("room")
      BY <2>1, <3>1 DEF Order
    <3>3. /\ call'.index.containers = chain /\ call'.items = call.items /\ call'.room = rm
          /\ call'.subject = call.subject
      BY <2>2 DEF Index
    <3>4. Listings' /\ Placed'
      BY <3>1, <3>2, <3>3 DEF Listings, Placed
    <3>5. Chained'
      BY <2>3, <3>1, <3>2, <3>3 DEF Chained
    <3> QED
      BY <3>4, <3>5
  <2> HIDE DEF chain
  <2> QED
    BY <2>1, <2>2, <2>4, <2>5, ReadKeeps
<1>2. CASE DOMAIN chain = {}
  <2>1. At("chain") /\ Ends(NotFound) /\ Reads
    BY <1>2 DEF ReadChain, Chain
  <2> QED
    BY <2>1, EndsKeeps DEF NotFound, Ok
<1> QED
  BY <1>1, <1>2

LEMMA ReadRoomKeeps ==
  ASSUME IInv, ReadRoom
  PROVE  IInv'
<1>1. CASE call.room \in DOMAIN db.rooms
  <2> DEFINE rooms == Rows(db.rooms, {call.room})
  <2>1. /\ Fields /\ At("room") /\ Reads /\ InOrder
        /\ Listed(call.index) /\ ItemListing(call.items)
    BY DEF ReadRoom, IInv
  <2>2. call' = [kind |-> call.kind, subject |-> call.subject, query |-> call.query,
                 todo |-> Tail(call.todo), outcome |-> call.outcome,
                 index |-> Index(rooms, call.index.containers), items |-> call.items,
                 tags |-> call.tags, aliases |-> call.aliases, room |-> call.room]
    <3>1. call' = [[call EXCEPT !.index.rooms = rooms] EXCEPT !.todo = Tail(@)]
      BY <1>1 DEF ReadRoom, Goes
    <3>2. call.index = [rooms |-> call.index.rooms, containers |-> call.index.containers]
      BY <2>1 DEF Fields, Index
    <3>3. [call.index EXCEPT !.rooms = rooms]
            = [rooms |-> rooms, containers |-> call.index.containers]
      BY <3>2
    <3> HIDE DEF rooms
    <3> QED
      BY <2>1, <3>1, <3>3 DEF Fields, Index
  <2>3. RoomListing(rooms) /\ ContainerListing(call.index.containers)
    BY <2>1, RowsListing, HouseholdListings DEF IInv, RecordedHousehold, Listed
  <2>4. ASSUME Reading PROVE Listings' /\ Chained' /\ Placed'
    <3>1. /\ Order /\ Listings /\ Chained /\ Placed /\ db \in seen /\ seen' = seen
          /\ \A x : Ran(x)' <=> Ran(x) \/ x = "room"
      BY <2>1, <2>2, <2>4, InOrderHas, GoesOn DEF IInv, Reading, Reads
    <3>2. /\ ~Ran("rooms") /\ ~Ran("containers") /\ ~Ran("item") /\ ~Ran("items")
          /\ ~Ran("tags") /\ ~Ran("aliases") /\ ~Ran("place") /\ ~Ran("parent")
      BY <2>1, <3>1 DEF Order
    <3>3. /\ call'.index.rooms = rooms /\ call'.index.containers = call.index.containers
          /\ call'.items = call.items /\ call'.room = call.room /\ call'.subject = call.subject
      BY <2>2 DEF Index
    <3>4. Listings' /\ Placed'
      BY <3>1, <3>2, <3>3 DEF Listings, Placed
    <3>5. Chained'
      BY <1>1, <3>1, <3>2, <3>3 DEF Chained
    <3> QED
      BY <3>4, <3>5
  <2> HIDE DEF rooms
  <2> QED
    BY <2>1, <2>2, <2>3, <2>4, ReadKeeps
<1>2. CASE call.room \notin DOMAIN db.rooms
  <2>1. At("room") /\ Ends(NotFound) /\ Reads
    BY <1>2 DEF ReadRoom
  <2> QED
    BY <2>1, EndsKeeps DEF NotFound, Ok
<1> QED
  BY <1>1, <1>2

LEMMA ReadItemsKeep ==
  ASSUME IInv, ReadItem \/ ReadItems
  PROVE  IInv'
<1>1. CASE ReadItem
  <2>1. /\ At("item") /\ Reads
        /\ Goes([call EXCEPT !.items = Selected(db)]) \/ Ends(NotFound)
    BY <1>1 DEF ReadItem
  <2>2. call.kind # "search"
    BY <2>1, AtQuery, InOrderHas DEF IInv, Order
  <2>3. CASE Ends(NotFound)
    BY <2>1, <2>3, EndsKeeps DEF NotFound, Ok
  <2>4. CASE Goes([call EXCEPT !.items = Selected(db)])
    BY <2>1, <2>2, <2>4, SelectedKeeps
  <2> QED
    BY <2>1, <2>3, <2>4
<1>2. CASE ReadItems
  <2>1. /\ At("items") /\ Reads
        /\ \/ call.kind = "search" /\ DOMAIN Selected(db) = {} /\ Ends(Ok)
           \/ /\ call.kind = "search" => DOMAIN Selected(db) # {}
              /\ Goes([call EXCEPT !.items = Selected(db)])
    BY <1>2 DEF ReadItems
  <2>2. CASE call.kind = "search" /\ DOMAIN Selected(db) = {} /\ Ends(Ok)
    BY <2>1, <2>2, EndsKeeps
  <2>3. CASE /\ call.kind = "search" => DOMAIN Selected(db) # {}
             /\ Goes([call EXCEPT !.items = Selected(db)])
    BY <2>1, <2>3, SelectedKeeps
  <2> QED
    BY <2>1, <2>2, <2>3
<1> QED
  BY <1>1, <1>2

LEMMA SameWith ==
  ASSUME Fields
  PROVE  /\ \A x : [call EXCEPT !.tags = x] = With(x, call.aliases, call.room)
         /\ \A x : [call EXCEPT !.aliases = x] = With(call.tags, x, call.room)
         /\ \A x : [call EXCEPT !.room = x] = With(call.tags, call.aliases, x)
         /\ call = With(call.tags, call.aliases, call.room)
<1>1. call.index = Index(call.index.rooms, call.index.containers)
  BY DEF Fields
<1>2. call = [kind |-> call.kind, subject |-> call.subject, query |-> call.query,
              todo |-> call.todo, outcome |-> call.outcome, index |-> call.index,
              items |-> call.items, tags |-> call.tags, aliases |-> call.aliases,
              room |-> call.room]
  BY <1>1 DEF Fields
<1> QED
  BY <1>2 DEF With

LEMMA ReadLabelsKeep ==
  ASSUME IInv, ReadTags \/ ReadAliases
  PROVE  IInv'
<1>1. CASE ReadTags
  <2>1. /\ At("tags") /\ Reads
        /\ Goes(With(Labels, call.aliases, call.room))
    BY <1>1, SameWith DEF ReadTags, IInv
  <2> QED
    BY <2>1, OtherKeeps
<1>2. CASE ReadAliases
  <2>1. /\ At("aliases") /\ Reads
        /\ Goes(With(call.tags, Labels, call.room))
    BY <1>2, SameWith DEF ReadAliases, IInv
  <2> QED
    BY <2>1, OtherKeeps
<1> QED
  BY <1>1, <1>2

LEMMA ReadPlacesKeep ==
  ASSUME IInv, CheckPlace \/ ReadContainer \/ ReadParent
  PROVE  IInv'
<1> DEFINE same == With(call.tags, call.aliases, call.room)
<1>1. call = same
  BY SameWith DEF IInv
<1> HIDE DEF same
<1>2. CASE CheckPlace
  <2>1. At("place") /\ Reads
    BY <1>2 DEF CheckPlace
  <2>2. CASE Target.outcome # Ok
    BY <1>2, <2>1, <2>2, EndsKeeps DEF CheckPlace
  <2>3. CASE Target.outcome = Ok /\ ~LocationExists(db, TargetPlace)
    <3>1. Ends(NotFound)
      BY <1>2, <2>3 DEF CheckPlace
    <3> QED
      BY <2>1, <3>1, EndsKeeps DEF NotFound, Ok
  <2>4. CASE Target.outcome = Ok /\ LocationExists(db, TargetPlace)
    <3>1. Goes(same)
      BY <1>1, <1>2, <2>4 DEF CheckPlace
    <3> QED
      BY <2>1, <2>4, <3>1, OtherKeeps DEF same
  <2> QED
    BY <2>2, <2>3, <2>4
<1>3. CASE ReadContainer
  <2>1. At("container") /\ Reads
    BY <1>3 DEF ReadContainer
  <2>2. CASE call.subject \notin DOMAIN db.containers
    <3>1. Ends(NotFound)
      BY <1>3, <2>2 DEF ReadContainer
    <3> QED
      BY <2>1, <3>1, EndsKeeps DEF NotFound, Ok
  <2>3. CASE call.subject \in DOMAIN db.containers
    <3>1. Goes(same)
      BY <1>1, <1>3, <2>3 DEF ReadContainer
    <3> QED
      BY <2>1, <3>1, OtherKeeps DEF same
  <2> QED
    BY <2>2, <2>3
<1>4. CASE ReadParent
  <2>1. At("parent") /\ Reads
    BY <1>4 DEF ReadParent
  <2>2. CASE Target.outcome # Ok
    BY <1>4, <2>1, <2>2, EndsKeeps DEF ReadParent
  <2>3. CASE Target.outcome = Ok /\ TargetPlace.kind = "room"
    <3>1. Goes(With(call.tags, call.aliases, TargetPlace.id))
      <4>1. Goes([call EXCEPT !.room = TargetPlace.id])
        BY <1>4, <2>3 DEF ReadParent
      <4> QED
        BY <4>1, SameWith DEF IInv
    <3> QED
      BY <2>1, <2>3, <3>1, OtherKeeps
  <2>4. CASE Target.outcome = Ok /\ TargetPlace.kind # "room"
             /\ TargetPlace.id \notin DOMAIN db.containers
    <3>1. Ends(NotFound)
      BY <1>4, <2>4 DEF ReadParent
    <3> QED
      BY <2>1, <3>1, EndsKeeps DEF NotFound, Ok
  <2>5. CASE Target.outcome = Ok /\ TargetPlace.kind # "room"
             /\ TargetPlace.id \in DOMAIN db.containers
    <3> DEFINE rm == db.containers[TargetPlace.id].room
    <3>1. Goes(With(call.tags, call.aliases, rm))
      <4>1. Goes([call EXCEPT !.room = rm])
        BY <1>4, <2>5 DEF ReadParent
      <4> QED
        BY <4>1, SameWith DEF IInv
    <3> HIDE DEF rm
    <3> QED
      BY <2>1, <2>5, <3>1, OtherKeeps
  <2> QED
    BY <2>2, <2>3, <2>4, <2>5
<1> QED
  BY <1>2, <1>3, <1>4

-----------------------------------------------------------------------------
(* The writes.                                                             *)

\* What a call's words stand for: one place of its index, or no place.
LEMMA TargetIs ==
  ASSUME Listed(call.index)
  PROVE  /\ Target.outcome = Ok => /\ TargetPlace \in Places(call.index)
                                   /\ TargetPlace \in Location
                                   /\ Target = Resolved(Ok, {TargetPlace})
         /\ Target.outcome # Ok => TargetPlace = Place0
<1>1. ASSUME Target.outcome = Ok
      PROVE  TargetPlace \in Places(call.index) /\ Target = Resolved(Ok, {TargetPlace})
  <2>1. \E p \in Places(call.index) : Target = Resolved(Ok, {p})
    <3>1. CASE ReadAs(call.index, call.query) # {}
      <4>1. \E p \in ReadAs(call.index, call.query) : Target = Resolved(Ok, {p})
        BY <3>1, Resolution DEF Target
      <4> QED
        BY <4>1 DEF ReadAs
    <3>2. CASE ReadAs(call.index, call.query) = {}
      BY <1>1, <3>2, Resolution DEF Target
    <3> QED
      BY <3>1, <3>2
  <2>2. PICK p \in Places(call.index) : Target = Resolved(Ok, {p})
    BY <2>1
  <2>3. TargetPlace = p
    BY <1>1, <2>2 DEF TargetPlace, Resolved
  <2> QED
    BY <2>2, <2>3
<1> QED
  BY <1>1, PlacesAre DEF TargetPlace

\* A place that is there is one.
LEMMA TargetExists ==
  ASSUME IInv, LocationExists(db, TargetPlace)
  PROVE  Target.outcome = Ok /\ TargetPlace \in Location
<1>1. ~LocationExists(db, Place0)
  <2>1. DOMAIN db.rooms \subseteq RoomID
    BY DEF IInv, RecordedHousehold, Household, IsDB, IsTable
  <2>2. 0 \notin RoomID
    BY BoundsAssumption DEF RoomID
  <2> QED
    BY <2>1, <2>2 DEF LocationExists, Place0, RoomLocation
<1> QED
  BY <1>1, TargetIs DEF IInv

\* A write that is made is a mutation of the inventory, at the place that the
\* words of the call stand for.
Acted ==
  /\ At("write") /\ INV!Next /\ Target.outcome = Ok /\ others' = others
  /\ \E s : Goes([call EXCEPT !.subject = s])
  /\ seen' = seen \cup {db'} \/ seen' = {db'}
  /\ ActedAt = TargetPlace

LEMMA CallSubject ==
  ASSUME Fields, NEW s, Goes([call EXCEPT !.subject = s])
  PROVE  call'.subject = s
<1>1. call' = [[call EXCEPT !.subject = s] EXCEPT !.todo = Tail(@)]
  BY DEF Goes
<1>2. call.index = Index(call.index.rooms, call.index.containers)
  BY DEF Fields
<1>3. call = [kind |-> call.kind, subject |-> call.subject, query |-> call.query,
              todo |-> call.todo, outcome |-> call.outcome, index |-> call.index,
              items |-> call.items, tags |-> call.tags, aliases |-> call.aliases,
              room |-> call.room]
  BY <1>2 DEF Fields
<1> QED
  BY <1>1, <1>3

LEMMA MoveItemActs ==
  ASSUME IInv, MoveItem
  PROVE  At("write") /\ (Refuses \/ Acted)
<1> DEFINE i == call.subject
<1>1. At("write") /\ call.kind = "move_item" /\ Fields /\ Household(db)
  BY DEF MoveItem, Writes, IInv, RecordedHousehold
<1>2. CASE INV!MoveItem(i, TargetPlace) /\ Wrote(i, seen \cup {db'})
  <2>1. ItemMoveChecks(db, i, TargetPlace) = Ok /\ db' = ItemMove(db, i, TargetPlace)
    BY <1>2, SameItems, SameEvents DEF INV!MoveItem, INV!Commit
  <2>2. LocationExists(db, TargetPlace) /\ i \in DOMAIN db.items
    BY <2>1 DEF ItemMoveChecks, Ok, NotFound
  <2>3. /\ Target.outcome = Ok /\ TargetPlace \in Location /\ i \in ItemID
        /\ db.items[i] \in ItemRow
    BY <1>1, <2>2, TargetExists DEF Household, IsDB, IsTable
  <2>4. INV!Next
    BY <1>2, <2>3, SameSets DEF INV!Next
  <2>5. Goes([call EXCEPT !.subject = i]) /\ seen' = seen \cup {db'} /\ others' = others
    BY <1>2 DEF Wrote
  <2>6. call'.subject = i
    BY <1>1, <2>5, CallSubject
  <2>7. db'.items[i].location = TargetPlace
    BY <2>1, <2>2, <2>3 DEF ItemMove, SetItems, ItemRow
  <2> HIDE DEF i
  <2>8. ActedAt = TargetPlace
    BY <1>1, <2>6, <2>7 DEF ActedAt
  <2> QED
    BY <1>1, <2>3, <2>4, <2>5, <2>8 DEF Acted
<1> QED
  BY <1>1, <1>2 DEF MoveItem

LEMMA AddItemActs ==
  ASSUME IInv, AddItem
  PROVE  At("write") /\ (Refuses \/ Acted)
<1> DEFINE row == [location |-> TargetPlace, name |-> call.subject, detail |-> Plain]
           i == NewItem(db)
<1>1. At("write") /\ call.kind = "add_item" /\ Fields /\ InOrder
  BY DEF AddItem, Writes, IInv
<1>2. CASE INV!CreateItem(row) /\ Wrote(i, seen \cup {db'})
  <2>1. ItemCreateChecks(db, row) = Ok /\ db' = ItemCreate(db, row)
    BY <1>2, SameItems, SameEvents DEF INV!CreateItem, INV!Commit
  <2>2. LocationExists(db, TargetPlace)
    BY <2>1 DEF ItemCreateChecks, Ok, NotFound
  <2>3. Target.outcome = Ok /\ TargetPlace \in Location
    BY <2>2, TargetExists
  <2>4. call.subject \in Name
    BY <1>1, AtQuery, InOrderHas DEF Order, InOrder
  <2>5. row \in ItemRow
    BY <2>3, <2>4, HomesAssumption DEF ItemRow
  <2>6. INV!Next
    BY <1>2, <2>5, SameSets DEF INV!Next
  <2>7. Goes([call EXCEPT !.subject = i]) /\ seen' = seen \cup {db'} /\ others' = others
    BY <1>2 DEF Wrote
  <2>8. call'.subject = i
    BY <1>1, <2>7, CallSubject
  <2>9. db'.items[i].location = TargetPlace
    BY <2>1 DEF ItemCreate, SetItems, Put
  <2> HIDE DEF i
  <2>10. ActedAt = TargetPlace
    BY <1>1, <2>8, <2>9 DEF ActedAt
  <2> QED
    BY <1>1, <2>3, <2>6, <2>7, <2>10 DEF Acted
<1> QED
  BY <1>1, <1>2 DEF AddItem

LEMMA MoveContainerActs ==
  ASSUME IInv, MoveContainer
  PROVE  At("write") /\ (Refuses \/ Acted)
<1> DEFINE c == call.subject
<1>1. At("write") /\ call.kind = "move_container" /\ Fields /\ Household(db)
  BY DEF MoveContainer, Writes, IInv, RecordedHousehold
<1>2. CASE INV!MoveContainer(c, TargetPlace) /\ Wrote(c, {db'})
  <2>1. ContainerMoveChecks(db, c, TargetPlace) = Ok /\ db' = ContainerMove(db, c, TargetPlace)
    BY <1>2, SameContainers, SameEvents DEF INV!MoveContainer, INV!Commit
  <2>2. LocationExists(db, TargetPlace) /\ c \in DOMAIN db.containers
    BY <2>1 DEF ContainerMoveChecks, Ok, NotFound
  <2>3. /\ Target.outcome = Ok /\ TargetPlace \in Location /\ c \in ContainerID
    BY <1>1, <2>2, TargetExists DEF Household, IsDB, IsTable
  <2>4. INV!Next
    BY <1>2, <2>3, SameSets DEF INV!Next
  <2>5. Goes([call EXCEPT !.subject = c]) /\ seen' = {db'} /\ others' = others
    BY <1>2 DEF Wrote
  <2>6. call'.subject = c
    BY <1>1, <2>5, CallSubject
  <2>7. Origin(db'.containers, c) = TargetPlace
    <3>1. c \in Subtree(db.containers, c)
      BY <2>2, SubtreeFacts
    <3>2. /\ db'.containers[c].room = RoomOf(db, TargetPlace)
          /\ db'.containers[c].parent = IF TargetPlace.kind = "room" THEN Nil ELSE TargetPlace.id
      BY <2>1, <2>2, <3>1 DEF ContainerMove, SetContainers, Moved
    <3> QED
      BY <2>3, <3>2, NilAssumption DEF Origin, RoomOf, Location, RoomLocation, ContainerLocation
  <2> HIDE DEF c
  <2>8. ActedAt = TargetPlace
    BY <1>1, <2>6, <2>7 DEF ActedAt
  <2> QED
    BY <1>1, <2>3, <2>4, <2>5, <2>8 DEF Acted
<1> QED
  BY <1>1, <1>2 DEF MoveContainer

LEMMA AddContainerActs ==
  ASSUME IInv, AddContainer
  PROVE  At("write") /\ (Refuses \/ Acted)
<1> DEFINE row == [room   |-> call.room,
                   parent |-> IF TargetPlace.kind = "room" THEN Nil ELSE TargetPlace.id,
                   name   |-> call.subject, detail |-> Plain]
           c == NewContainer(db)
<1>1. At("write") /\ call.kind = "add_container" /\ Fields /\ InOrder /\ Household(db)
  BY DEF AddContainer, Writes, IInv, RecordedHousehold
<1>2. CASE INV!CreateContainer(row) /\ Wrote(c, {db'})
  <2>1. ContainerCreateChecks(db, row) = Ok /\ db' = ContainerCreate(db, row)
    BY <1>2, SameContainers, SameEvents DEF INV!CreateContainer, INV!Commit
  <2>2. Order /\ ~Ran("write") /\ Ran("parent") /\ call.kind # "none" /\ call.outcome = Ok
    BY <1>1, AtQuery, InOrderHas DEF Order
  <2>3. /\ Target.outcome = Ok
        /\ TargetPlace.kind = "room" => call.room = TargetPlace.id
    BY <2>2 DEF IInv, Reading, Placed
  <2>4. TargetPlace \in Location
    BY <2>3, TargetIs DEF IInv
  <2>5. call.room \in RoomID
    <3>1. call.room \in DOMAIN db.rooms
      BY <2>1 DEF ContainerCreateChecks, Ok, NotFound
    <3> QED
      BY <1>1, <3>1 DEF Household, IsDB, IsTable
  <2>6. TargetPlace.kind # "room" => TargetPlace.id \in ContainerID
    BY <2>4 DEF Location, RoomLocation, ContainerLocation
  <2>7. call.subject \in Name
    BY <1>1, <2>2 DEF InOrder
  <2>8. row \in ContainerRow
    BY <2>5, <2>6, <2>7, HomesAssumption DEF ContainerRow
  <2>9. INV!Next
    BY <1>2, <2>8, SameSets DEF INV!Next
  <2>10. Goes([call EXCEPT !.subject = c]) /\ seen' = {db'} /\ others' = others
    BY <1>2 DEF Wrote
  <2>11. call'.subject = c
    BY <1>1, <2>10, CallSubject
  <2>12. Origin(db'.containers, c) = TargetPlace
    <3>1. db'.containers[c] = row
      BY <2>1 DEF ContainerCreate, SetContainers, Put
    <3> QED
      BY <2>3, <2>4, <3>1, NilAssumption DEF Origin, Location, RoomLocation, ContainerLocation
  <2> HIDE DEF c
  <2>13. ActedAt = TargetPlace
    BY <1>1, <2>11, <2>12 DEF ActedAt
  <2> QED
    BY <1>1, <2>3, <2>9, <2>10, <2>13 DEF Acted
<1> QED
  BY <1>1, <1>2 DEF AddContainer

\* The invariant after a write: the call reads no more of what it was about.
LEMMA WriteKeeps ==
  ASSUME IInv, Acted
  PROVE  IInv'
<1>1. PICK s : Goes([call EXCEPT !.subject = s])
  BY DEF Acted
<1>2. At("write") /\ Fields /\ InOrder /\ Listed(call.index) /\ ItemListing(call.items)
  BY DEF Acted, IInv
<1>3. call' = [kind |-> call.kind, subject |-> s, query |-> call.query,
               todo |-> Tail(call.todo), outcome |-> call.outcome,
               index |-> Index(call.index.rooms, call.index.containers), items |-> call.items,
               tags |-> call.tags, aliases |-> call.aliases, room |-> call.room]
  <2>1. call' = [[call EXCEPT !.subject = s] EXCEPT !.todo = Tail(@)]
    BY <1>1 DEF Goes
  <2>2. call.index = Index(call.index.rooms, call.index.containers)
    BY <1>2 DEF Fields
  <2>3. call = [kind |-> call.kind, subject |-> call.subject, query |-> call.query,
                todo |-> call.todo, outcome |-> call.outcome, index |-> call.index,
                items |-> call.items, tags |-> call.tags, aliases |-> call.aliases,
                room |-> call.room]
    BY <1>2, <2>2 DEF Fields
  <2> QED
    BY <2>1, <2>2, <2>3
<1>4. Fields' /\ InOrder' /\ call'.kind # "none" /\ ~Reading'
  <2>1. /\ Fields' /\ InOrder' /\ call'.kind # "none"
        /\ \A x : Ran(x)' <=> Ran(x) \/ x = "write"
    BY <1>2, <1>3, GoesOn
  <2> QED
    BY <2>1 DEF Reading
<1>5. call'.index = call.index /\ call'.items = call.items
  BY <1>2, <1>3 DEF Fields
<1>6. RecordedHousehold' /\ (others \in 0 .. MaxOthers)'
  BY MutationSound, MutationRecorded DEF Acted, IInv, RecordedHousehold
<1>7. db' \in seen' /\ \A d \in seen' : Household(d)
  BY <1>6 DEF Acted, IInv, RecordedHousehold
<1>8. Listed(call.index)' /\ ItemListing(call.items)'
  BY <1>2, <1>5
<1> QED
  BY <1>4, <1>6, <1>7, <1>8 DEF IInv

LEMMA RefusesKeeps ==
  ASSUME IInv, At("write"), Refuses
  PROVE  IInv'
<1> DEFINE outcome == IF Target.outcome # Ok THEN Target.outcome ELSE "refused"
<1>1. Ends(outcome) /\ Reads /\ outcome # Ok
  BY DEF Refuses, Ok
<1> HIDE DEF outcome
<1> QED
  BY <1>1, EndsKeeps

-----------------------------------------------------------------------------
(* The beginning of a call, and what others write meanwhile.               *)

LEMMA MutationOfOneTable ==
  ASSUME INV!Next
  PROVE  OneTable(db, db')
<1> USE DEF INV!Commit
<1> DEFINE rooms == db'.containers = db.containers /\ db'.items = db.items
           containers == db'.rooms = db.rooms /\ db'.items = db.items
           items == db'.rooms = db.rooms /\ db'.containers = db.containers
<1>1. ASSUME NEW row, INV!CreateRoom(row) PROVE rooms
  BY <1>1, SameRooms DEF INV!CreateRoom, RoomCreate, SetRooms
<1>2. ASSUME NEW r, NEW row, INV!UpdateRoom(r, row) PROVE rooms
  BY <1>2, SameRooms DEF INV!UpdateRoom, RoomUpdate, SetRooms
<1>3. ASSUME NEW r, INV!DeleteRoom(r) PROVE rooms
  BY <1>3, SameRooms DEF INV!DeleteRoom, RoomDelete, SetRooms
<1>4. ASSUME NEW row, INV!CreateContainer(row) PROVE containers
  BY <1>4, SameContainers DEF INV!CreateContainer, ContainerCreate, SetContainers
<1>5. ASSUME NEW c, NEW row, INV!UpdateContainer(c, row) PROVE containers
  BY <1>5, SameContainers DEF INV!UpdateContainer, ContainerUpdate, SetContainers
<1>6. ASSUME NEW c, NEW to, INV!MoveContainer(c, to) PROVE containers
  BY <1>6, SameContainers DEF INV!MoveContainer, ContainerMove, SetContainers
<1>7. ASSUME NEW c, INV!DeleteContainer(c) PROVE containers
  BY <1>7, SameContainers DEF INV!DeleteContainer, ContainerDelete, SetContainers
<1>8. ASSUME NEW row, INV!CreateItem(row) PROVE items
  BY <1>8, SameItems DEF INV!CreateItem, ItemCreate, SetItems
<1>9. ASSUME NEW i, NEW row, INV!UpdateItem(i, row) PROVE items
  BY <1>9, SameItems DEF INV!UpdateItem, ItemUpdate, SetItems
<1>10. ASSUME NEW i, NEW to, INV!MoveItem(i, to) PROVE items
  BY <1>10, SameItems DEF INV!MoveItem, ItemMove, SetItems
<1>11. ASSUME NEW i, INV!DeleteItem(i) PROVE items
  BY <1>11, SameItems DEF INV!DeleteItem, ItemDelete, SetItems
<1>12. CASE INV!Read
  BY <1>12 DEF INV!Read, INV!vars, OneTable
<1>13. rooms \/ containers \/ items => OneTable(db, db')
  BY DEF OneTable
<1> HIDE DEF rooms, containers, items
<1> QED
  BY <1>1, <1>2, <1>3, <1>4, <1>5, <1>6, <1>7, <1>8, <1>9, <1>10, <1>11, <1>12, <1>13
     DEF INV!Next

LEMMA OthersKeeps ==
  ASSUME IInv, Others
  PROVE  IInv'
<1>1. /\ INV!Next /\ others < MaxOthers /\ others \in 0 .. MaxOthers /\ others' = others + 1
      /\ seen' = seen \cup {db'} /\ UNCHANGED call /\ call.kind # "none"
  BY DEF Others, IInv, InOrder, NoCall
<1>2. RecordedHousehold' /\ (others \in 0 .. MaxOthers)'
  BY <1>1, MutationSound, MutationRecorded, HomesAssumption DEF IInv, RecordedHousehold
<1>3. /\ call'.kind # "none" => db' \in seen'
      /\ \A d \in seen' : Household(d)
  BY <1>1, <1>2 DEF IInv, RecordedHousehold
<1>4. /\ Fields' /\ InOrder' /\ Listed(call.index)' /\ ItemListing(call.items)'
      /\ Reading' => Reading
  <2>1. Query' = Query /\ (Steps' = Steps) /\ (Reading' => Reading)
    BY <1>1 DEF Query, Steps, Ran, Reading
  <2>2. \A x : Ran(x)' = Ran(x)
    BY <1>1 DEF Query, Steps, Ran
  <2>3. InOrder'
    BY <1>1, <2>1, <2>2 DEF IInv, InOrder
  <2> QED
    BY <1>1, <2>1, <2>3 DEF IInv, Fields
<1>5. ASSUME Reading PROVE Listings' /\ Chained' /\ Placed'
  <2>1. Listings /\ Chained /\ Placed /\ seen \subseteq seen' /\ call' = call
    BY <1>1, <1>5 DEF IInv
  <2>2. \A x : Ran(x)' = Ran(x)
    BY <2>1 DEF Query, Steps, Ran
  <2>3. \A d : Selected(d)' = Selected(d) /\ LabelsIn(d)' = LabelsIn(d)
    BY <2>1, SelectedSame
  <2>4. Target' = Target /\ (Target' = Target => TargetPlace' = TargetPlace)
    BY <2>1 DEF Target, TargetPlace
  <2>5. Found' <=> Found
    BY <2>1 DEF Found
  <2> QED
    BY <2>1, <2>2, <2>3, <2>4, <2>5 DEF Listings, Chained, Placed
<1>6. ASSUME Reading PROVE Moments'
  <2>1. Moments
    BY <1>6 DEF IInv
  <2>2. others' # 0 /\ (others' <= 1 => others = 0)
    BY <1>1
  <2>3. OneTable(db, db')
    BY <1>1, MutationOfOneTable
  <2>4. others = 0 => seen = {db} /\ seen' = {db, db'}
    BY <1>1, <2>1 DEF Moments
  <2> QED
    BY <2>2, <2>3, <2>4 DEF Moments
<1> QED
  BY <1>2, <1>3, <1>4, <1>5, <1>6 DEF IInv

LEMMA NoRowsListed == RoomListing(NoRows) /\ ContainerListing(NoRows) /\ ItemListing(NoRows)
  BY DEF RoomListing, ContainerListing, ItemListing, NoRows, IsTable, Acyclic

LEMMA InitHolds ==
  ASSUME Init
  PROVE  IInv
<1>1. /\ Household(db) /\ audit = INV!Tables(db) /\ seen = {} /\ others = 0
      /\ call = NoCall
  BY HomesAssumption DEF Init
<1>2. Fields /\ Listed(call.index) /\ ItemListing(call.items)
  BY <1>1, NoRowsListed DEF Fields, Listed, NoCall, Index
<1>3. InOrder /\ ~Reading /\ call.kind = "none"
  BY <1>1 DEF InOrder, Reading, NoCall
<1> QED
  BY <1>1, <1>2, <1>3, HomesAssumption DEF IInv, RecordedHousehold

LEMMA BeginKeeps ==
  ASSUME IInv, NEW r \in Requests, Begin(r)
  PROVE  IInv'
<1>1. /\ others = 0 /\ others' = 0 /\ seen' = {db} /\ db' = db /\ audit' = audit
      /\ call' = Begun(r) /\ RecordedHousehold
  BY DEF Begin, IInv, InOrder
<1>2. /\ r.kind \in DOMAIN Queries
      /\ r.kind \in {"add_item", "add_container"} => r.subject \in Name
  BY RequestsAssumption
<1>3. call' = [kind |-> r.kind, subject |-> r.subject, query |-> r.query,
               todo |-> Queries[r.kind], outcome |-> Ok, index |-> Index(NoRows, NoRows),
               items |-> NoRows, tags |-> NoRows, aliases |-> NoRows, room |-> 0]
  BY <1>1 DEF Begun, NoCall
<1>4. Fields' /\ Listed(call.index)' /\ ItemListing(call.items)'
  BY <1>3, NoRowsListed DEF Fields, Listed, Index
<1>5. Query' = Queries[r.kind] /\ call'.todo = Query' /\ Len(Query') \in Nat \ {0}
      /\ Query' \in Seq(QueryNames)
  BY <1>2, <1>3, QueriesAreSequences DEF Query
<1>6. Steps' = 0
  BY <1>5 DEF Steps
<1>7. \A x : ~Ran(x)'
  BY <1>6 DEF Ran
<1>8. InOrder'
  <2>1. call'.todo = SubSeq(Query', Steps' + 1, Len(Query'))
    BY <1>5, <1>6, SubSeqFull
  <2>2. call'.kind # "none"
    BY <1>2, <1>3, QueriesAre
  <2> QED
    BY <1>2, <1>3, <1>5, <2>1, <2>2, SMTT(30) DEF InOrder
<1>9. Listings' /\ Chained' /\ Placed' /\ Moments'
  BY <1>1, <1>3, <1>7 DEF Listings, Chained, Placed, Moments, OneTable
<1>10. /\ (RecordedHousehold /\ others \in 0 .. MaxOthers)' /\ db' \in seen'
       /\ \A d \in seen' : Household(d)
  BY <1>1, HomesAssumption DEF RecordedHousehold
<1> QED
  BY <1>4, <1>8, <1>9, <1>10 DEF IInv

-----------------------------------------------------------------------------
(* The theorems about Answers.                                             *)

LEMMA StepKeeps ==
  ASSUME IInv, [Next]_vars
  PROVE  IInv'
<1>1. ASSUME NEW r \in Requests, Begin(r) PROVE IInv'
  BY <1>1, BeginKeeps
<1>2. CASE ReadRooms \/ ReadContainers
  BY <1>2, ReadRoomsKeeps, ReadContainersKeeps
<1>3. CASE ReadItem \/ ReadItems
  BY <1>3, ReadItemsKeep
<1>4. CASE ReadTags \/ ReadAliases
  BY <1>4, ReadLabelsKeep
<1>5. CASE CheckPlace \/ ReadContainer \/ ReadParent
  BY <1>5, ReadPlacesKeep
<1>6. CASE ReadChain \/ ReadRoom
  BY <1>6, ReadChainKeeps, ReadRoomKeeps
<1>7. CASE MoveItem \/ AddItem \/ MoveContainer \/ AddContainer
  BY <1>7, MoveItemActs, AddItemActs, MoveContainerActs, AddContainerActs, WriteKeeps,
     RefusesKeeps
<1>8. CASE Others
  BY <1>8, OthersKeeps
<1>9. ASSUME UNCHANGED vars PROVE IInv'
  <2>1. /\ call' = call /\ db' = db /\ audit' = audit /\ seen' = seen /\ others' = others
    BY <1>9 DEF vars
  <2>2. \A x : Ran(x)' = Ran(x)
    BY <2>1 DEF Query, Steps, Ran
  <2>3. \A d : Selected(d)' = Selected(d) /\ LabelsIn(d)' = LabelsIn(d)
    BY <2>1, SelectedSame
  <2>4. Target' = Target /\ (Target' = Target => TargetPlace' = TargetPlace)
    BY <2>1 DEF Target, TargetPlace
  <2>5. (Found' <=> Found) /\ (Reading' <=> Reading) /\ Query' = Query /\ Steps' = Steps
    BY <2>1, <2>2 DEF Found, Reading, Query, Steps
  <2>6. InOrder' /\ Fields' /\ RecordedHousehold'
    BY <2>1, <2>2, <2>5 DEF IInv, InOrder, Fields, RecordedHousehold
  <2>7. Reading' => Listings' /\ Chained' /\ Placed' /\ Moments'
    BY <2>1, <2>2, <2>3, <2>4, <2>5 DEF IInv, Listings, Chained, Placed, Moments, OneTable
  <2> QED
    BY <2>1, <2>6, <2>7 DEF IInv
<1> QED
  BY <1>1, <1>2, <1>3, <1>4, <1>5, <1>6, <1>7, <1>8, <1>9 DEF Next, Done

\* The inductive invariant holds in every reachable state.
THEOREM InductiveInvariant == Spec => []IInv
<1>1. Init => IInv
  BY InitHolds
<1>2. IInv /\ [Next]_vars => IInv'
  BY StepKeeps
<1> QED
  BY <1>1, <1>2, PTL DEF Spec

\* A call holds tables of well-formed rows, and has run against what is there.
THEOREM TypeCorrect == Spec => []TypeOK
<1>1. IInv => TypeOK
  <2> SUFFICES ASSUME IInv PROVE TypeOK
    OBVIOUS
  <2>1. IsDB(db) /\ audit = INV!Tables(db) /\ others \in 0 .. MaxOthers
    BY DEF IInv, RecordedHousehold, Household
  <2>2. call.todo # <<>> => db \in seen
    BY DEF IInv, InOrder, NoCall
  <2>3. /\ IsTable(call.index.rooms, RoomID, RoomRow)
        /\ IsTable(call.index.containers, ContainerID, ContainerRow)
        /\ IsTable(call.items, ItemID, ItemRow)
    BY DEF IInv, Listed, RoomListing, ContainerListing, ItemListing
  <2> QED
    BY <2>1, <2>2, <2>3 DEF TypeOK
<1> QED
  BY <1>1, InductiveInvariant, PTL

\* With plain names each candidate, given back as the path it was shown as,
\* stands for itself alone.
THEOREM PlainCandidatesAreChosen == Spec => []PlainCandidatesCanBeChosen
<1>1. IInv => PlainCandidatesCanBeChosen
  <2> SUFFICES ASSUME IInv, PlainNames(call.index), Target.outcome = Ambiguous,
                      NEW p \in Target.places
               PROVE  Resolve(call.index, PathKey(Path(call.index, p))) = Resolved(Ok, {p})
    BY DEF PlainCandidatesCanBeChosen, CandidatesCanBeChosen
  <2> DEFINE query == PathKey(Path(call.index, p))
  <2>1. Listed(call.index)
    BY DEF IInv
  <2>2. p \in Places(call.index)
    BY <2>1, Resolution DEF Target
  <2>3. p \in ReadAs(call.index, query)
    BY <2>2 DEF ReadAs
  <2>4. PICK q \in ReadAs(call.index, query) : Resolve(call.index, query) = Resolved(Ok, {q})
    BY <2>1, <2>3, Resolution
  <2>5. q \in Places(call.index) /\ PathKey(Path(call.index, q)) = query
    BY DEF ReadAs
  <2>6. q = p
    BY <2>1, <2>2, <2>5, PlainPathsApart
  <2> QED
    BY <2>4, <2>6
<1> QED
  BY <1>1, InductiveInvariant, PTL

\* An export that succeeds declares every name it uses, once.
THEOREM ExportsImport == Spec => []ExportIsImportable
<1>1. IInv => ExportIsImportable
  <2> SUFFICES ASSUME Listed(call.index), ItemListing(call.items),
                      ~Dangles(call.index, call.items)
               PROVE  LET doc == Document(call.index, call.items) IN
    /\ \A c \in DOMAIN doc.containers :
         /\ doc.containers[c].key[1] \in doc.rooms
         /\ doc.containers[c].parent # <<>> =>
              \E e \in DOMAIN doc.containers : doc.containers[e].key = doc.containers[c].parent
         /\ \A e \in DOMAIN doc.containers : doc.containers[e].key = doc.containers[c].key => e = c
    /\ \A i \in DOMAIN doc.items :
         /\ doc.items[i].room \in doc.rooms
         /\ doc.items[i].container # <<>> =>
              \E c \in DOMAIN doc.containers : doc.containers[c].key = doc.items[i].container
         /\ \A j \in DOMAIN doc.items : doc.items[i] = doc.items[j] => i = j
    BY DEF IInv, ExportIsImportable
  <2> DEFINE rooms == call.index.rooms
             cs == call.index.containers
             items == call.items
             doc == Document(call.index, items)
             key(c) == ContainerNamed(call.index, c)
  <2>1. /\ \A c \in DOMAIN cs : cs[c].room \in DOMAIN rooms /\ cs[c].parent \in DOMAIN cs \cup {Nil}
        /\ \A i \in DOMAIN items : Known(call.index, items[i].location)
    BY DEF Dangles
  <2>2. \A c \in DOMAIN cs : key(c) = <<rooms[cs[c].room].name, cs[c].name>>
    BY <2>1 DEF ContainerNamed, RoomNamed
  <2>3. \A c \in DOMAIN cs : /\ key(c)[1] = rooms[cs[c].room].name /\ key(c)[2] = cs[c].name
                            /\ key(c) # <<>>
    BY <2>2
  <2>4. \A r, s \in DOMAIN rooms : rooms[r].name = rooms[s].name => r = s
    BY DEF Listed, RoomListing
  <2>5. \A c, d \in DOMAIN cs : key(c) = key(d) => c = d
    <3> TAKE c, d \in DOMAIN cs
    <3>1. \A x, y \in DOMAIN cs : cs[x].room = cs[y].room /\ cs[x].name = cs[y].name => x = y
      BY DEF Listed, ContainerListing
    <3> QED
      BY <2>1, <2>3, <2>4, <3>1
  <2>6. /\ doc.rooms = {rooms[r].name : r \in DOMAIN rooms}
        /\ DOMAIN doc.containers = DOMAIN cs
        /\ \A c \in DOMAIN cs :
             /\ doc.containers[c].key = key(c)
             /\ doc.containers[c].parent = IF cs[c].parent = Nil THEN <<>> ELSE key(cs[c].parent)
    BY DEF Document
  <2>7. /\ DOMAIN doc.items = DOMAIN items
        /\ \A i \in DOMAIN items : doc.items[i] =
              LET at == items[i].location IN
              [room      |-> IF at.kind = "room" THEN RoomNamed(call.index, at.id)
                             ELSE key(at.id)[1],
               container |-> IF at.kind = "room" THEN <<>> ELSE key(at.id),
               name      |-> items[i].name]
    BY DEF Document
  <2>8. \A i \in DOMAIN items :
          LET at == items[i].location IN
          /\ doc.items[i].name = items[i].name
          /\ \/ /\ at = RoomLocation(at.id) /\ at.kind = "room" /\ at.id \in DOMAIN rooms
                /\ doc.items[i].room = rooms[at.id].name /\ doc.items[i].container = <<>>
             \/ /\ at = ContainerLocation(at.id) /\ at.kind = "container" /\ at.id \in DOMAIN cs
                /\ doc.items[i].room = key(at.id)[1] /\ doc.items[i].container = key(at.id)
    <3> TAKE i \in DOMAIN items
    <3> DEFINE at == items[i].location
    <3>1. at \in Location
      BY DEF ItemListing, IsTable, ItemRow
    <3>2. \/ at.kind = "room" /\ at = RoomLocation(at.id) /\ at.id \in DOMAIN rooms
          \/ at.kind = "container" /\ at = ContainerLocation(at.id) /\ at.id \in DOMAIN cs
      BY <2>1, <3>1 DEF Known, Location, RoomLocation, ContainerLocation
    <3> HIDE DEF key, at
    <3>3. doc.items[i] =
            [room      |-> IF at.kind = "room" THEN RoomNamed(call.index, at.id)
                           ELSE key(at.id)[1],
             container |-> IF at.kind = "room" THEN <<>> ELSE key(at.id),
             name      |-> items[i].name]
      BY <2>7 DEF at
    <3>4. CASE at.kind = "room" /\ at = RoomLocation(at.id) /\ at.id \in DOMAIN rooms
      <4> HIDE DEF doc, rooms, cs
      <4>1. RoomNamed(call.index, at.id) = rooms[at.id].name
        BY <3>4 DEF RoomNamed, rooms
      <4> QED
        BY <3>3, <3>4, <4>1 DEF at
    <3>5. CASE at.kind = "container" /\ at = ContainerLocation(at.id) /\ at.id \in DOMAIN cs
      <4> HIDE DEF doc, rooms, cs
      <4> QED
        BY <3>3, <3>5 DEF at
    <3> QED
      BY <3>2, <3>4, <3>5
  <2> HIDE DEF key, doc
  <2>9. ASSUME NEW c \in DOMAIN doc.containers
        PROVE  /\ doc.containers[c].key[1] \in doc.rooms
               /\ doc.containers[c].parent # <<>> =>
                    \E e \in DOMAIN doc.containers :
                      doc.containers[e].key = doc.containers[c].parent
               /\ \A e \in DOMAIN doc.containers :
                    doc.containers[e].key = doc.containers[c].key => e = c
    BY <2>1, <2>3, <2>5, <2>6
  <2>10. ASSUME NEW i \in DOMAIN doc.items
         PROVE  /\ doc.items[i].room \in doc.rooms
                /\ doc.items[i].container # <<>> =>
                     \E c \in DOMAIN doc.containers : doc.containers[c].key = doc.items[i].container
    <3> DEFINE at == items[i].location
    <3>1. CASE /\ at.id \in DOMAIN rooms
               /\ doc.items[i].room = rooms[at.id].name /\ doc.items[i].container = <<>>
      BY <2>6, <3>1
    <3>2. CASE /\ at.id \in DOMAIN cs
               /\ doc.items[i].room = key(at.id)[1] /\ doc.items[i].container = key(at.id)
      BY <2>1, <2>3, <2>6, <3>2
    <3>3. i \in DOMAIN items
      BY <2>7, <2>10
    <3> HIDE DEF at
    <3> QED
      BY <2>8, <3>1, <3>2, <3>3 DEF at
  <2>11. ASSUME NEW i \in DOMAIN doc.items, NEW j \in DOMAIN doc.items, doc.items[i] = doc.items[j]
         PROVE  i = j
    <3>1. items[i].location = items[j].location
      <4> DEFINE a == items[i].location
                 b == items[j].location
      <4>1. CASE a.kind = "room"
        <5>1. /\ a = RoomLocation(a.id) /\ a.id \in DOMAIN rooms
              /\ doc.items[i].room = rooms[a.id].name
              /\ doc.items[i].container = <<>>
          BY <2>7, <2>8, <4>1
        <5>2. /\ b = RoomLocation(b.id) /\ b.id \in DOMAIN rooms
              /\ doc.items[j].room = rooms[b.id].name
          <6>1. doc.items[j].container = <<>>
            BY <2>11, <5>1
          <6>2. j \in DOMAIN items
            BY <2>7
          <6> QED
            BY <2>3, <2>8, <6>1, <6>2
        <5>3. a.id = b.id
          BY <2>4, <2>11, <5>1, <5>2
        <5> QED
          BY <5>1, <5>2, <5>3
      <4>2. CASE a.kind # "room"
        <5>1. /\ a = ContainerLocation(a.id) /\ a.id \in DOMAIN cs
              /\ doc.items[i].container = key(a.id)
          BY <2>7, <2>8, <4>2
        <5>2. /\ b = ContainerLocation(b.id) /\ b.id \in DOMAIN cs
              /\ doc.items[j].container = key(b.id)
          <6>1. doc.items[j].container # <<>>
            BY <2>3, <2>11, <5>1
          <6>2. j \in DOMAIN items
            BY <2>7
          <6> QED
            BY <2>8, <6>1, <6>2
        <5>3. a.id = b.id
          BY <2>5, <2>11, <5>1, <5>2
        <5> QED
          BY <5>1, <5>2, <5>3
      <4> QED
        BY <4>1, <4>2
    <3>2. items[i].name = items[j].name
      BY <2>7, <2>8, <2>11
    <3> QED
      BY <2>7, <3>1, <3>2 DEF ItemListing
  <2> QED
    BY <2>9, <2>10, <2>11 DEF doc
<1> QED
  BY <1>1, InductiveInvariant, PTL

-----------------------------------------------------------------------------
(* One write of others.                                                    *)

\* What an answer to a lookup has been read from.
LEMMA AnsweredHas ==
  ASSUME IInv, Answered
  PROVE  /\ Fields /\ Listings /\ Chained /\ Placed /\ Moments /\ Order
         /\ call.kind = "get_container" =>
              Ran("container") /\ Ran("chain") /\ Ran("room")
         /\ call.kind # "get_container" =>
              /\ Ran("rooms") /\ Ran("containers") /\ Ran("tags") /\ Ran("aliases")
              /\ Ran("items") \/ Ran("item")
         /\ call.kind = "list_location" => Ran("place")
<1>1. InOrder /\ call.kind # "none" /\ call.todo = <<>> /\ call.kind \in Lookups
  BY DEF IInv, Answered, IsDone
<1>2. Order
  BY <1>1, InOrderHas
<1>3. Reading
  BY <1>1, <1>2 DEF Reading, Answered, Order
<1>4. CASE call.kind = "get_container"
  <2>1. RunsInOrder(<<"container", "chain", "room">>)
    BY <1>1, <1>4, Runs, QueriesAre
  <2>2. Steps = 3 /\ Ran("container") /\ Ran("chain") /\ Ran("room")
    BY <1>1, <2>1 DEF RunsInOrder
  <2> QED
    BY <1>2, <1>3, <1>4, <2>2 DEF IInv
<1>5. CASE call.kind = "get_item"
  <2>1. RunsInOrder(<<"item", "tags", "aliases", "rooms", "containers">>)
    BY <1>1, <1>5, Runs, QueriesAre
  <2>2. /\ Steps = 5
        /\ Ran("item") /\ Ran("tags") /\ Ran("aliases") /\ Ran("rooms") /\ Ran("containers")
    BY <1>1, <2>1 DEF RunsInOrder
  <2> QED
    BY <1>2, <1>3, <1>5, <2>2 DEF IInv
<1>6. CASE call.kind \in {"search", "count_items"}
  <2>1. RunsInOrder(<<"items", "tags", "aliases", "rooms", "containers">>)
    BY <1>1, <1>6, Runs, QueriesAre
  <2>2. /\ Steps = 5
        /\ Ran("items") /\ Ran("tags") /\ Ran("aliases") /\ Ran("rooms") /\ Ran("containers")
    BY <1>1, <2>1 DEF RunsInOrder
  <2> QED
    BY <1>2, <1>3, <1>6, <2>2 DEF IInv
<1>7. CASE call.kind = "list_location"
  <2>1. RunsInOrder(<<"rooms", "containers", "place", "items", "tags", "aliases">>)
    BY <1>1, <1>7, Runs, QueriesAre
  <2>2. /\ Steps = 6 /\ Ran("place")
        /\ Ran("items") /\ Ran("tags") /\ Ran("aliases") /\ Ran("rooms") /\ Ran("containers")
    BY <1>1, <2>1 DEF RunsInOrder
  <2> QED
    BY <1>2, <1>3, <1>7, <2>2 DEF IInv
<1>8. CASE call.kind = "export"
  <2>1. RunsInOrder(<<"rooms", "containers", "items", "tags", "aliases">>)
    BY <1>1, <1>8, Runs, QueriesAre
  <2>2. /\ Steps = 5
        /\ Ran("items") /\ Ran("tags") /\ Ran("aliases") /\ Ran("rooms") /\ Ran("containers")
    BY <1>1, <2>1 DEF RunsInOrder
  <2> QED
    BY <1>2, <1>3, <1>8, <2>2 DEF IInv
<1> QED
  BY <1>1, <1>4, <1>5, <1>6, <1>7, <1>8 DEF Lookups

\* With one write of others, tables read at any moments are those of one.
LEMMA OneMoment ==
  ASSUME Moments, others <= 1, NEW x \in seen, NEW y \in seen, NEW z \in seen
  PROVE  \E m \in seen : m.rooms = x.rooms /\ m.containers = y.containers /\ m.items = z.items
<1>1. PICK d \in seen : seen = {d, db} /\ OneTable(d, db)
  BY DEF Moments
<1>2. \A e, f \in seen : OneTable(e, f)
  BY <1>1 DEF OneTable
<1>3. CASE d.rooms = db.rooms /\ d.containers = db.containers
  <2>1. z.rooms = x.rooms /\ z.containers = y.containers
    BY <1>1, <1>3
  <2> QED
    BY <2>1
<1>4. CASE d.rooms = db.rooms /\ d.items = db.items
  <2>1. y.rooms = x.rooms /\ y.items = z.items
    BY <1>1, <1>4
  <2> QED
    BY <2>1
<1>5. CASE d.containers = db.containers /\ d.items = db.items
  <2>1. x.containers = y.containers /\ x.items = z.items
    BY <1>1, <1>5
  <2> QED
    BY <2>1
<1> QED
  BY <1>1, <1>3, <1>4, <1>5 DEF OneTable

\* The chain of a container is its own chain.
LEMMA ChainOfChain ==
  ASSUME NEW cs, NEW c \in DOMAIN cs
  PROVE  Chain(Chain(cs, c), c) = Chain(cs, c)
<1> DEFINE ch == Chain(cs, c)
<1>1. c \in Walk(cs, c) /\ DOMAIN ch = Walk(cs, c) /\ Walk(ch, c) = Walk(cs, c)
  BY ChainWalk, WalkFacts
<1>2. ch = [x \in DOMAIN ch |-> ch[x]]
  BY DEF Chain, Rows, Restrict
<1> HIDE DEF ch
<1>3. Chain(ch, c) = [x \in DOMAIN ch |-> ch[x]]
  <2>1. DOMAIN ch \cap (DOMAIN ch \cap Walk(ch, c)) = DOMAIN ch
    BY <1>1
  <2> QED
    BY <1>1, <2>1 DEF Chain, Rows, Restrict
<1> QED
  BY <1>2, <1>3 DEF ch

\* With at most one write of others an answer about places is that of one of
\* the two moments.
THEOREM OneWriteTearsNothing == Spec => []OneWriteCannotTear
<1>1. ASSUME IInv PROVE OneWriteCannotTear
  <2> SUFFICES ASSUME Answered, others <= 1
               PROVE  \E d \in seen :
                        /\ call.kind \in {"count_items", "list_location"} =>
                             Resolve(IndexOf(d), call.query) = Target
                        /\ Answer(IndexOf(d), Selected(d)) = Answer(call.index, call.items)
    BY DEF OneWriteCannotTear
  <2>1. Fields /\ Listings /\ Chained /\ Moments /\ call.kind \in Lookups
    BY <1>1, AnsweredHas DEF Answered
  <2>2. call.index = Index(call.index.rooms, call.index.containers)
    BY <2>1 DEF Fields
  <2>3. CASE call.kind # "get_container" /\ Found
    <3>1. Ran("rooms") /\ Ran("containers") /\ (Ran("items") \/ Ran("item"))
      BY <1>1, <2>3, AnsweredHas
    <3>2. PICK x \in seen, y \in seen, z \in seen :
            /\ call.index.rooms = x.rooms /\ call.index.containers = y.containers
            /\ call.items = Selected(z)
      BY <2>1, <2>3, <3>1 DEF Listings
    <3>3. PICK m \in seen : m.rooms = x.rooms /\ m.containers = y.containers /\ m.items = z.items
      BY <2>1, OneMoment
    <3>4. IndexOf(m) = call.index
      BY <2>2, <3>2, <3>3 DEF IndexOf
    <3>5. Selected(m) = call.items
      BY <3>2, <3>3 DEF Selected
    <3> QED
      BY <3>4, <3>5 DEF Target
  <2>4. CASE call.kind = "search" /\ ~Found
    <3>1. PICK z \in seen : call.items = Selected(z)
      BY <1>1, <2>1, <2>4, AnsweredHas DEF Listings
    <3>2. DOMAIN call.items = {}
      BY <2>4 DEF Found
    <3>3. Answer(IndexOf(z), call.items) = Answer(call.index, call.items)
      <4>1. \A index : Answer(index, call.items) =
                         [i \in {} |-> <<call.items[i].name, Path(index, call.items[i].location)>>]
        BY <2>4, <3>2 DEF Answer
      <4>2. \A e, f : [i \in {} |-> e[i]] = [i \in {} |-> f[i]]
        OBVIOUS
      <4> QED
        BY <4>1
    <3> QED
      BY <2>4, <3>1, <3>3
  <2>5. CASE call.kind = "get_container"
    <3> DEFINE c == call.subject
    <3>1. PICK x \in seen : /\ c \in DOMAIN x.containers
                            /\ call.index.containers = Chain(x.containers, c)
                            /\ call.room = x.containers[c].room
      BY <1>1, <2>1, <2>5, AnsweredHas DEF Chained
    <3>2. PICK y \in seen : /\ call.room \in DOMAIN y.rooms
                            /\ call.index.rooms = Rows(y.rooms, {call.room})
      BY <1>1, <2>1, <2>5, AnsweredHas DEF Chained
    <3>3. PICK m \in seen : m.rooms = y.rooms /\ m.containers = x.containers
      BY <2>1, OneMoment
    <3> DEFINE i == IndexOf(m)
               j == call.index
    <3>4. i.rooms = y.rooms /\ i.containers = x.containers
      BY <3>3 DEF IndexOf, Index
    <3>5. /\ c \in DOMAIN j.containers /\ j.containers[c] = i.containers[c]
          /\ Chain(i.containers, c) = Chain(j.containers, c)
      BY <3>1, <3>4, ChainOfChain, ChainWalk, WalkFacts
    <3>6. /\ call.room \in DOMAIN i.rooms /\ call.room \in DOMAIN j.rooms
          /\ i.rooms[call.room] = j.rooms[call.room]
      <4>1. call.room \in DOMAIN y.rooms \cap {call.room}
        BY <3>2
      <4>2. /\ DOMAIN j.rooms = DOMAIN y.rooms \cap {call.room}
            /\ \A x1 \in DOMAIN y.rooms \cap {call.room} : j.rooms[x1] = y.rooms[x1]
        BY <3>2 DEF Rows, Restrict
      <4> HIDE DEF i, j
      <4> QED
        BY <3>4, <4>1, <4>2
    <3>7. ContainerListing(i.containers)
      BY <1>1, <3>1, <3>4, HouseholdListings DEF IInv
    <3>8. PathOf(i, c) = PathOf(j, c)
      <4> HIDE DEF i, j, c
      <4> QED
        BY <3>1, <3>4, <3>5, <3>6, <3>7, PathByChain
    <3>9. Path(i, ContainerLocation(c)) = Path(j, ContainerLocation(c))
      <4>1. NamesTo(i, ContainerLocation(c)) = NamesTo(j, ContainerLocation(c))
        BY <3>1, <3>4, <3>5, <3>8 DEF NamesTo, Known, ContainerLocation
      <4> HIDE DEF i, j, c
      <4> QED
        BY <4>1 DEF Path
    <3> QED
      BY <2>5, <3>9 DEF Answer
  <2> QED
    BY <2>1, <2>3, <2>4, <2>5 DEF Found
<1> QED
  BY <1>1, InductiveInvariant, PTL

-----------------------------------------------------------------------------
(* What stands still.                                                      *)

\* Tables that agree about some rows agree about each of them.
LEMMA SameRow ==
  ASSUME NEW f, NEW g, NEW R, NEW S, NEW r \in DOMAIN f, r \in R, Rows(f, R) = Rows(g, S)
  PROVE  r \in DOMAIN g /\ g[r] = f[r]
<1>1. r \in DOMAIN f \cap R
  OBVIOUS
<1>2. r \in DOMAIN g \cap S
  BY <1>1 DEF Rows, Restrict
<1>3. Rows(f, R)[r] = f[r] /\ Rows(g, S)[r] = g[r]
  BY <1>1, <1>2 DEF Rows, Restrict
<1> QED
  BY <1>2, <1>3

\* Where a place stands still, all databases of the call agree about its line.
LEMMA LineFixes ==
  ASSUME NEW d, Household(d), NEW e, Household(e), NEW at \in Location, LocationExists(d, at),
         Line(d, at) = Line(e, at)
  PROVE  /\ at.kind = "room" =>
              /\ at = RoomLocation(at.id) /\ at.id \in DOMAIN d.rooms /\ at.id \in DOMAIN e.rooms
              /\ e.rooms[at.id] = d.rooms[at.id]
         /\ at.kind # "room" =>
              /\ at = ContainerLocation(at.id)
              /\ at.id \in DOMAIN d.containers /\ at.id \in DOMAIN e.containers
              /\ Chain(e.containers, at.id) = Chain(d.containers, at.id)
              /\ LET r == d.containers[at.id].room IN
                   /\ r \in DOMAIN d.rooms /\ r \in DOMAIN e.rooms
                   /\ e.rooms[r] = d.rooms[r]
<1>1. /\ at.kind = "room" => at = RoomLocation(at.id) /\ at.id \in DOMAIN d.rooms
      /\ at.kind # "room" => at = ContainerLocation(at.id) /\ at.id \in DOMAIN d.containers
  BY DEF Location, RoomLocation, ContainerLocation, LocationExists
<1>2. \A x, y, z : Index(x, y).rooms = x /\ Index(x, y).containers = y
  BY DEF Index
<1>4. CASE at.kind = "room"
  <2>1. Rows(d.rooms, {at.id}) = Rows(e.rooms, {at.id})
    BY <1>2, <1>4 DEF Line
  <2>2. at.id \in DOMAIN e.rooms /\ e.rooms[at.id] = d.rooms[at.id]
    <3> DEFINE R == {at.id}
    <3>1. at.id \in R /\ Rows(d.rooms, R) = Rows(e.rooms, R)
      BY <2>1
    <3> HIDE DEF R
    <3> QED
      BY <1>1, <1>4, <3>1, SameRow
  <2> QED
    BY <1>1, <1>4, <2>2
<1>5. CASE at.kind # "room"
  <2> DEFINE c == at.id
             r == d.containers[c].room
             D == {d.containers[x].room : x \in Walk(d.containers, c)}
             E == {e.containers[x].room : x \in Walk(e.containers, c)}
  <2>1. Chain(d.containers, c) = Chain(e.containers, c) /\ Rows(d.rooms, D) = Rows(e.rooms, E)
    BY <1>2, <1>5 DEF Line, Chain
  <2>2. c \in DOMAIN d.containers /\ ContainerListing(d.containers)
    BY <1>1, <1>5, HouseholdListings
  <2>3. c \in DOMAIN e.containers
    <3>1. c \in DOMAIN Chain(d.containers, c)
      BY <2>2, ChainWalk, WalkFacts
    <3> QED
      BY <2>1, <3>1 DEF Chain, Rows, Restrict
  <2>4. c \in Walk(d.containers, c) /\ \A x \in Walk(d.containers, c) : d.containers[x].room = r
    BY <2>2, WalkFacts, WalkSharesRoom
  <2>5. D = {r}
    BY <2>4
  <2>6. r \in DOMAIN d.rooms
    BY <2>2 DEF Household, ReferencesExistIn
  <2>7. r \in DOMAIN e.rooms /\ e.rooms[r] = d.rooms[r]
    <3> HIDE DEF r, D, E
    <3> QED
      BY <2>1, <2>5, <2>6, SameRow
  <2> QED
    BY <1>1, <1>5, <2>1, <2>2, <2>3, <2>6, <2>7
<1> QED
  BY <1>4, <1>5

\* The index of the call holds the line of a place, as it is now.
Carries(at) ==
  /\ at.kind = "room" =>
       /\ at = RoomLocation(at.id) /\ at.id \in DOMAIN db.rooms /\ at.id \in DOMAIN call.index.rooms
       /\ call.index.rooms[at.id].name = db.rooms[at.id].name
  /\ at.kind # "room" =>
       /\ at = ContainerLocation(at.id)
       /\ at.id \in DOMAIN db.containers /\ at.id \in DOMAIN call.index.containers
       /\ Chain(call.index.containers, at.id) = Chain(db.containers, at.id)
       /\ LET r == db.containers[at.id].room IN
            /\ r \in DOMAIN db.rooms /\ r \in DOMAIN call.index.rooms
            /\ call.index.rooms[r].name = db.rooms[r].name

LEMMA StillIsCarried ==
  ASSUME IInv, NEW x \in seen, NEW y \in seen,
         call.index.rooms = x.rooms, call.index.containers = y.containers,
         NEW at \in Location, StandsStill(at)
  PROVE  Carries(at)
<1>1. Household(db) /\ Household(x) /\ Household(y)
  BY DEF IInv, RecordedHousehold
<1>2. LocationExists(db, at) /\ Line(db, at) = Line(x, at) /\ Line(db, at) = Line(y, at)
  BY DEF StandsStill
<1>3. CASE at.kind = "room"
  <2>1. /\ at = RoomLocation(at.id) /\ at.id \in DOMAIN db.rooms /\ at.id \in DOMAIN x.rooms
        /\ x.rooms[at.id] = db.rooms[at.id]
    <3> DEFINE R == {at.id}
    <3>1. at.id \in R /\ Rows(db.rooms, R) = Rows(x.rooms, R)
      <4>1. \A a, b : Index(a, b).rooms = a
        BY DEF Index
      <4> QED
        BY <1>2, <1>3, <4>1 DEF Line
    <3>2. at = RoomLocation(at.id) /\ at.id \in DOMAIN db.rooms
      BY <1>2, <1>3 DEF Location, RoomLocation, ContainerLocation, LocationExists
    <3> HIDE DEF R
    <3> QED
      BY <3>1, <3>2, SameRow
  <2> QED
    BY <1>3, <2>1 DEF Carries
<1>4. CASE at.kind # "room"
  <2>1. /\ at = ContainerLocation(at.id)
        /\ at.id \in DOMAIN db.containers /\ at.id \in DOMAIN y.containers
        /\ Chain(y.containers, at.id) = Chain(db.containers, at.id)
    BY <1>1, <1>2, <1>4, LineFixes
  <2>2. LET r == db.containers[at.id].room IN
          /\ r \in DOMAIN db.rooms /\ r \in DOMAIN x.rooms /\ x.rooms[r] = db.rooms[r]
    BY <1>1, <1>2, <1>4, LineFixes
  <2> QED
    BY <1>4, <2>1, <2>2 DEF Carries
<1> QED
  BY <1>3, <1>4

\* What is carried reads as it does now.
LEMMA CarriedRow ==
  ASSUME IInv, NEW at, Carries(at), at.kind # "room", NEW x \in Walk(db.containers, at.id)
  PROVE  /\ x \in DOMAIN db.containers /\ x \in DOMAIN call.index.containers
         /\ call.index.containers[x] = db.containers[x]
         /\ Walk(call.index.containers, at.id) = Walk(db.containers, at.id)
         /\ db.containers[x].room = db.containers[at.id].room
<1> DEFINE cs == call.index.containers
           ds == db.containers
           c == at.id
<1>1. /\ c \in DOMAIN cs /\ c \in DOMAIN ds /\ Chain(cs, c) = Chain(ds, c)
      /\ ContainerListing(cs) /\ ContainerListing(ds)
  BY HouseholdListings DEF Carries, IInv, RecordedHousehold, Listed
<1> HIDE DEF cs, ds, c
<1>2. Walk(cs, c) = Walk(ds, c)
  BY <1>1, ChainWalk
<1>3. x \in Walk(ds, c)
  BY DEF ds, c
<1>4. x \in DOMAIN ds /\ x \in DOMAIN cs
  BY <1>1, <1>2, <1>3, WalkFacts
<1>5. cs[x] = ds[x]
  BY <1>1, <1>2, <1>3, ChainWalk
<1>6. ds[x].room = ds[c].room
  BY <1>1, <1>3, WalkSharesRoom
<1> QED
  BY <1>2, <1>4, <1>5, <1>6 DEF cs, ds, c

LEMMA CarriedReads ==
  ASSUME IInv, NEW at, Carries(at)
  PROVE  /\ at \in Places(call.index) /\ at \in Places(IndexOf(db))
         /\ Path(call.index, at) = Path(IndexOf(db), at)
         /\ NameOf(call.index, at) = NameOf(IndexOf(db), at)
<1> DEFINE i == call.index
           j == IndexOf(db)
<1>1. j.rooms = db.rooms /\ j.containers = db.containers
  BY DEF IndexOf, Index
<1>2. CASE at.kind = "room"
  <2>1. /\ at = RoomLocation(at.id) /\ at.id \in DOMAIN i.rooms /\ at.id \in DOMAIN j.rooms
        /\ i.rooms[at.id].name = j.rooms[at.id].name
    BY <1>1, <1>2 DEF Carries
  <2> HIDE DEF i, j
  <2>2. at \in Places(i) /\ at \in Places(j)
    BY <2>1 DEF Places
  <2>3. NamesTo(i, at) = NamesTo(j, at) /\ NameOf(i, at) = NameOf(j, at)
    BY <1>2, <2>1 DEF NamesTo, Known, NameOf
  <2> QED
    BY <2>2, <2>3 DEF i, j, Path
<1>3. CASE at.kind # "room"
  <2> DEFINE c == at.id
             r == j.containers[c].room
  <2>1. /\ at = ContainerLocation(c) /\ c \in DOMAIN i.containers /\ c \in DOMAIN j.containers
        /\ Chain(i.containers, c) = Chain(j.containers, c)
        /\ r \in DOMAIN i.rooms /\ r \in DOMAIN j.rooms /\ i.rooms[r].name = j.rooms[r].name
    BY <1>1, <1>3 DEF Carries
  <2>2. i.containers[c] = j.containers[c]
    <3>1. c \in Walk(db.containers, c)
      BY <1>1, <2>1, WalkFacts
    <3> QED
      BY <1>1, <1>3, <3>1, CarriedRow
  <2>3. ContainerListing(i.containers)
    BY DEF IInv, Listed
  <2> HIDE DEF i, j
  <2>4. PathOf(i, c) = PathOf(j, c)
    <3> HIDE DEF c
    <3> QED
      BY <2>1, <2>2, <2>3, PathByChain DEF r
  <2>5. at \in Places(i) /\ at \in Places(j)
    BY <2>1, <2>2 DEF Places
  <2>6. NamesTo(i, at) = NamesTo(j, at) /\ NameOf(i, at) = NameOf(j, at)
    BY <1>3, <2>1, <2>2, <2>4 DEF NamesTo, Known, NameOf, ContainerLocation
  <2> QED
    BY <2>5, <2>6 DEF i, j, Path
<1> QED
  BY <1>2, <1>3

-----------------------------------------------------------------------------
(* Writes by name.                                                         *)

\* A write is made with the listings read before it.
LEMMA ActedHas ==
  ASSUME IInv, At("write")
  PROVE  /\ Listed(call.index)
         /\ \E x \in seen, y \in seen : call.index = Index(x.rooms, y.containers)
         /\ Moments
<1>1. /\ call.kind # "none" /\ call.outcome = Ok /\ Order
  BY AtQuery, InOrderHas DEF IInv
<1>2. Reading /\ Found /\ Ran("rooms") /\ Ran("containers")
  BY <1>1 DEF Order, Reading, Found, Lookups
<1>3. Listings /\ Moments /\ Fields /\ Listed(call.index)
  BY <1>2 DEF IInv
<1>4. PICK x \in seen, y \in seen :
        call.index.rooms = x.rooms /\ call.index.containers = y.containers
  BY <1>2, <1>3 DEF Listings
<1>5. call.index = Index(call.index.rooms, call.index.containers)
  BY <1>3 DEF Fields
<1> QED
  BY <1>3, <1>4, <1>5

\* Nothing but the call's own write changes the inventory when a write is next.
LEMMA WritesAct ==
  ASSUME IInv, [Next]_vars, At("write"), db' # db, others' = others
  PROVE  Acted
<1>1. others \in Nat
  BY HomesAssumption DEF IInv
<1>2. db' # db => ~Reads
  BY DEF Reads
<1>3. MoveItem \/ AddItem \/ MoveContainer \/ AddContainer
  <2>1. ~(\E q \in Requests : Begin(q)) /\ ~Done /\ ~UNCHANGED vars
    BY DEF Begin, Done, vars, Reads
  <2>2. ~(ReadRooms \/ ReadContainers \/ ReadItem \/ ReadItems \/ ReadTags \/ ReadAliases)
    BY <1>2 DEF ReadRooms, ReadContainers, ReadItem, ReadItems, ReadTags, ReadAliases
  <2>3. ~(CheckPlace \/ ReadContainer \/ ReadChain \/ ReadRoom \/ ReadParent)
    BY <1>2 DEF CheckPlace, ReadContainer, ReadChain, ReadRoom, ReadParent
  <2>4. ~Others
    BY <1>1 DEF Others
  <2> QED
    BY <2>1, <2>2, <2>3, <2>4 DEF Next
<1> QED
  BY <1>2, <1>3, MoveItemActs, AddItemActs, MoveContainerActs, AddContainerActs DEF Refuses

\* A write by name acts on a place that goes by that name, when the name was
\* read or now, and on none that another stands for.
THEOREM WritesActWhereNamed == Spec => ActsWhereNamed
<1>1. ASSUME IInv, [Next]_vars, At("write"), db' # db, others' = others
      PROVE  /\ others <= 1 =>
                  \E d \in seen : Resolve(IndexOf(d), call.query) = Resolved(Ok, {ActedAt})
             /\ StandsStill(ActedAt) => call.query \in GoesBy(IndexOf(db), ActedAt)
             /\ \A p \in Places(IndexOf(db)) \ {ActedAt} :
                  StandsStill(p) /\ call.query \in GoesBy(IndexOf(db), p) =>
                    call.query = PathKey(Path(call.index, ActedAt))
  <2> DEFINE T == TargetPlace
             q == call.query
  <2>1. Acted /\ Listed(call.index) /\ Moments
    BY <1>1, WritesAct, ActedHas
  <2>2. /\ ActedAt = T /\ T \in Places(call.index) /\ T \in Location
        /\ Resolve(call.index, q) = Resolved(Ok, {T})
    BY <2>1, TargetIs DEF Acted, Target
  <2>3. PICK x \in seen, y \in seen : call.index = Index(x.rooms, y.containers)
    BY <1>1, ActedHas
  <2>4. call.index.rooms = x.rooms /\ call.index.containers = y.containers
    BY <2>3 DEF Index
  <2>5. \/ T \in ReadAs(call.index, q)
        \/ ReadAs(call.index, q) = {} /\ NamedAs(call.index, q) = {T}
    <3>1. \A a, b : Resolved(Ok, {a}) = Resolved(Ok, {b}) => a = b
      <4>1. \A a, b : Resolved(Ok, {a}).places = {a}
        BY DEF Resolved
      <4> QED
        BY <4>1
    <3>2. Resolved(Ok, {T}).outcome = Ok
      BY DEF Resolved
    <3> HIDE DEF T, q
    <3>3. CASE ReadAs(call.index, q) # {}
      <4>1. PICK p \in ReadAs(call.index, q) : Resolve(call.index, q) = Resolved(Ok, {p})
        BY <2>1, <3>3, Resolution
      <4> QED
        BY <2>2, <3>1, <4>1
    <3>4. CASE ReadAs(call.index, q) = {}
      <4>1. PICK p \in Places(call.index) :
              Resolve(call.index, q) = Resolved(Ok, {p}) /\ NamedAs(call.index, q) = {p}
        BY <2>1, <2>2, <3>2, <3>4, Resolution
      <4> QED
        BY <2>2, <3>1, <3>4, <4>1
    <3> QED
      BY <3>3, <3>4
  <2>6. ASSUME others <= 1
        PROVE  \E d \in seen : Resolve(IndexOf(d), q) = Resolved(Ok, {ActedAt})
    <3>1. PICK d \in seen : d.rooms = x.rooms /\ d.containers = y.containers
      BY <2>1, <2>6, OneMoment
    <3>2. IndexOf(d) = call.index
      BY <2>3, <3>1 DEF IndexOf
    <3> QED
      BY <2>2, <3>2
  <2>7. ASSUME StandsStill(T)
        PROVE  q \in GoesBy(IndexOf(db), T)
    <3>1. Carries(T)
      BY <1>1, <2>2, <2>4, <2>7, StillIsCarried
    <3>2. /\ Path(call.index, T) = Path(IndexOf(db), T)
          /\ NameOf(call.index, T) = NameOf(IndexOf(db), T)
      BY <1>1, <3>1, CarriedReads
    <3> HIDE DEF T, q
    <3>3. \/ PathKey(Path(call.index, T)) = q
          \/ Segments(NameOf(call.index, T)) = q
      BY <2>5 DEF ReadAs, NamedAs
    <3> QED
      BY <3>2, <3>3 DEF GoesBy
  <2>8. ASSUME NEW p \in Places(IndexOf(db)) \ {T}, StandsStill(p), q \in GoesBy(IndexOf(db), p)
        PROVE  q = PathKey(Path(call.index, T))
    <3>1. p \in Location
      <4>1. Listed(IndexOf(db))
        BY <1>1, HouseholdListings DEF IInv, RecordedHousehold, Listed, IndexOf, Index
      <4> QED
        BY <2>8, <4>1, PlacesAre
    <3>2. Carries(p)
      BY <1>1, <2>4, <2>8, <3>1, StillIsCarried
    <3>3. /\ p \in Places(call.index)
          /\ Path(call.index, p) = Path(IndexOf(db), p)
          /\ NameOf(call.index, p) = NameOf(IndexOf(db), p)
      BY <1>1, <3>2, CarriedReads
    <3> HIDE DEF T, q
    <3>4. p \in ReadAs(call.index, q) \/ p \in NamedAs(call.index, q)
      BY <2>8, <3>3 DEF GoesBy, ReadAs, NamedAs
    <3>5. T \in ReadAs(call.index, q)
      BY <2>5, <2>8, <3>4
    <3> QED
      BY <3>5 DEF ReadAs
  <2> HIDE DEF T
  <2> QED
    BY <2>2, <2>6, <2>7, <2>8
<1>2. IInv /\ [Next]_vars =>
        [At("write") /\ db' # db /\ others' = others =>
           /\ others <= 1 =>
                \E d \in seen : Resolve(IndexOf(d), call.query) = Resolved(Ok, {ActedAt})
           /\ StandsStill(ActedAt) => call.query \in GoesBy(IndexOf(db), ActedAt)
           /\ \A p \in Places(IndexOf(db)) \ {ActedAt} :
                StandsStill(p) /\ call.query \in GoesBy(IndexOf(db), p) =>
                  call.query = PathKey(Path(call.index, ActedAt))]_vars
  BY <1>1
<1> QED
  BY <1>2, InductiveInvariant, PTL DEF Spec, ActsWhereNamed

-----------------------------------------------------------------------------
(* Lookups.                                                                *)

\* What the call carries reads as its line: each place as what holds it,
\* followed by its own name.
LEMMA CarriedLine ==
  ASSUME IInv, NEW at, Carries(at)
  PROVE  LineReadsTrue(at)
<1> DEFINE i == call.index
<1>1. /\ ContainerListing(i.containers) /\ ContainerListing(db.containers)
      /\ \A x, y : Index(x, y).rooms = x /\ Index(x, y).containers = y
  BY HouseholdListings DEF IInv, RecordedHousehold, Listed, Index
<1>2. \A x, y : /\ RoomLocation(x).kind = "room" /\ RoomLocation(x).id = x
                /\ ContainerLocation(y).kind = "container" /\ ContainerLocation(y).id = y
  BY DEF RoomLocation, ContainerLocation
<1>3. ASSUME NEW r \in DOMAIN db.rooms, r \in DOMAIN i.rooms, i.rooms[r].name = db.rooms[r].name
      PROVE  ReadsTrue(RoomLocation(r)) /\ NamesTo(i, RoomLocation(r)) = <<db.rooms[r].name>>
  <2>1. NamesTo(i, RoomLocation(r)) = <<db.rooms[r].name>>
    <3> HIDE DEF i
    <3> QED
      BY <1>2, <1>3 DEF NamesTo, Known
  <2> QED
    BY <1>2, <2>1 DEF ReadsTrue
<1>4. CASE at.kind = "room"
  <2>1. DOMAIN Line(db, at).rooms = DOMAIN db.rooms \cap {at.id}
    <3>1. Line(db, at).rooms = Rows(db.rooms, {at.id})
      BY <1>1, <1>4 DEF Line
    <3> QED
      BY <3>1 DEF Rows, Restrict
  <2>2. DOMAIN Line(db, at).containers = {}
    <3>1. Line(db, at).containers = Rows(db.containers, {})
      BY <1>1, <1>4 DEF Line
    <3> QED
      BY <3>1 DEF Rows, Restrict
  <2>3. ReadsTrue(RoomLocation(at.id))
    BY <1>3, <1>4 DEF Carries
  <2> QED
    BY <2>1, <2>2, <2>3 DEF LineReadsTrue
<1>5. CASE at.kind # "room"
  <2> DEFINE c == at.id
             W == Walk(db.containers, c)
             r == db.containers[c].room
  <2>1. /\ c \in DOMAIN db.containers /\ c \in DOMAIN i.containers
        /\ r \in DOMAIN db.rooms /\ r \in DOMAIN i.rooms /\ i.rooms[r].name = db.rooms[r].name
    BY <1>5 DEF Carries
  <2>2. \A x \in W : /\ x \in DOMAIN db.containers /\ x \in DOMAIN i.containers
                     /\ i.containers[x] = db.containers[x] /\ db.containers[x].room = r
    BY <1>5, CarriedRow
  <2>3. ASSUME NEW x \in W PROVE ReadsTrue(ContainerLocation(x))
    <3> DEFINE p == db.containers[x].parent
               n == db.containers[x].name
    <3>1. NamesTo(i, ContainerLocation(x)) = PathOf(i, x)
      <4> HIDE DEF i
      <4> QED
        BY <1>2, <2>2, <2>3 DEF NamesTo, Known
    <3>2. CASE p = Nil
      <4>1. p \notin DOMAIN i.containers
        BY <1>1, <3>2, NilAssumption DEF ContainerListing, IsTable
      <4>2. PathOf(i, x) = Append(<<i.rooms[r].name>>, n)
        <5> HIDE DEF i, W, r
        <5>1. PathOf(i, x) = Append(<<i.rooms[i.containers[x].room].name>>, i.containers[x].name)
          <6>1. /\ x \in DOMAIN i.containers /\ i.containers[x].room \in DOMAIN i.rooms
                /\ i.containers[x].parent \notin DOMAIN i.containers
                /\ ContainerListing(i.containers)
            BY <1>1, <2>1, <2>2, <2>3, <4>1
          <6> QED
            BY <6>1, PathAppends
        <5> QED
          BY <2>2, <2>3, <5>1
      <4>3. NamesTo(i, RoomLocation(r)) = <<i.rooms[r].name>>
        BY <1>3, <2>1
      <4>4. Origin(db.containers, x) = RoomLocation(r)
        BY <2>2, <2>3, <3>2 DEF Origin
      <4>5. NamesTo(i, ContainerLocation(x)) = Append(NamesTo(i, Origin(db.containers, x)), n)
        BY <3>1, <4>2, <4>3, <4>4
      <4> QED
        BY <1>2, <4>5 DEF ReadsTrue
    <3>3. CASE p # Nil
      <4>1. p \in W
        BY <1>1, <2>1, <2>2, <2>3, <3>3, WalkFacts DEF ContainerListing
      <4>2. p \in DOMAIN i.containers
        BY <2>2, <4>1
      <4>3. PathOf(i, x) = Append(PathOf(i, p), n)
        <5> HIDE DEF i, W, r
        <5>1. PathOf(i, x) = Append(PathOf(i, i.containers[x].parent), i.containers[x].name)
          <6>1. /\ x \in DOMAIN i.containers /\ i.containers[x].room \in DOMAIN i.rooms
                /\ i.containers[x].parent \in DOMAIN i.containers /\ ContainerListing(i.containers)
            BY <1>1, <2>1, <2>2, <2>3, <4>2
          <6> QED
            BY <6>1, PathAppends
        <5> QED
          BY <2>2, <2>3, <5>1
      <4>4. NamesTo(i, ContainerLocation(p)) = PathOf(i, p)
        <5> HIDE DEF i
        <5> QED
          BY <1>2, <4>2 DEF NamesTo, Known
      <4>5. Origin(db.containers, x) = ContainerLocation(p)
        BY <3>3 DEF Origin
      <4>6. NamesTo(i, ContainerLocation(x)) = Append(NamesTo(i, Origin(db.containers, x)), n)
        BY <3>1, <4>3, <4>4, <4>5
      <4> QED
        BY <1>2, <4>6 DEF ReadsTrue
    <3> QED
      BY <3>2, <3>3
  <2>4. DOMAIN Line(db, at).containers \subseteq W
    <3>1. Line(db, at).containers = Rows(db.containers, W)
      BY <1>1, <1>5 DEF Line
    <3> HIDE DEF W
    <3> QED
      BY <3>1 DEF Rows, Restrict
  <2>5. DOMAIN Line(db, at).rooms \subseteq {db.containers[x].room : x \in W}
    <3> DEFINE R == {db.containers[x].room : x \in W}
    <3>1. Line(db, at).rooms = Rows(db.rooms, R)
      BY <1>1, <1>5 DEF Line
    <3> HIDE DEF R
    <3>2. DOMAIN Line(db, at).rooms \subseteq R
      BY <3>1 DEF Rows, Restrict
    <3> QED
      BY <3>2 DEF R
  <2>6. \A s \in DOMAIN Line(db, at).rooms : s = r
    BY <2>2, <2>5
  <2>7. ReadsTrue(RoomLocation(r))
    BY <1>3, <2>1
  <2> QED
    BY <2>3, <2>4, <2>6, <2>7 DEF LineReadsTrue
<1> QED
  BY <1>4, <1>5

\* A place holds what is carried in it, in the index as in the tree.
LEMMA CarriedAncestors ==
  ASSUME IInv, NEW at, Carries(at), NEW T \in Location, LocationExists(db, T)
  PROVE  T \in Ancestors(call.index, at) <=>
           IF T.kind = "room" THEN RoomOf(db, at) = T.id
           ELSE at \in {ContainerLocation(x) : x \in Subtree(db.containers, T.id)}
<1> DEFINE i == call.index
<1>1. \A x, y : /\ RoomLocation(x).kind = "room" /\ RoomLocation(x).id = x
                /\ ContainerLocation(y).kind = "container" /\ ContainerLocation(y).id = y
  BY DEF RoomLocation, ContainerLocation
<1>2. /\ T.kind = "room" => T = RoomLocation(T.id)
      /\ T.kind # "room" => T = ContainerLocation(T.id) /\ T.id \in DOMAIN db.containers
  BY DEF Location, RoomLocation, ContainerLocation, LocationExists
<1>3. CASE at.kind = "room"
  <2>1. at = RoomLocation(at.id) /\ at.id \in DOMAIN i.rooms
    BY <1>3 DEF Carries
  <2>2. Ancestors(i, at) = {at}
    <3> HIDE DEF i
    <3> QED
      BY <1>3, <2>1 DEF Ancestors, Known
  <2>3. RoomOf(db, at) = at.id
    BY <1>3 DEF RoomOf
  <2>4. CASE T.kind = "room"
    BY <1>2, <2>1, <2>2, <2>3, <2>4
  <2>5. CASE T.kind # "room"
    BY <1>1, <1>3, <2>2, <2>5
  <2> QED
    BY <2>4, <2>5
<1>4. CASE at.kind # "room"
  <2> DEFINE c == at.id
             W == Walk(db.containers, c)
             r == db.containers[c].room
             top == CHOOSE x \in W : i.containers[x].parent \notin W
  <2>1. /\ at = ContainerLocation(c) /\ c \in DOMAIN i.containers
        /\ c \in DOMAIN db.containers /\ r \in DOMAIN i.rooms
    BY <1>4 DEF Carries
  <2>2. \A x \in W : /\ i.containers[x] = db.containers[x] /\ db.containers[x].room = r
                     /\ x \in DOMAIN i.containers
    BY <1>4, CarriedRow
  <2>3. c \in W
    BY <2>1, WalkFacts
  <2>4. Walk(i.containers, c) = W
    BY <1>4, <2>3, CarriedRow
  <2>5. \E x \in W : i.containers[x].parent \notin W
    <3>1. W \in SUBSET DOMAIN i.containers /\ W # {} /\ Acyclic(i.containers)
      BY <2>2, <2>3 DEF IInv, Listed, ContainerListing
    <3> QED
      BY <3>1 DEF Acyclic
  <2>6. top \in W
    <3> HIDE DEF W, i
    <3> QED
      BY <2>5
  <2>7. i.containers[top].room = r
    <3> HIDE DEF top, W, i, r
    <3> QED
      BY <2>2, <2>6
  <2>8. Ancestors(i, at) = {ContainerLocation(x) : x \in W} \cup {RoomLocation(r)}
    <3>1. Ancestors(i, at) = {ContainerLocation(x) : x \in W}
                             \cup {RoomLocation(s) :
                                     s \in {i.containers[top].room} \cap DOMAIN i.rooms}
      <4>1. at.kind = "container"
        BY <1>1, <2>1
      <4> HIDE DEF i, W
      <4> QED
        BY <2>1, <2>4, <4>1 DEF Ancestors, Known, top
    <3>2. {i.containers[top].room} \cap DOMAIN i.rooms = {r}
      <4> HIDE DEF top, i, r
      <4> QED
        BY <2>1, <2>7
    <3> HIDE DEF top, W, i, r
    <3> QED
      BY <3>1, <3>2
  <2>9. RoomOf(db, at) = r
    BY <1>4 DEF RoomOf
  <2>10. CASE T.kind = "room"
    <3>1. T \in Ancestors(i, at) <=> T.id = r
      <4> HIDE DEF W, i, r
      <4> QED
        BY <1>1, <1>2, <2>8, <2>10
    <3> QED
      BY <2>9, <2>10, <3>1
  <2>11. CASE T.kind # "room"
    <3>1. T \in Ancestors(i, at) <=> T.id \in W
      <4> HIDE DEF W, i, r
      <4> QED
        BY <1>1, <1>2, <2>8, <2>11
    <3>2. at \in {ContainerLocation(x) : x \in Subtree(db.containers, T.id)}
            <=> c \in Subtree(db.containers, T.id)
      <4> DEFINE S == Subtree(db.containers, T.id)
      <4> HIDE DEF S
      <4> QED
        BY <1>1, <2>1
    <3>3. T.id \in W <=> c \in Subtree(db.containers, T.id)
      BY <1>2, <2>1, <2>11, WalkSubtree
    <3> QED
      BY <2>11, <3>1, <3>2, <3>3
  <2> QED
    BY <2>10, <2>11
<1> QED
  BY <1>3, <1>4

\* A container that is carried is a child of what it points at, and of nothing
\* else that is known.
LEMMA CarriedChild ==
  ASSUME IInv, NEW c, Carries(ContainerLocation(c)), NEW T \in Places(call.index)
  PROVE  c \in Children(call.index, T) <=> Origin(db.containers, c) = T
<1> DEFINE i == call.index
           row == db.containers[c]
<1>1. \A x, y : /\ RoomLocation(x).kind = "room" /\ RoomLocation(x).id = x
                /\ ContainerLocation(y).kind = "container" /\ ContainerLocation(y).id = y
  BY DEF RoomLocation, ContainerLocation
<1>2. Listed(i) /\ ContainerListing(db.containers)
  BY HouseholdListings DEF IInv, RecordedHousehold
<1>3. c \in DOMAIN i.containers /\ c \in DOMAIN db.containers
  BY <1>1 DEF Carries
<1>4. \A x \in Walk(db.containers, c) :
        x \in DOMAIN i.containers /\ i.containers[x] = db.containers[x]
  BY <1>1, CarriedRow
<1>5. i.containers[c] = row
  BY <1>3, <1>4, WalkFacts
<1>6. Known(i, T) /\ \/ T.kind = "room" /\ T = RoomLocation(T.id)
                     \/ /\ T.kind = "container" /\ T = ContainerLocation(T.id)
                        /\ T.id \in DOMAIN i.containers
  BY <1>2, PlacesAre
<1>7. Nil \notin DOMAIN i.containers
  BY <1>2, NilAssumption DEF Listed, ContainerListing, IsTable
<1>8. row.parent # Nil => row.parent \in DOMAIN i.containers
  <2>1. row.parent \in DOMAIN db.containers \cup {Nil}
    BY <1>2, <1>3 DEF ContainerListing
  <2> QED
    BY <1>3, <1>4, <2>1, WalkFacts
<1> HIDE DEF i, row
<1>9. c \in Children(i, T) <=>
        IF T.kind = "room" THEN row.room = T.id /\ row.parent \notin DOMAIN i.containers
                           ELSE row.parent = T.id
  BY <1>3, <1>5, <1>6 DEF Children, IsRoot
<1>10. Origin(db.containers, c) =
         IF row.parent = Nil THEN RoomLocation(row.room) ELSE ContainerLocation(row.parent)
  BY DEF Origin, row
<1>11. c \in Children(i, T) <=> Origin(db.containers, c) = T
  BY <1>1, <1>6, <1>7, <1>8, <1>9, <1>10
<1> QED
  BY <1>11 DEF i

\* What the call found of an item that stands still: the item, and its labels.
LEMMA FoundItem ==
  ASSUME IInv, Answered, call.kind # "get_container", NEW i \in DOMAIN db.items, ItemStandsStill(i)
  PROVE  /\ i \in DOMAIN call.items <=> Selects(i, db.items[i])
         /\ i \in DOMAIN call.items =>
              /\ call.items[i] = db.items[i]
              /\ call.tags[i] = db.items[i].detail /\ call.aliases[i] = db.items[i].detail
<1>1. Listings /\ Ran("tags") /\ Ran("aliases") /\ (Ran("items") \/ Ran("item"))
  BY AnsweredHas
<1>2. ASSUME NEW d \in seen
      PROVE  /\ i \in DOMAIN d.items /\ d.items[i] = db.items[i]
             /\ i \in DOMAIN Selected(d) <=> Selects(i, db.items[i])
             /\ i \in DOMAIN Selected(d) => Selected(d)[i] = db.items[i]
  <2>1. i \in DOMAIN d.items /\ d.items[i] = db.items[i]
    BY DEF ItemStandsStill
  <2> DEFINE S == {j \in DOMAIN d.items : Selects(j, d.items[j])}
  <2>2. i \in S <=> Selects(i, db.items[i])
    BY <2>1
  <2> HIDE DEF S
  <2>3. /\ i \in DOMAIN Rows(d.items, S) <=> i \in S
        /\ i \in S => Rows(d.items, S)[i] = d.items[i]
    BY <2>1 DEF Rows, Restrict
  <2> QED
    BY <2>1, <2>2, <2>3 DEF Selected, S
<1>3. PICK d \in seen : call.items = Selected(d)
  BY <1>1 DEF Listings
<1>4. /\ i \in DOMAIN call.items <=> Selects(i, db.items[i])
      /\ i \in DOMAIN call.items => call.items[i] = db.items[i]
  BY <1>2, <1>3
<1>5. ASSUME i \in DOMAIN call.items
      PROVE  call.tags[i] = db.items[i].detail /\ call.aliases[i] = db.items[i].detail
  <2>1. Found
    BY <1>5 DEF Found
  <2>2. PICK e \in seen : call.tags = LabelsIn(e)
    BY <1>1, <2>1 DEF Listings
  <2>3. PICK f \in seen : call.aliases = LabelsIn(f)
    BY <1>1, <2>1 DEF Listings
  <2>4. ASSUME NEW d2 \in seen PROVE LabelsIn(d2)[i] = db.items[i].detail
    <3>1. i \in DOMAIN Selected(d2) /\ d2.items[i] = db.items[i]
      BY <1>2, <1>4, <1>5
    <3> QED
      BY <1>5, <3>1 DEF LabelsIn
  <2> QED
    BY <2>2, <2>3, <2>4
<1> QED
  BY <1>4, <1>5

\* What stands still while a lookup lists it is carried.
LEMMA AnswerCarries ==
  ASSUME IInv, Answered, NEW at \in Location, StandsStill(at),
         \/ call.kind # "get_container" /\ Found
         \/ call.kind = "get_container" /\ at = ContainerLocation(call.subject)
  PROVE  Carries(at)
<1>1. CASE call.kind # "get_container" /\ Found
  <2>1. PICK x \in seen, y \in seen :
          call.index.rooms = x.rooms /\ call.index.containers = y.containers
    BY <1>1, AnsweredHas DEF Listings
  <2> QED
    BY <2>1, StillIsCarried
<1>2. CASE call.kind = "get_container" /\ at = ContainerLocation(call.subject)
  <2> DEFINE c == call.subject
  <2>1. at.kind # "room" /\ at.id = c
    BY <1>2 DEF ContainerLocation
  <2>2. PICK x \in seen : /\ c \in DOMAIN x.containers
                          /\ call.index.containers = Chain(x.containers, c)
                          /\ call.room = x.containers[c].room
    BY <1>2, AnsweredHas DEF Chained
  <2>3. PICK y \in seen : /\ call.room \in DOMAIN y.rooms
                          /\ call.index.rooms = Rows(y.rooms, {call.room})
    BY <1>2, AnsweredHas DEF Chained
  <2>4. Household(db) /\ Household(x) /\ Household(y)
    BY DEF IInv, RecordedHousehold
  <2>5. LocationExists(db, at) /\ Line(db, at) = Line(x, at) /\ Line(db, at) = Line(y, at)
    BY DEF StandsStill
  <2>6. /\ c \in DOMAIN db.containers
        /\ Chain(x.containers, c) = Chain(db.containers, c)
    <3>1. /\ at.id \in DOMAIN db.containers
          /\ Chain(x.containers, at.id) = Chain(db.containers, at.id)
      BY <2>1, <2>4, <2>5, LineFixes
    <3> QED
      BY <2>1, <3>1
  <2>7. LET r == db.containers[c].room IN
          r \in DOMAIN db.rooms /\ r \in DOMAIN y.rooms /\ y.rooms[r] = db.rooms[r]
    BY <2>1, <2>4, <2>5, LineFixes
  <2>8. x.containers[c] = db.containers[c]
    BY <2>2, <2>6, ChainWalk, WalkFacts
  <2>9. /\ c \in DOMAIN call.index.containers
        /\ Chain(call.index.containers, c) = Chain(db.containers, c)
    BY <2>2, <2>6, ChainOfChain, ChainWalk, WalkFacts
  <2>10. LET r == db.containers[c].room IN
           r \in DOMAIN call.index.rooms /\ call.index.rooms[r] = db.rooms[r]
    <3> DEFINE r == db.containers[c].room
               R == {call.room}
    <3>1. r \in DOMAIN y.rooms /\ y.rooms[r] = db.rooms[r] /\ r \in R
          /\ call.index.rooms = Rows(y.rooms, R)
      BY <2>2, <2>3, <2>7, <2>8
    <3> HIDE DEF r, R
    <3>2. r \in DOMAIN call.index.rooms /\ call.index.rooms[r] = db.rooms[r]
      BY <3>1 DEF Rows, Restrict
    <3> QED
      BY <3>2 DEF r
  <2> QED
    BY <1>2, <2>1, <2>6, <2>7, <2>9, <2>10 DEF Carries
<1> QED
  BY <1>1, <1>2

\* Whatever others write meanwhile, a lookup answers truly about what stands
\* still.
THEOREM StillIsTrue == Spec => []WhatStandsStillIsTrue
<1>1. ASSUME IInv, Answered, NEW i \in DOMAIN db.items, ItemStandsStill(i)
      PROVE  /\ call.kind # "get_container" => (i \in DOMAIN call.items <=> Selects(i, db.items[i]))
             /\ i \in DOMAIN call.items =>
                  /\ call.items[i] = db.items[i]
                  /\ call.tags[i] = db.items[i].detail /\ call.aliases[i] = db.items[i].detail
                  /\ LineReadsTrue(db.items[i].location)
             /\ call.kind = "count_items" /\ StandsStill(TargetPlace) =>
                  (i \in Counted(call.index, call.items) <=> Holds(db, TargetPlace, i))
  <2> DEFINE at == db.items[i].location
  <2>1. at \in Location /\ StandsStill(at)
    BY <1>1 DEF IInv, RecordedHousehold, Household, IsDB, IsTable, ItemRow, ItemStandsStill
  <2>2. ASSUME i \in DOMAIN call.items PROVE call.kind # "get_container" /\ Found
    <3>1. call.kind = "get_container" => call.items = NoRows
      BY <1>1, AnsweredHas DEF Listings, Order
    <3> QED
      BY <2>2, <3>1 DEF NoRows, Found
  <2>3. i \in DOMAIN call.items => Carries(at)
    BY <1>1, <2>1, <2>2, AnswerCarries
  <2>4. i \in DOMAIN call.items => LineReadsTrue(at)
    BY <1>1, <2>3, CarriedLine
  <2>5. ASSUME call.kind = "count_items", StandsStill(TargetPlace)
        PROVE  i \in Counted(call.index, call.items) <=> Holds(db, TargetPlace, i)
    <3>1. i \in DOMAIN call.items /\ call.items[i] = db.items[i]
      BY <1>1, <2>5, FoundItem DEF Selects
    <3>2. TargetPlace \in Location /\ LocationExists(db, TargetPlace)
      BY <1>1, <2>5, TargetIs DEF Answered, IInv, StandsStill
    <3> DEFINE T == TargetPlace
    <3>3. T \in Ancestors(call.index, at) <=> Holds(db, T, i)
      <4> HIDE DEF T
      <4> QED
        BY <1>1, <2>3, <3>1, <3>2, CarriedAncestors DEF Holds, T
    <3> QED
      BY <3>1, <3>3 DEF Counted
  <2> QED
    BY <1>1, <2>2, <2>4, <2>5, FoundItem
<1>2. ASSUME IInv, Answered, NEW c \in DOMAIN db.containers, StandsStill(ContainerLocation(c))
      PROVE  /\ call.kind = "list_location" =>
                  (c \in Children(call.index, TargetPlace)
                     <=> Origin(db.containers, c) = TargetPlace)
             /\ call.kind = "get_container" /\ c = call.subject =>
                  LineReadsTrue(ContainerLocation(c))
  <2>1. ContainerLocation(c) \in Location
    <3>1. c \in ContainerID
      BY <1>2 DEF IInv, RecordedHousehold, Household, IsDB, IsTable
    <3> QED
      BY <3>1 DEF Location
  <2>2. ASSUME call.kind = "list_location"
        PROVE  c \in Children(call.index, TargetPlace) <=> Origin(db.containers, c) = TargetPlace
    <3>1. Carries(ContainerLocation(c))
      BY <1>2, <2>1, <2>2, AnswerCarries DEF Found
    <3>2. TargetPlace \in Places(call.index)
      BY <1>2, <2>2, AnsweredHas, TargetIs DEF Placed, IInv
    <3> QED
      BY <1>2, <3>1, <3>2, CarriedChild
  <2>3. ASSUME call.kind = "get_container", c = call.subject
        PROVE  LineReadsTrue(ContainerLocation(c))
    <3>1. Carries(ContainerLocation(c))
      BY <1>2, <2>1, <2>3, AnswerCarries
    <3> QED
      BY <1>2, <3>1, CarriedLine
  <2> QED
    BY <2>2, <2>3
<1>3. IInv => WhatStandsStillIsTrue
  BY <1>1, <1>2 DEF WhatStandsStillIsTrue
<1> QED
  BY <1>3, InductiveInvariant, PTL
=============================================================================
