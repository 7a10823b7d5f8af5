----------------------------- MODULE Locations -----------------------------
(***************************************************************************)
(* The location index (internal/inventory/locations.go): which place a     *)
(* name or a path stands for, how a place reads as a path, what holds it   *)
(* and what it holds. An index is built from a listing of rooms and one of *)
(* containers, which need not be of the same moment.                       *)
(*                                                                         *)
(* A path is one text: the names joined by " > ", which is to say what is  *)
(* written between one ">" and the next. Nothing forbids the ">" in a name, *)
(* so places apart may be written alike. A caller's words are looked up     *)
(* folded, segment by segment, and names that differ in an accent fold      *)
(* alike.                                                                  *)
(***************************************************************************)
EXTENDS Store, Sequences, FiniteSets, SequencesExt

CONSTANTS
  Spelling,  \* the segments of each name; names are numbers, for their order
  Folded     \* a segment without its case, accents and blanks

ASSUME SpellingAssumption ==
  /\ Name \subseteq Int
  /\ \A n \in Name : Spelling[n] \in Seq(DOMAIN Folded) /\ Spelling[n] # <<>>

Index(rooms, containers) == [rooms |-> rooms, containers |-> containers]
IndexOf(db) == Index(db.rooms, db.containers)

-----------------------------------------------------------------------------
(* Paths. *)

Known(index, at) ==
  \/ at.kind = "room" /\ at.id \in DOMAIN index.rooms
  \/ at.kind = "container" /\ at.id \in DOMAIN index.containers

\* Mutant: only the containers listed before it are known by then.
NestingListed(index, c) ==
  SetToSortSeq({x \in Walk(index.containers, c) :
                  index.containers[x].name <= index.containers[c].name},
               LAMBDA x, y : Cardinality(Walk(index.containers, x))
                               < Cardinality(Walk(index.containers, y)))

\* How deep a container sits: the containers from the outermost one down to it.
Depth(index, c) == Cardinality(Walk(index.containers, c))
Nesting(index, c) ==
  [k \in 1 .. Depth(index, c) |-> CHOOSE x \in Walk(index.containers, c) : Depth(index, x) = k]

\* The names from the room down; empty when the room is not in the index.
PathOf(index, c) ==
  LET room == index.containers[c].room  down == Nesting(index, c) IN
  IF room \notin DOMAIN index.rooms THEN <<>>
  ELSE <<index.rooms[room].name>> \o
       [k \in DOMAIN down |-> index.containers[down[k]].name]

NamesTo(index, at) ==
  IF ~Known(index, at) THEN <<>>
  ELSE IF at.kind = "room" THEN <<index.rooms[at.id].name>> ELSE PathOf(index, at.id)

\* Names joined, and what a caller is shown of a place.
Rendered(names) == FlattenSeq([k \in DOMAIN names |-> Spelling[names[k]]])
Path(index, at) == Rendered(NamesTo(index, at))

PathKey(path) == [k \in DOMAIN path |-> Folded[path[k]]]
Segments(name) == PathKey(Spelling[name])

\* Only what has a path is indexed.
Places(index) ==
  {RoomLocation(r) : r \in DOMAIN index.rooms}
  \cup {ContainerLocation(c) : c \in {x \in DOMAIN index.containers :
                                        index.containers[x].room \in DOMAIN index.rooms}}

NameOf(index, at) ==
  IF at.kind = "room" THEN index.rooms[at.id].name ELSE index.containers[at.id].name

\* p is indexed before q: rooms in the order of their names, then containers
\* in the order of their rooms and names.
Earlier(index, p, q) ==
  \/ p.kind = "room" /\ q.kind = "container"
  \/ /\ p.kind = q.kind
     /\ \/ p.kind = "container" /\ index.containers[p.id].room < index.containers[q.id].room
        \/ /\ p.kind = "room" \/ index.containers[p.id].room = index.containers[q.id].room
           /\ NameOf(index, p) < NameOf(index, q)

-----------------------------------------------------------------------------
(* Resolution: one place, the several a caller must choose from, or none.  *)

Ambiguous == "ambiguous"
Resolved(outcome, places) == [outcome |-> outcome, places |-> places]

\* Mutant: a place is looked up by its own name alone.
ResolveNames(index, query) ==
  LET named == {p \in Places(index) : Segments(NameOf(index, p)) = query}
  IN CASE named = {} -> Resolved(NotFound, {})
       [] OTHER -> Resolved(IF Cardinality(named) = 1 THEN Ok ELSE Ambiguous, named)

\* Mutant: a path that does not match falls back to its last segment.
ResolveLast(index, query) ==
  LET reads == {p \in Places(index) : PathKey(Path(index, p)) = query}
      named == {p \in Places(index) : Segments(NameOf(index, p)) = <<Last(query)>>}
  IN CASE reads # {} ->
            Resolved(Ok, {CHOOSE p \in reads : \A q \in reads \ {p} : Earlier(index, q, p)})
       [] reads = {} /\ named = {} -> Resolved(NotFound, {})
       [] OTHER -> Resolved(IF Cardinality(named) = 1 THEN Ok ELSE Ambiguous, named)

\* A path stands for the place entered last under it. A name on its own will
\* do when one place carries it.
Resolve(index, query) ==
  LET reads == {p \in Places(index) : PathKey(Path(index, p)) = query}
      named == {p \in Places(index) : Segments(NameOf(index, p)) = query}
  IN CASE reads # {} ->
            Resolved(Ok, {CHOOSE p \in reads : \A q \in reads \ {p} : Earlier(index, q, p)})
       [] reads = {} /\ (Len(query) > 1 \/ named = {}) -> Resolved(NotFound, {})
       [] OTHER -> Resolved(IF Cardinality(named) = 1 THEN Ok ELSE Ambiguous, named)

-----------------------------------------------------------------------------
(* What holds a place, itself included, up to its room; and what is directly *)
(* inside one.                                                              *)

Ancestors(index, at) ==
  IF ~Known(index, at) THEN {}
  ELSE IF at.kind = "room" THEN {at}
  ELSE LET above == Walk(index.containers, at.id)
           top   == CHOOSE x \in above :
                      index.containers[x].parent \notin above
       IN {ContainerLocation(x) : x \in above}
          \cup {RoomLocation(r) : r \in {index.containers[top].room} \cap DOMAIN index.rooms}

IsRoot(index, c) == index.containers[c].parent \notin DOMAIN index.containers

Children(index, at) ==
  IF ~Known(index, at) THEN {}
  ELSE {c \in DOMAIN index.containers :
          IF at.kind = "room" THEN index.containers[c].room = at.id /\ IsRoot(index, c)
                              ELSE index.containers[c].parent = at.id}
=============================================================================
