--------------------------- MODULE HostTreeProofs ---------------------------
(***************************************************************************)
(* Theorems about HostTree: the search tree of a worker's connections and   *)
(* the pointers into it, for any hosts, any limit of the tree and any order *)
(* in which connections are opened and closed.                              *)
(***************************************************************************)
EXTENDS HostTree, SequenceTheorems, FiniteSetTheorems, WellFoundedInduction, TLAPS

----------------------------------------------------------------------------
\* Least and last elements.

LEMMA LeastNumber ==
  ASSUME NEW T \in SUBSET Nat, T # {}
  PROVE  \E x \in T : \A y \in T : x <= y
<1>1. PICK x \in T : \A y \in T : ~ (<< y, x >> \in OpToRel(<, Nat))
  BY NatLessThanWellFounded, WFMin
<1>2. \A y \in T : ~ (y < x) BY <1>1 DEF OpToRel
<1>. QED BY <1>2

\* A finite set that is totally ordered has a last element.
LEMMA LastOf ==
  ASSUME NEW S, NEW R, IsFiniteSet(S), S # {},
         \A x, y \in S : x = y \/ << x, y >> \in R \/ << y, x >> \in R,
         \A x, y, z \in S : << x, y >> \in R /\ << y, z >> \in R => << x, z >> \in R
  PROVE  \E x \in S : \A y \in S \ {x} : << y, x >> \in R
<1>. DEFINE Last(V) == \E x \in V : \A y \in V \ {x} : << y, x >> \in R
            Bad == {n \in Nat : \E V \in SUBSET S : /\ IsFiniteSet(V) /\ V # {}
                                                   /\ Cardinality(V) = n /\ ~ Last(V)}
<1>1. SUFFICES ASSUME ~ Last(S) PROVE FALSE OBVIOUS
<1>2. Cardinality(S) \in Bad
  <2>1. Cardinality(S) \in Nat BY FS_CardinalityType
  <2>2. /\ IsFiniteSet(S) /\ S # {}
        /\ Cardinality(S) = Cardinality(S) /\ ~ Last(S)
    BY <1>1
  <2>. HIDE DEF Last
  <2>. QED BY <2>1, <2>2
<1>3. PICK n \in Bad : \A m \in Bad : n <= m
  <2>1. Bad \in SUBSET Nat OBVIOUS
  <2>. HIDE DEF Bad
  <2>. QED BY <1>2, <2>1, LeastNumber
<1>4. PICK V \in SUBSET S : IsFiniteSet(V) /\ V # {} /\ Cardinality(V) = n /\ ~ Last(V)
  BY <1>3
<1>5. PICK x \in V : TRUE BY <1>4
<1>6. IsFiniteSet(V \ {x}) /\ Cardinality(V \ {x}) = n - 1 BY <1>4, <1>5, FS_RemoveElement
<1>7. V \ {x} # {}
  <2>1. CASE V = {x} BY <1>4, <2>1
  <2>. QED BY <1>4, <1>5, <2>1
<1>8. n - 1 \in Nat BY <1>6, FS_CardinalityType
<1>9. Last(V \ {x})
  <2>1. n - 1 \notin Bad BY <1>3, <1>8
  <2>. QED BY <1>4, <1>6, <1>7, <1>8, <2>1
<1>10. PICK z \in V \ {x} : \A y \in (V \ {x}) \ {z} : << y, z >> \in R BY <1>9
<1>11. CASE << x, z >> \in R
  <2>1. \A y \in V \ {z} : << y, z >> \in R BY <1>10, <1>11
  <2>. QED BY <1>4, <1>10, <2>1
<1>12. CASE << z, x >> \in R
  <2>1. \A y \in V \ {x} : << y, x >> \in R BY <1>4, <1>5, <1>10, <1>12
  <2>. QED BY <1>4, <1>5, <2>1
<1>. QED BY <1>4, <1>5, <1>10, <1>11, <1>12

----------------------------------------------------------------------------
\* Places.

LEMMA SamePlace ==
  ASSUME NEW p \in Place, NEW q \in Place, Len(p) = Len(q),
         \A k \in 1 .. Len(p) : p[k] = q[k]
  PROVE  p = q
BY SeqEqual DEF Place

LEMMA PlaceTypes ==
  ASSUME NEW p \in Place
  PROVE  /\ Len(p) \in Nat /\ \A k \in 1 .. Len(p) : p[k] \in {"left", "right"}
         /\ Below(p, p) /\ Below(<< >>, p) /\ << >> \in Place
BY DEF Place, Below

LEMMA Child ==
  ASSUME NEW p \in Place, NEW side \in {"left", "right"}
  PROVE  /\ Append(p, side) \in Place /\ Len(Append(p, side)) = Len(p) + 1
         /\ \A k \in 1 .. Len(p) : Append(p, side)[k] = p[k]
         /\ Append(p, side)[Len(p) + 1] = side
         /\ Below(p, Append(p, side))
BY DEF Place, Below

\* The first n turns of a place.
LEMMA Start ==
  ASSUME NEW p \in Place, NEW n \in 0 .. Len(p)
  PROVE  /\ SubSeq(p, 1, n) \in Place /\ Len(SubSeq(p, 1, n)) = n
         /\ \A k \in 1 .. n : SubSeq(p, 1, n)[k] = p[k]
         /\ Below(SubSeq(p, 1, n), p)
<1>1. /\ SubSeq(p, 1, n) \in Place /\ Len(SubSeq(p, 1, n)) = n
      /\ \A k \in 1 .. n : SubSeq(p, 1, n)[k] = p[k]
  BY SubSeqProperties DEF Place
<1>. QED BY <1>1 DEF Below, Place

LEMMA BelowTransitive ==
  ASSUME NEW p \in Place, NEW q \in Place, NEW r \in Place, Below(p, q), Below(q, r)
  PROVE  Below(p, r)
BY PlaceTypes DEF Below

\* Two places below one another are the same.
LEMMA BelowBoth ==
  ASSUME NEW p \in Place, NEW q \in Place, Below(p, q), Len(q) <= Len(p)
  PROVE  p = q
<1>1. Len(p) = Len(q) BY PlaceTypes DEF Below
<1>. QED BY <1>1, SamePlace DEF Below

\* Of two places one is below the other, or they part at a common place.
Part(p, q, r) ==
  /\ r \in Place /\ Len(r) < Len(p) /\ Len(r) < Len(q) /\ Below(r, p) /\ Below(r, q)
  /\ p[Len(r) + 1] # q[Len(r) + 1]

LEMMA Parting ==
  ASSUME NEW p \in Place, NEW q \in Place
  PROVE  Below(p, q) \/ Below(q, p) \/ \E r \in Place : Part(p, q, r)
<1>. DEFINE T == {k \in Nat : k < Len(p) /\ k < Len(q) /\ p[k + 1] # q[k + 1]}
<1>1. CASE T = {}
  <2>1. ASSUME NEW k \in 1 .. Len(p), k <= Len(q) PROVE q[k] = p[k]
    <3>1. k - 1 \notin T BY <1>1
    <3>. QED BY <2>1, <3>1, PlaceTypes
  <2>. QED BY <2>1, PlaceTypes DEF Below
<1>2. CASE T # {}
  <2>1. PICK n \in T : \A m \in T : n <= m BY <1>2, LeastNumber
  <2>. DEFINE r == SubSeq(p, 1, n)
  <2>2. n \in 0 .. Len(p) BY PlaceTypes
  <2>3. /\ r \in Place /\ Len(r) = n /\ Below(r, p)
        /\ \A k \in 1 .. n : r[k] = p[k]
    BY <2>2, Start
  <2>4. ASSUME NEW k \in 1 .. n PROVE q[k] = p[k]
    <3>1. k - 1 \notin T BY <2>1
    <3>. QED BY <2>1, <3>1, PlaceTypes
  <2>. HIDE DEF r
  <2>5. Below(r, q) BY <2>1, <2>3, <2>4, PlaceTypes DEF Below
  <2>6. Part(p, q, r) BY <2>1, <2>3, <2>5 DEF Part
  <2>. QED BY <2>3, <2>6
<1>. QED BY <1>1, <1>2

\* A finite set of places has a longest one.
NoLonger(p, q) == Len(p) <= Len(q)

LEMMA Longest ==
  ASSUME NEW S \in SUBSET Place, IsFiniteSet(S), S # {}
  PROVE  \E p \in S : \A q \in S : Len(q) <= Len(p)
<1>1. PICK x \in S : \A y \in S \ {x} : NoLonger(y, x)
  <2>. DEFINE R == {w \in Place \X Place : NoLonger(w[1], w[2])}
  <2>1. \A p, q \in Place : << p, q >> \in R <=> NoLonger(p, q) OBVIOUS
  <2>. HIDE DEF R
  <2>2. \A p, q \in S : p = q \/ << p, q >> \in R \/ << q, p >> \in R
    <3>1. \A p, q \in Place : NoLonger(p, q) \/ NoLonger(q, p) BY PlaceTypes DEF NoLonger
    <3>. QED BY <2>1, <3>1
  <2>3. \A p, q, r \in S : << p, q >> \in R /\ << q, r >> \in R => << p, r >> \in R
    BY <2>1, PlaceTypes DEF NoLonger
  <2>4. PICK x \in S : \A y \in S \ {x} : << y, x >> \in R BY <2>2, <2>3, LastOf
  <2>5. \A y \in S \ {x} : NoLonger(y, x) BY <2>1, <2>4
  <2>. QED BY <2>4, <2>5
<1>2. \A q \in S : Len(q) <= Len(x) BY <1>1, PlaceTypes DEF NoLonger
<1>. QED BY <1>1, <1>2

----------------------------------------------------------------------------
\* The order of tree_nodes_to_array.

LEMMA BeforeTotal ==
  ASSUME NEW p \in Place, NEW q \in Place
  PROVE  p = q \/ Before(p, q) \/ Before(q, p)
<1>1. ASSUME NEW x \in Place, NEW y \in Place, Below(x, y), x # y PROVE Before(x, y)
  <2>1. Len(x) < Len(y) BY <1>1, BelowBoth, PlaceTypes
  <2>2. Len(x) + 1 \in 1 .. Len(y) BY <2>1, PlaceTypes
  <2>. QED BY <1>1, <2>2, PlaceTypes DEF Before, Below
<1>2. ASSUME NEW x \in Place, NEW y \in Place, NEW r \in Place, Part(x, y, r),
             x[Len(r) + 1] = "left"
      PROVE  Before(x, y)
  <2>1. Len(r) + 1 \in 1 .. Len(y) /\ Len(r) + 1 <= Len(x) BY <1>2, PlaceTypes DEF Part
  <2>2. y[Len(r) + 1] = "right" BY <1>2, <2>1, PlaceTypes DEF Part
  <2>3. \A j \in 1 .. Len(r) : j <= Len(x) /\ x[j] = y[j] BY <1>2, PlaceTypes DEF Part, Below
  <2>4. (Len(r) + 1) - 1 = Len(r) BY PlaceTypes
  <2>. QED BY <1>2, <2>1, <2>2, <2>3, <2>4 DEF Before
<1>3. ASSUME NEW r \in Place, Part(p, q, r) PROVE Before(p, q) \/ Before(q, p)
  <2>1. Part(q, p, r) BY <1>3 DEF Part
  <2>2. p[Len(r) + 1] = "left" \/ q[Len(r) + 1] = "left"
    BY <1>3, PlaceTypes DEF Part
  <2>. QED BY <1>2, <1>3, <2>1, <2>2
<1>. QED BY <1>1, <1>3, Parting

LEMMA BeforeTransitive ==
  ASSUME NEW p \in Place, NEW q \in Place, NEW r \in Place, Before(p, q), Before(q, r)
  PROVE  Before(p, r)
<1>1. PICK a \in 1 .. Len(q) :
        /\ \A j \in 1 .. a - 1 : j <= Len(p) /\ p[j] = q[j]
        /\ a = Len(p) + 1 \/ (a <= Len(p) /\ p[a] = "left" /\ q[a] = "right")
  BY DEF Before
<1>2. PICK b \in 1 .. Len(r) :
        /\ \A j \in 1 .. b - 1 : j <= Len(q) /\ q[j] = r[j]
        /\ b = Len(q) + 1 \/ (b <= Len(q) /\ q[b] = "left" /\ r[b] = "right")
  BY DEF Before
<1>. USE PlaceTypes
<1>3. CASE a < b
  <2>1. a \in 1 .. Len(r) /\ q[a] = r[a] BY <1>1, <1>2, <1>3
  <2>2. \A j \in 1 .. a - 1 : j <= Len(p) /\ p[j] = r[j] BY <1>1, <1>2, <1>3
  <2>. QED BY <1>1, <2>1, <2>2 DEF Before
<1>4. CASE b < a
  <2>1. b <= Len(p) /\ p[b] = q[b] BY <1>1, <1>2, <1>4
  <2>2. \A j \in 1 .. b - 1 : j <= Len(p) /\ p[j] = r[j] BY <1>1, <1>2, <1>4
  <2>3. q[b] = "left" /\ r[b] = "right" BY <1>1, <1>2, <1>4
  <2>. QED BY <1>2, <2>1, <2>2, <2>3 DEF Before
<1>5. CASE a = b
  <2>1. q[a] = "left" BY <1>1, <1>2, <1>5
  <2>2. a = Len(p) + 1 BY <1>1, <2>1
  <2>3. \A j \in 1 .. a - 1 : j <= Len(p) /\ p[j] = r[j] BY <1>1, <1>2, <1>5
  <2>. QED BY <1>2, <1>5, <2>2, <2>3 DEF Before
<1>. QED BY <1>3, <1>4, <1>5

LEMMA BeforeStrict ==
  ASSUME NEW p \in Place
  PROVE  ~ Before(p, p)
BY PlaceTypes DEF Before

\* Every finite set of places can be listed in this order.
Lists(s, S) == /\ s \in [1 .. Cardinality(S) -> S]
               /\ \A j, k \in 1 .. Cardinality(S) : j < k => Before(s[j], s[k])

LEMMA Listed ==
  ASSUME NEW S \in SUBSET Place, IsFiniteSet(S)
  PROVE  \E s : Lists(s, S)
<1>. DEFINE Bad == {n \in Nat : \E V \in SUBSET Place : /\ IsFiniteSet(V) /\ Cardinality(V) = n
                                                       /\ ~ \E s : Lists(s, V)}
<1>1. SUFFICES ASSUME ~ \E s : Lists(s, S) PROVE FALSE OBVIOUS
<1>2. Cardinality(S) \in Bad
  <2>1. Cardinality(S) \in Nat BY FS_CardinalityType
  <2>. QED BY <1>1, <2>1
<1>3. PICK n \in Bad : \A m \in Bad : n <= m
  <2>1. Bad \in SUBSET Nat OBVIOUS
  <2>. HIDE DEF Bad
  <2>. QED BY <1>2, <2>1, LeastNumber
<1>4. PICK V \in SUBSET Place : IsFiniteSet(V) /\ Cardinality(V) = n /\ ~ \E s : Lists(s, V)
  OBVIOUS
<1>5. V # {}
  <2>1. CASE V = {}
    <3>1. n = 0 BY <1>4, <2>1, FS_EmptySet
    <3>2. Lists([k \in 1 .. 0 |-> << >>], V) BY <1>4, <2>1, <3>1 DEF Lists
    <3>. QED BY <1>4, <3>2
  <2>. QED BY <2>1
<1>6. PICK x \in V : \A y \in V \ {x} : Before(y, x)
  <2>. DEFINE R == {w \in Place \X Place : Before(w[1], w[2])}
  <2>1. \A p, q \in Place : << p, q >> \in R <=> Before(p, q) OBVIOUS
  <2>. HIDE DEF R
  <2>2. \A p, q \in V : p = q \/ << p, q >> \in R \/ << q, p >> \in R
    BY <1>4, <2>1, BeforeTotal
  <2>3. \A p, q, r \in V : << p, q >> \in R /\ << q, r >> \in R => << p, r >> \in R
    BY <1>4, <2>1, BeforeTransitive
  <2>4. PICK x \in V : \A y \in V \ {x} : << y, x >> \in R BY <1>4, <1>5, <2>2, <2>3, LastOf
  <2>5. \A y \in V \ {x} : Before(y, x) BY <1>4, <2>1, <2>4
  <2>. QED BY <2>4, <2>5
<1>7. /\ IsFiniteSet(V \ {x}) /\ Cardinality(V \ {x}) = n - 1 /\ n - 1 \in Nat /\ n \in Nat
  <2>1. IsFiniteSet(V \ {x}) /\ Cardinality(V \ {x}) = n - 1 BY <1>4, <1>6, FS_RemoveElement
  <2>. QED BY <2>1, FS_CardinalityType
<1>8. PICK s : Lists(s, V \ {x})
  <2>1. n - 1 \notin Bad BY <1>3, <1>7
  <2>. QED BY <1>4, <1>7, <2>1
<1>. DEFINE w == [k \in 1 .. n |-> IF k = n THEN x ELSE s[k]]
<1>9. Lists(w, V)
  <2>0. /\ s \in [1 .. n - 1 -> V \ {x}]
        /\ \A j, k \in 1 .. n - 1 : j < k => Before(s[j], s[k])
    BY <1>7, <1>8 DEF Lists
  <2>1. \A k \in 1 .. n : k # n => k \in 1 .. n - 1 /\ s[k] \in V \ {x} BY <1>7, <2>0
  <2>2. w \in [1 .. n -> V] BY <1>6, <2>1
  <2>3. ASSUME NEW j \in 1 .. n, NEW k \in 1 .. n, j < k PROVE Before(w[j], w[k])
    <3>1. CASE k = n BY <1>6, <1>7, <2>1, <2>3, <3>1
    <3>2. CASE k # n
      <4>1. j \in 1 .. n - 1 /\ k \in 1 .. n - 1 BY <1>7, <2>3, <3>2
      <4>2. Before(s[j], s[k]) BY <2>0, <2>3, <4>1
      <4>. QED BY <1>7, <4>1, <4>2
    <3>. QED BY <3>1, <3>2
  <2>. QED BY <1>4, <2>2, <2>3 DEF Lists
<1>. QED BY <1>4, <1>9

----------------------------------------------------------------------------
\* Trees.

Value == [addr : Hosts, mails : Seq(Mails), buffer : {"none", "part", "torn"},
          times : {"none", "noted", "lost"}]

Nodes == [key : Hosts, value : Value]

\* The place q lies in p's subtree on this side.
Under(p, side, q) == Len(p) < Len(q) /\ Below(p, q) /\ q[Len(p) + 1] = side

\* Finitely many nodes, each with its parent, each with its own host's connection.
Shape(t) ==
  /\ t \in [DOMAIN t -> Nodes] /\ DOMAIN t \subseteq Place /\ IsFiniteSet(DOMAIN t)
  /\ \A p \in Place, q \in DOMAIN t : Below(p, q) => p \in DOMAIN t
  /\ \A p \in DOMAIN t : t[p].value.addr = t[p].key

\* Smaller keys to the left, larger ones to the right, among the nodes of D.
Sorted(t, D) ==
  \A p, q \in D : /\ Under(p, "left", q) => t[q].key < t[p].key
                  /\ Under(p, "right", q) => t[q].key > t[p].key

IsTree(t) == Shape(t) /\ Sorted(t, DOMAIN t)

LEMMA NodeTypes ==
  ASSUME NEW t, Shape(t), NEW p \in DOMAIN t
  PROVE  /\ p \in Place /\ t[p] \in Nodes /\ t[p].key \in Nat /\ t[p].key \in Hosts
         /\ t[p].value \in Value /\ t[p].value.addr = t[p].key
BY TreeAssumption DEF Shape, Nodes

LEMMA StrictlyBelow ==
  ASSUME NEW p \in Place, NEW q \in Place, Below(p, q), p # q
  PROVE  /\ Len(p) < Len(q) /\ Under(p, q[Len(p) + 1], q)
         /\ q[Len(p) + 1] \in {"left", "right"}
<1>1. Len(p) < Len(q) BY BelowBoth, PlaceTypes
<1>. QED BY <1>1, PlaceTypes DEF Under

\* A key is in one place.
LEMMA OneNode ==
  ASSUME NEW t, Shape(t), NEW D \in SUBSET DOMAIN t, Sorted(t, D),
         \A p \in Place, q \in D : Below(p, q) /\ p \in DOMAIN t => p \in D,
         NEW p \in D, NEW q \in D, t[p].key = t[q].key
  PROVE  p = q
<1>. SUFFICES ASSUME p # q PROVE FALSE OBVIOUS
<1>. p \in Place /\ q \in Place /\ t[p].key \in Nat /\ t[q].key \in Nat BY NodeTypes
<1>1. ~ Below(p, q)
  <2>. SUFFICES ASSUME Below(p, q) PROVE FALSE OBVIOUS
  <2>. QED BY StrictlyBelow DEF Sorted
<1>2. ~ Below(q, p)
  <2>. SUFFICES ASSUME Below(q, p) PROVE FALSE OBVIOUS
  <2>. QED BY StrictlyBelow DEF Sorted
<1>3. PICK r \in Place : Part(p, q, r) BY <1>1, <1>2, Parting
<1>4. r \in D /\ t[r].key \in Nat
  <2>1. r \in DOMAIN t BY <1>3 DEF Part, Shape
  <2>. QED BY <1>3, <2>1, NodeTypes DEF Part
<1>5. /\ Under(r, p[Len(r) + 1], p) /\ Under(r, q[Len(r) + 1], q)
      /\ p[Len(r) + 1] \in {"left", "right"} /\ q[Len(r) + 1] \in {"left", "right"}
      /\ p[Len(r) + 1] # q[Len(r) + 1]
  BY <1>3, PlaceTypes DEF Part, Under
<1>. QED BY <1>4, <1>5 DEF Sorted

----------------------------------------------------------------------------
\* tree_search.

\* What the walk from r has come by on its way to p.
Walked(t, r, key, p) ==
  \A q \in DOMAIN t : Below(r, q) /\ Below(q, p) /\ q # p =>
    t[q].key # key /\ p[Len(q) + 1] = IF key < t[q].key THEN "left" ELSE "right"

EndsAt(t, r, key, p) ==
  /\ p \in DOMAIN t => t[p].key = key
  /\ Below(r, p)
  /\ Walked(t, r, key, p)

LEMMA SearchIs ==
  ASSUME NEW t, NEW r, NEW key
  PROVE  tree_search(t, r, key) = CHOOSE p \in Reach(t) : EndsAt(t, r, key, p)
BY DEF tree_search, EndsAt, Walked

LEMMA ReachPlaces ==
  ASSUME NEW t, Shape(t), NEW p \in Reach(t)
  PROVE  p \in Place /\ \A q \in Place : Below(q, p) /\ q # p => q \in DOMAIN t
<1>. DOMAIN t \subseteq Place BY DEF Shape
<1>1. CASE p = << >>
  <2>1. p \in Place /\ Len(p) = 0 BY <1>1 DEF Place
  <2>. QED BY <2>1, BelowBoth, PlaceTypes DEF Below
<1>2. CASE p \in DOMAIN t BY <1>2 DEF Shape
<1>3. ASSUME NEW x \in DOMAIN t, NEW side \in {"left", "right"}, p = Append(x, side)
      PROVE  p \in Place /\ \A q \in Place : Below(q, p) /\ q # p => q \in DOMAIN t
  <2>1. p \in Place /\ Len(p) = Len(x) + 1 /\ \A k \in 1 .. Len(x) : p[k] = x[k]
    BY <1>3, Child
  <2>2. ASSUME NEW q \in Place, Below(q, p), q # p PROVE q \in DOMAIN t
    <3>1. Len(q) < Len(p) BY <2>1, <2>2, StrictlyBelow
    <3>2. Below(q, x) BY <2>1, <2>2, <3>1, PlaceTypes DEF Below
    <3>. QED BY <3>2 DEF Shape
  <2>. QED BY <2>1, <2>2
<1>. QED BY <1>1, <1>2, <1>3 DEF Reach

\* The walk that starts above a node and is for its key ends at the node.
LEMMA SearchFinds ==
  ASSUME NEW t, Shape(t), NEW r \in Place, NEW x \in DOMAIN t, Below(r, x),
         \A q \in DOMAIN t : Below(r, q) /\ q # x =>
           /\ t[q].key # t[x].key
           /\ Under(q, "left", x) => t[x].key < t[q].key
           /\ Under(q, "right", x) => t[x].key > t[q].key
  PROVE  tree_search(t, r, t[x].key) = x
<1>. DEFINE key == t[x].key
<1>. x \in Place /\ key \in Nat /\ DOMAIN t \subseteq Place BY NodeTypes DEF Shape
<1>0. \A q \in DOMAIN t : t[q].key \in Nat BY NodeTypes
<1>1. x \in Reach(t) /\ EndsAt(t, r, key, x)
  <2>1. ASSUME NEW q \in DOMAIN t, Below(r, q), Below(q, x), q # x
        PROVE  t[q].key # key /\ x[Len(q) + 1] = IF key < t[q].key THEN "left" ELSE "right"
    <3>1. Under(q, x[Len(q) + 1], x) /\ x[Len(q) + 1] \in {"left", "right"}
      BY <2>1, StrictlyBelow
    <3>. QED BY <1>0, <2>1, <3>1
  <2>. QED BY <2>1 DEF Reach, EndsAt, Walked
<1>2. ASSUME NEW p \in Reach(t), EndsAt(t, r, key, p) PROVE p = x
  <2>. SUFFICES ASSUME p # x PROVE FALSE OBVIOUS
  <2>1. p \in Place /\ \A q \in Place : Below(q, p) /\ q # p => q \in DOMAIN t BY ReachPlaces
  <2>2. ~ Below(p, x)
    <3>. SUFFICES ASSUME Below(p, x) PROVE FALSE OBVIOUS
    <3>1. p \in DOMAIN t BY <2>1 DEF Shape
    <3>. QED BY <1>2, <3>1 DEF EndsAt
  <2>3. ~ Below(x, p) BY <1>2 DEF EndsAt, Walked
  <2>4. PICK c \in Place : Part(p, x, c) BY <2>1, <2>2, <2>3, Parting
  <2>5. Len(r) <= Len(c)
    <3>. SUFFICES ASSUME Len(c) < Len(r) PROVE FALSE BY PlaceTypes
    <3>1. Len(c) + 1 \in 1 .. Len(r) BY <2>4, PlaceTypes
    <3>2. p[Len(c) + 1] = r[Len(c) + 1] /\ x[Len(c) + 1] = r[Len(c) + 1]
      BY <1>2, <3>1 DEF EndsAt, Below
    <3>. QED BY <2>4, <3>2 DEF Part
  <2>6. Below(r, c)
    BY <1>2, <2>1, <2>4, <2>5, PlaceTypes DEF EndsAt, Below, Part
  <2>7. c \in DOMAIN t /\ c # x /\ c # p BY <2>4, PlaceTypes DEF Part, Shape
  <2>8. p[Len(c) + 1] = IF key < t[c].key THEN "left" ELSE "right"
    BY <1>2, <2>4, <2>6, <2>7 DEF EndsAt, Walked, Part
  <2>9. x[Len(c) + 1] = IF key < t[c].key THEN "left" ELSE "right"
    BY <1>1, <2>4, <2>6, <2>7 DEF EndsAt, Walked, Part
  <2>. QED BY <2>4, <2>8, <2>9 DEF Part
<1>3. x = CHOOSE p \in Reach(t) : EndsAt(t, r, key, p) BY <1>1, <1>2
<1>. QED BY <1>3, SearchIs

\* In a search tree every key is found.
LEMMA TreeFinds ==
  ASSUME NEW t, IsTree(t), NEW x \in DOMAIN t
  PROVE  tree_search(t, << >>, t[x].key) = x
<1>. Shape(t) /\ Sorted(t, DOMAIN t) /\ DOMAIN t \subseteq Place BY DEF IsTree, Shape
<1>1. \A q \in DOMAIN t : q # x => t[q].key # t[x].key BY OneNode
<1>2. Below(<< >>, x) /\ << >> \in Place BY PlaceTypes
<1>3. \A q \in DOMAIN t : /\ Under(q, "left", x) => t[x].key < t[q].key
                          /\ Under(q, "right", x) => t[x].key > t[q].key
  BY DEF Sorted
<1>. QED BY <1>1, <1>2, <1>3, SearchFinds

\* Every other key leads to a NULL, where a node of that key belongs.
LEMMA TreeMisses ==
  ASSUME NEW t, IsTree(t), NEW key \in Hosts, key \notin Keys(t),
         NEW p, p = tree_search(t, << >>, key)
  PROVE  /\ p \in Place /\ p \notin DOMAIN t /\ Walked(t, << >>, key, p)
         /\ \A q \in Place : Below(q, p) /\ q # p => q \in DOMAIN t
<1>. Shape(t) /\ Sorted(t, DOMAIN t) /\ DOMAIN t \subseteq Place BY DEF IsTree, Shape
<1>. key \in Nat BY TreeAssumption
<1>. DEFINE S == {q \in DOMAIN t : Walked(t, << >>, key, q)}
<1>1. \E q \in Reach(t) : EndsAt(t, << >>, key, q)
  <2>1. CASE S = {}
    <3>1. << >> \notin DOMAIN t
      <4>. SUFFICES ASSUME << >> \in DOMAIN t PROVE FALSE OBVIOUS
      <4>1. \A q \in Place : Below(q, << >>) => q = << >>
        BY BelowBoth, PlaceTypes DEF Below
      <4>2. Walked(t, << >>, key, << >>) BY <4>1 DEF Walked
      <4>. QED BY <2>1, <4>2
    <3>2. Walked(t, << >>, key, << >>)
      BY BelowBoth, PlaceTypes DEF Walked, Below
    <3>3. << >> \in Reach(t) /\ Below(<< >>, << >>) BY DEF Reach, Below
    <3>. QED BY <3>1, <3>2, <3>3 DEF EndsAt
  <2>2. CASE S # {}
    <3>1. S \in SUBSET Place /\ IsFiniteSet(S) BY FS_Subset DEF Shape
    <3>2. PICK x \in S : \A q \in S : Len(q) <= Len(x) BY <2>2, <3>1, Longest
    <3>. DEFINE side == IF key < t[x].key THEN "left" ELSE "right"
                y    == Append(x, side)
    <3>. x \in Place /\ x \in DOMAIN t OBVIOUS
    <3>3. /\ y \in Place /\ Len(y) = Len(x) + 1 /\ y[Len(x) + 1] = side
          /\ \A k \in 1 .. Len(x) : y[k] = x[k]
      BY Child
    <3>4. y \in Reach(t) BY DEF Reach
    <3>. HIDE DEF y
    <3>5. Walked(t, << >>, key, y)
      <4>1. ASSUME NEW q \in DOMAIN t, Below(q, y), q # y
            PROVE  t[q].key # key /\ y[Len(q) + 1] = IF key < t[q].key THEN "left" ELSE "right"
        <5>1. Len(q) <= Len(x) BY <3>3, <4>1, StrictlyBelow, PlaceTypes
        <5>2. Below(q, x) BY <3>3, <4>1, <5>1, PlaceTypes DEF Below
        <5>3. t[q].key # key BY DEF Keys
        <5>4. CASE q = x BY <3>3, <5>3, <5>4
        <5>5. CASE q # x
          <6>1. Len(q) + 1 \in 1 .. Len(x) BY <5>2, <5>5, StrictlyBelow, PlaceTypes
          <6>2. x[Len(q) + 1] = IF key < t[q].key THEN "left" ELSE "right"
            BY <5>2, <5>5, PlaceTypes DEF Walked
          <6>. QED BY <3>3, <5>3, <6>1, <6>2
        <5>. QED BY <5>4, <5>5
      <4>. QED BY <4>1 DEF Walked
    <3>6. y \notin DOMAIN t BY <3>2, <3>3, <3>5, PlaceTypes
    <3>7. Below(<< >>, y) BY <3>3, PlaceTypes
    <3>. QED BY <3>4, <3>5, <3>6, <3>7 DEF EndsAt
  <2>. QED BY <2>1, <2>2
<1>2. p \in Reach(t) /\ EndsAt(t, << >>, key, p) BY <1>1, SearchIs
<1>3. p \notin DOMAIN t BY <1>2 DEF EndsAt, Keys
<1>. QED BY <1>2, <1>3, ReachPlaces DEF EndsAt

----------------------------------------------------------------------------
\* unlink: the only child of a node takes its place.

LEMMA UpTypes ==
  ASSUME NEW x \in Place, NEW y \in Place
  PROVE  /\ Up(x, y) \in Place
         /\ Below(x, y) /\ y # x =>
              /\ Len(x) < Len(y) /\ Len(Up(x, y)) = Len(y) - 1 /\ Below(x, Up(x, y))
              /\ \A k \in 1 .. Len(x) : Up(x, y)[k] = x[k] /\ y[k] = x[k]
              /\ \A k \in Len(x) + 1 .. Len(y) - 1 : Up(x, y)[k] = y[k + 1]
         /\ ~ (Below(x, y) /\ y # x) => Up(x, y) = y
<1>1. CASE Below(x, y) /\ y # x
  <2>1. Len(x) < Len(y) /\ Len(x) \in Nat /\ Len(y) \in Nat BY <1>1, StrictlyBelow, PlaceTypes
  <2>. DEFINE u == [k \in 1 .. Len(y) - 1 |-> IF k <= Len(x) THEN y[k] ELSE y[k + 1]]
  <2>2. Up(x, y) = u BY <1>1 DEF Up
  <2>3. \A k \in 1 .. Len(y) - 1 : u[k] \in {"left", "right"} BY <2>1, PlaceTypes
  <2>4. u \in Place /\ Len(u) = Len(y) - 1
    <3>1. u \in [1 .. Len(y) - 1 -> {"left", "right"}] BY <2>3
    <3>2. Len(y) - 1 \in Nat BY <2>1
    <3>. HIDE DEF u
    <3>. QED BY <3>1, <3>2 DEF Place
  <2>5. /\ \A k \in 1 .. Len(x) : u[k] = x[k] /\ y[k] = x[k]
        /\ \A k \in Len(x) + 1 .. Len(y) - 1 : u[k] = y[k + 1]
    BY <1>1, <2>1 DEF Below
  <2>. HIDE DEF u
  <2>6. Below(x, u) BY <2>1, <2>4, <2>5 DEF Below
  <2>. QED BY <1>1, <2>1, <2>2, <2>4, <2>5, <2>6
<1>2. CASE ~ (Below(x, y) /\ y # x) BY <1>2 DEF Up
<1>. QED BY <1>1, <1>2

\* All that is below a node with one child is on one side of it.
LEMMA OneSide ==
  ASSUME NEW t, Shape(t), NEW x \in DOMAIN t, ~ TwoChildren(t, x),
         NEW y \in DOMAIN t, NEW z \in DOMAIN t,
         Below(x, y), y # x, Below(x, z), z # x
  PROVE  y[Len(x) + 1] = z[Len(x) + 1]
<1>. x \in Place /\ DOMAIN t \subseteq Place BY DEF Shape
<1>1. ASSUME NEW w \in DOMAIN t, Below(x, w), w # x
      PROVE  w[Len(x) + 1] \in {"left", "right"} /\ Append(x, w[Len(x) + 1]) \in DOMAIN t
  <2>1. Len(x) < Len(w) /\ w[Len(x) + 1] \in {"left", "right"} BY <1>1, StrictlyBelow
  <2>. DEFINE a == Append(x, w[Len(x) + 1])
  <2>2. /\ a \in Place /\ Len(a) = Len(x) + 1 /\ \A k \in 1 .. Len(x) : a[k] = x[k]
        /\ a[Len(x) + 1] = w[Len(x) + 1]
    BY <2>1, Child
  <2>. HIDE DEF a
  <2>3. Below(a, w) BY <1>1, <2>1, <2>2, PlaceTypes DEF Below
  <2>4. a \in DOMAIN t BY <2>2, <2>3 DEF Shape
  <2>. QED BY <2>1, <2>4 DEF a
<1>2. y[Len(x) + 1] \in {"left", "right"} /\ Append(x, y[Len(x) + 1]) \in DOMAIN t BY <1>1
<1>3. z[Len(x) + 1] \in {"left", "right"} /\ Append(x, z[Len(x) + 1]) \in DOMAIN t BY <1>1
<1>. QED BY <1>2, <1>3 DEF TwoChildren

\* Nodes keep their sides when they move up.
LEMMA UpUnder ==
  ASSUME NEW t, Shape(t), NEW x \in DOMAIN t, ~ TwoChildren(t, x),
         NEW y \in DOMAIN t \ {x}, NEW z \in DOMAIN t \ {x},
         NEW side, Under(Up(x, y), side, Up(x, z))
  PROVE  Under(y, side, z)
<1>. x \in Place /\ y \in Place /\ z \in Place BY DEF Shape
<1>. Len(x) \in Nat /\ Len(y) \in Nat /\ Len(z) \in Nat BY PlaceTypes
<1>1. CASE ~ Below(x, y) /\ ~ Below(x, z) BY <1>1, UpTypes
<1>2. CASE Below(x, y) /\ ~ Below(x, z)
  <2>1. Up(x, z) = z /\ Below(x, Up(x, y)) /\ Up(x, y) \in Place BY <1>2, UpTypes
  <2>2. Below(Up(x, y), z) BY <2>1 DEF Under
  <2>. QED BY <1>2, <2>1, <2>2, BelowTransitive
<1>3. CASE ~ Below(x, y) /\ Below(x, z)
  <2>. DEFINE u == Up(x, z)
  <2>1. /\ u \in Place /\ Len(x) < Len(z) /\ Len(u) = Len(z) - 1
        /\ \A k \in 1 .. Len(x) : u[k] = x[k] /\ z[k] = x[k]
    BY <1>3, UpTypes
  <2>2. Under(y, side, u) BY <1>3, UpTypes
  <2>. HIDE DEF u
  <2>3. Len(y) < Len(x)
    <3>. SUFFICES ASSUME Len(x) <= Len(y) PROVE FALSE OBVIOUS
    <3>1. \A k \in 1 .. Len(x) : y[k] = x[k] BY <2>1, <2>2 DEF Under, Below
    <3>. QED BY <1>3, <3>1 DEF Below
  <2>4. \A k \in 1 .. Len(y) : z[k] = y[k] BY <2>1, <2>2, <2>3 DEF Under, Below
  <2>5. z[Len(y) + 1] = side BY <2>1, <2>2, <2>3 DEF Under
  <2>. QED BY <2>1, <2>3, <2>4, <2>5 DEF Under, Below
<1>4. CASE Below(x, y) /\ Below(x, z)
  <2>. DEFINE u == Up(x, z)
              v == Up(x, y)
  <2>1. /\ u \in Place /\ Len(x) < Len(z) /\ Len(u) = Len(z) - 1
        /\ \A k \in 1 .. Len(x) : u[k] = x[k] /\ z[k] = x[k]
        /\ \A k \in Len(x) + 1 .. Len(z) - 1 : u[k] = z[k + 1]
    BY <1>4, UpTypes
  <2>2. /\ v \in Place /\ Len(x) < Len(y) /\ Len(v) = Len(y) - 1
        /\ \A k \in 1 .. Len(x) : v[k] = x[k] /\ y[k] = x[k]
        /\ \A k \in Len(x) + 1 .. Len(y) - 1 : v[k] = y[k + 1]
    BY <1>4, UpTypes
  <2>3. Under(v, side, u) OBVIOUS
  <2>. HIDE DEF u, v
  <2>4. Len(y) < Len(z) BY <2>1, <2>2, <2>3 DEF Under
  <2>5. z[Len(y) + 1] = side
    <3>1. u[Len(y)] = side BY <2>2, <2>3 DEF Under
    <3>. QED BY <2>1, <2>2, <2>4, <3>1
  <2>6. ASSUME NEW k \in 1 .. Len(y) PROVE z[k] = y[k]
    <3>1. CASE k <= Len(x) BY <2>1, <2>2, <3>1
    <3>2. CASE k = Len(x) + 1 BY <1>4, <3>2, OneSide
    <3>3. CASE k > Len(x) + 1
      <4>1. k - 1 \in Len(x) + 1 .. Len(y) - 1 /\ k - 1 \in Len(x) + 1 .. Len(z) - 1
        BY <2>4, <3>3
      <4>2. u[k - 1] = v[k - 1] BY <2>2, <2>3, <4>1 DEF Under, Below
      <4>3. u[k - 1] = z[(k - 1) + 1] /\ v[k - 1] = y[(k - 1) + 1] BY <2>1, <2>2, <4>1
      <4>4. (k - 1) + 1 = k OBVIOUS
      <4>. QED BY <4>2, <4>3, <4>4
    <3>. QED BY <3>1, <3>2, <3>3
  <2>. QED BY <2>4, <2>5, <2>6 DEF Under, Below
<1>. QED BY <1>1, <1>2, <1>3, <1>4

LEMMA UpOnce ==
  ASSUME NEW t, Shape(t), NEW x \in DOMAIN t, ~ TwoChildren(t, x),
         NEW y \in DOMAIN t \ {x}, NEW z \in DOMAIN t \ {x}, Up(x, y) = Up(x, z)
  PROVE  y = z
<1>. x \in Place /\ y \in Place /\ z \in Place BY DEF Shape
<1>. Len(x) \in Nat /\ Len(y) \in Nat /\ Len(z) \in Nat BY PlaceTypes
<1>1. CASE ~ Below(x, y) /\ ~ Below(x, z) BY <1>1, UpTypes
<1>2. CASE Below(x, y) /\ ~ Below(x, z) BY <1>2, UpTypes
<1>3. CASE ~ Below(x, y) /\ Below(x, z) BY <1>3, UpTypes
<1>4. CASE Below(x, y) /\ Below(x, z)
  <2>. DEFINE u == Up(x, z)
              v == Up(x, y)
  <2>1. /\ u \in Place /\ Len(x) < Len(z) /\ Len(u) = Len(z) - 1
        /\ \A k \in 1 .. Len(x) : u[k] = x[k] /\ z[k] = x[k]
        /\ \A k \in Len(x) + 1 .. Len(z) - 1 : u[k] = z[k + 1]
    BY <1>4, UpTypes
  <2>2. /\ v \in Place /\ Len(x) < Len(y) /\ Len(v) = Len(y) - 1
        /\ \A k \in 1 .. Len(x) : v[k] = x[k] /\ y[k] = x[k]
        /\ \A k \in Len(x) + 1 .. Len(y) - 1 : v[k] = y[k + 1]
    BY <1>4, UpTypes
  <2>3. u = v OBVIOUS
  <2>. HIDE DEF u, v
  <2>4. Len(y) = Len(z) BY <2>1, <2>2, <2>3
  <2>5. ASSUME NEW k \in 1 .. Len(y) PROVE z[k] = y[k]
    <3>1. CASE k <= Len(x) BY <2>1, <2>2, <3>1
    <3>2. CASE k = Len(x) + 1 BY <1>4, <3>2, OneSide
    <3>3. CASE k > Len(x) + 1
      <4>1. k - 1 \in Len(x) + 1 .. Len(y) - 1 BY <3>3
      <4>2. u[k - 1] = z[(k - 1) + 1] /\ v[k - 1] = y[(k - 1) + 1] BY <2>1, <2>2, <2>4, <4>1
      <4>. QED BY <2>3, <4>2
    <3>. QED BY <3>1, <3>2, <3>3
  <2>. QED BY <2>4, <2>5, SamePlace
<1>. QED BY <1>1, <1>2, <1>3, <1>4

\* The places above one that was moved up are taken.
LEMMA UpRooted ==
  ASSUME NEW t, Shape(t), NEW x \in DOMAIN t, NEW z \in DOMAIN t \ {x},
         NEW q \in Place, Below(q, Up(x, z))
  PROVE  \E y \in DOMAIN t \ {x} : Up(x, y) = q
<1>. x \in Place /\ z \in Place BY DEF Shape
<1>. Len(x) \in Nat /\ Len(z) \in Nat /\ Len(q) \in Nat BY PlaceTypes
<1>1. CASE ~ Below(x, z)
  <2>1. Below(q, z) BY <1>1, UpTypes
  <2>2. q \in DOMAIN t BY <2>1 DEF Shape
  <2>3. ~ Below(x, q) BY <1>1, <2>1, BelowTransitive
  <2>4. q # x BY <2>3, PlaceTypes
  <2>. QED BY <2>2, <2>3, <2>4, UpTypes
<1>2. CASE Below(x, z)
  <2>. DEFINE u == Up(x, z)
  <2>1. /\ u \in Place /\ Len(x) < Len(z) /\ Len(u) = Len(z) - 1
        /\ \A k \in 1 .. Len(x) : u[k] = x[k] /\ z[k] = x[k]
        /\ \A k \in Len(x) + 1 .. Len(z) - 1 : u[k] = z[k + 1]
    BY <1>2, UpTypes
  <2>2. Len(q) <= Len(u) /\ \A k \in 1 .. Len(q) : u[k] = q[k] BY DEF Below
  <2>. HIDE DEF u
  <2>3. CASE Len(q) < Len(x)
    <3>1. Below(q, z) BY <2>1, <2>2, <2>3 DEF Below
    <3>2. q \in DOMAIN t BY <3>1 DEF Shape
    <3>3. ~ Below(x, q) /\ q # x BY <2>3 DEF Below
    <3>. QED BY <3>2, <3>3, UpTypes
  <2>4. CASE Len(x) <= Len(q)
    <3>. DEFINE y == SubSeq(z, 1, Len(q) + 1)
    <3>1. Len(q) + 1 \in 0 .. Len(z) BY <2>1, <2>2
    <3>2. /\ y \in Place /\ Len(y) = Len(q) + 1 /\ Below(y, z)
          /\ \A k \in 1 .. Len(q) + 1 : y[k] = z[k]
      BY <3>1, Start
    <3>. HIDE DEF y
    <3>3. y \in DOMAIN t BY <3>2 DEF Shape
    <3>4. Below(x, y) /\ y # x BY <2>1, <2>4, <3>2 DEF Below
    <3>5. /\ Up(x, y) \in Place /\ Len(Up(x, y)) = Len(q)
          /\ \A k \in 1 .. Len(x) : Up(x, y)[k] = x[k]
          /\ \A k \in Len(x) + 1 .. Len(q) : Up(x, y)[k] = y[k + 1]
      <4>1. Len(y) - 1 = Len(q) BY <3>2
      <4>2. /\ Up(x, y) \in Place /\ Len(Up(x, y)) = Len(y) - 1
            /\ \A k \in 1 .. Len(x) : Up(x, y)[k] = x[k] /\ y[k] = x[k]
            /\ \A k \in Len(x) + 1 .. Len(y) - 1 : Up(x, y)[k] = y[k + 1]
        BY <3>2, <3>4, UpTypes
      <4>. QED BY <4>1, <4>2
    <3>6. ASSUME NEW k \in 1 .. Len(q) PROVE Up(x, y)[k] = q[k]
      <4>1. CASE k <= Len(x) BY <2>1, <2>2, <3>5, <4>1
      <4>2. CASE k > Len(x)
        <5>1. Up(x, y)[k] = y[k + 1] /\ y[k + 1] = z[k + 1] BY <3>2, <3>5, <4>2
        <5>2. u[k] = z[k + 1] BY <2>1, <2>2, <4>2
        <5>. QED BY <2>2, <5>1, <5>2
      <4>. QED BY <4>1, <4>2
    <3>7. Up(x, y) = q BY <3>5, <3>6, SamePlace
    <3>. QED BY <3>3, <3>4, <3>7
  <2>. QED BY <2>3, <2>4
<1>. QED BY <1>1, <1>2

\* Taking a node with at most one child out of a tree that is sorted but for it.
LEMMA Unlinked ==
  ASSUME NEW t, Shape(t), NEW x \in DOMAIN t, ~ TwoChildren(t, x),
         Sorted(t, DOMAIN t \ {x}), NEW u, u = unlink(t, x)
  PROVE  /\ IsTree(u) /\ Cardinality(DOMAIN u) = Cardinality(DOMAIN t) - 1
         /\ \A y \in DOMAIN t \ {x} : Up(x, y) \in DOMAIN u /\ u[Up(x, y)] = t[y]
         /\ \A q \in DOMAIN u : \E y \in DOMAIN t \ {x} : q = Up(x, y)
<1>. DEFINE D == DOMAIN t \ {x}
<1>. x \in Place /\ DOMAIN t \subseteq Place BY DEF Shape
<1>1. DOMAIN u = {Up(x, y) : y \in D} BY DEF unlink
<1>2. ASSUME NEW y \in D PROVE Up(x, y) \in DOMAIN u /\ u[Up(x, y)] = t[y]
  <2>1. Up(x, y) \in DOMAIN u BY <1>1
  <2>2. u[Up(x, y)] = t[CHOOSE z \in D : Up(x, z) = Up(x, y)] BY <2>1 DEF unlink
  <2>3. (CHOOSE z \in D : Up(x, z) = Up(x, y)) = y
    <3>1. \A z \in D : Up(x, z) = Up(x, y) => z = y BY UpOnce
    <3>. QED BY <3>1
  <2>. QED BY <2>1, <2>2, <2>3
<1>3. \A q \in DOMAIN u : \E y \in D : q = Up(x, y) BY <1>1
<1>4. IsFiniteSet(DOMAIN u) /\ Cardinality(DOMAIN u) = Cardinality(DOMAIN t) - 1
  <2>1. IsFiniteSet(D) /\ Cardinality(D) = Cardinality(DOMAIN t) - 1
    BY FS_RemoveElement DEF Shape
  <2>. DEFINE f == [y \in D |-> Up(x, y)]
  <2>2. f \in [D -> DOMAIN u] BY <1>2
  <2>3. \A y, z \in D : f[y] = f[z] => y = z BY UpOnce
  <2>4. \A q \in DOMAIN u : \E y \in D : f[y] = q BY <1>3
  <2>. HIDE DEF f
  <2>5. f \in Bijection(D, DOMAIN u)
    BY <2>2, <2>3, <2>4 DEF Bijection, Injection, Surjection, IsInjective
  <2>6. ExistsBijection(D, DOMAIN u) BY <2>5 DEF ExistsBijection
  <2>. QED BY <2>1, <2>6, FS_Bijection
<1>5. u \in [DOMAIN u -> Nodes]
  <2>1. u = [q \in DOMAIN u |-> u[q]] BY DEF unlink
  <2>2. \A q \in DOMAIN u : u[q] \in Nodes BY <1>2, <1>3 DEF Shape
  <2>. QED BY <2>1, <2>2
<1>6. DOMAIN u \subseteq Place BY <1>3, UpTypes
<1>7. \A p \in Place, q \in DOMAIN u : Below(p, q) => p \in DOMAIN u
  BY <1>2, <1>3, UpRooted
<1>8. \A q \in DOMAIN u : u[q].value.addr = u[q].key BY <1>2, <1>3 DEF Shape
<1>9. Sorted(u, DOMAIN u)
  <2>1. ASSUME NEW p \in DOMAIN u, NEW q \in DOMAIN u
        PROVE  /\ Under(p, "left", q) => u[q].key < u[p].key
               /\ Under(p, "right", q) => u[q].key > u[p].key
    <3>1. PICK y \in D : p = Up(x, y) BY <1>3
    <3>2. PICK z \in D : q = Up(x, z) BY <1>3
    <3>3. u[p] = t[y] /\ u[q] = t[z] BY <1>2, <3>1, <3>2
    <3>4. \A side : Under(p, side, q) => Under(y, side, z) BY <3>1, <3>2, UpUnder
    <3>. QED BY <3>3, <3>4 DEF Sorted
  <2>. QED BY <2>1 DEF Sorted
<1>. QED BY <1>2, <1>3, <1>4, <1>5, <1>6, <1>7, <1>8, <1>9 DEF IsTree, Shape

----------------------------------------------------------------------------
\* min_value_node: the successor of a node with two children.

LEMMA Leftmost ==
  ASSUME NEW t, Shape(t), NEW x \in DOMAIN t, TwoChildren(t, x),
         NEW m, m = min_value_node(t, Append(x, "right"))
  PROVE  /\ m \in DOMAIN t /\ Under(x, "right", m) /\ Append(m, "left") \notin DOMAIN t
         /\ \A k \in Len(x) + 2 .. Len(m) : m[k] = "left"
         /\ Below(Append(x, "right"), m)
<1>. x \in Place /\ DOMAIN t \subseteq Place BY DEF Shape
<1>. DEFINE r == Append(x, "right")
            S == {q \in DOMAIN t : Below(r, q) /\ \A k \in Len(r) + 1 .. Len(q) : q[k] = "left"}
<1>1. /\ r \in Place /\ Len(r) = Len(x) + 1 /\ r[Len(x) + 1] = "right"
      /\ \A k \in 1 .. Len(x) : r[k] = x[k]
  BY Child
<1>2. r \in DOMAIN t BY DEF TwoChildren
<1>. HIDE DEF r
<1>. Len(x) \in Nat /\ Len(r) \in Nat BY <1>1, PlaceTypes
<1>3. r \in S BY <1>1, <1>2, PlaceTypes
<1>4. IsFiniteSet(S) /\ S \in SUBSET Place BY FS_Subset DEF Shape
<1>5. PICK q \in S : \A y \in S : Len(y) <= Len(q) BY <1>3, <1>4, Longest
<1>6. Append(q, "left") \notin DOMAIN t
  <2>. SUFFICES ASSUME Append(q, "left") \in DOMAIN t PROVE FALSE OBVIOUS
  <2>. DEFINE y == Append(q, "left")
  <2>1. /\ y \in Place /\ Len(y) = Len(q) + 1 /\ y[Len(q) + 1] = "left"
        /\ \A k \in 1 .. Len(q) : y[k] = q[k]
    BY Child
  <2>2. y \in DOMAIN t OBVIOUS
  <2>. HIDE DEF y
  <2>3. Below(r, y) BY <1>1, <1>5, <2>1, PlaceTypes DEF Below
  <2>4. \A k \in Len(r) + 1 .. Len(y) : y[k] = "left" BY <1>5, <2>1, PlaceTypes
  <2>5. y \in S BY <2>2, <2>3, <2>4
  <2>. QED BY <1>5, <2>1, <2>5, PlaceTypes
<1>7. /\ m \in DOMAIN t /\ Below(r, m) /\ \A k \in Len(r) + 1 .. Len(m) : m[k] = "left"
      /\ Append(m, "left") \notin DOMAIN t
  BY <1>5, <1>6 DEF min_value_node, r
<1>8. Under(x, "right", m) BY <1>1, <1>7, PlaceTypes DEF Under, Below
<1>. QED BY <1>1, <1>7, <1>8 DEF r

\* It has the next larger key.
LEMMA Successor ==
  ASSUME NEW t, IsTree(t), NEW x \in DOMAIN t, TwoChildren(t, x),
         NEW m, m = min_value_node(t, Append(x, "right")), NEW y \in DOMAIN t
  PROVE  /\ t[m].key > t[x].key
         /\ t[y].key <= t[x].key \/ t[y].key >= t[m].key
         /\ Under(x, "right", y) /\ y # m => t[y].key > t[m].key
         /\ Under(x, "left", y) => t[y].key < t[m].key
<1>. Shape(t) /\ Sorted(t, DOMAIN t) BY DEF IsTree
<1>. DOMAIN t \subseteq Place BY DEF Shape
<1>1. /\ m \in DOMAIN t /\ Under(x, "right", m) /\ Append(m, "left") \notin DOMAIN t
      /\ \A k \in Len(x) + 2 .. Len(m) : m[k] = "left"
  BY Leftmost
<1>. x \in Place /\ m \in Place /\ y \in Place BY <1>1
<1>. Len(x) \in Nat /\ Len(m) \in Nat /\ Len(y) \in Nat BY PlaceTypes
<1>2. \A p \in DOMAIN t : t[p].key \in Nat BY NodeTypes
<1>3. t[m].key > t[x].key BY <1>1 DEF Sorted
<1>4. Under(x, "left", y) => t[y].key < t[m].key BY <1>1, <1>2, <1>3 DEF Sorted
\* A node on the way to m.
<1>5. ASSUME NEW r \in DOMAIN t, Below(r, m), r # m
      PROVE  \/ Under(x, "right", r) /\ Under(r, "left", m)
             \/ r = x
             \/ \E side \in {"left", "right"} : Under(r, side, x) /\ Under(r, side, m)
  <2>. r \in Place /\ Len(r) \in Nat BY PlaceTypes
  <2>1. Len(r) < Len(m) BY <1>5, StrictlyBelow
  <2>2. CASE Len(r) > Len(x)
    <3>1. Under(x, "right", r) BY <1>1, <1>5, <2>1, <2>2, SMTT(20) DEF Under, Below
    <3>2. Under(r, "left", m) BY <1>1, <1>5, <2>1, <2>2 DEF Under
    <3>. QED BY <3>1, <3>2
  <2>3. CASE Len(r) = Len(x)
    <3>1. \A k \in 1 .. Len(r) : r[k] = x[k] BY <1>1, <1>5, <2>3 DEF Under, Below
    <3>. QED BY <2>3, <3>1, SamePlace
  <2>4. CASE Len(r) < Len(x)
    <3>1. Below(r, x) /\ x[Len(r) + 1] = m[Len(r) + 1]
      BY <1>1, <1>5, <2>4, SMTT(20) DEF Under, Below
    <3>2. x[Len(r) + 1] \in {"left", "right"} BY <2>4, PlaceTypes
    <3>. QED BY <1>5, <2>1, <2>4, <3>1, <3>2 DEF Under
  <2>. QED BY <2>2, <2>3, <2>4
\* What lies elsewhere than to the right of x, and m itself.
<1>6. CASE y = m BY <1>1, <1>2, <1>3, <1>4, <1>6
<1>7. CASE Below(y, m) /\ y # m
  <2>1. CASE Under(x, "right", y) /\ Under(y, "left", m)
    BY <1>1, <1>2, <1>3, <1>4, <2>1 DEF Sorted
  <2>2. CASE y = x
    <3>1. ~ Under(x, "right", y) BY <2>2 DEF Under
    <3>. QED BY <1>2, <1>3, <1>4, <2>2, <3>1
  <2>3. ASSUME NEW side \in {"left", "right"}, Under(y, side, x), Under(y, side, m)
        PROVE  /\ t[y].key <= t[x].key \/ t[y].key >= t[m].key
               /\ ~ Under(x, "right", y)
    BY <1>1, <1>2, <2>3 DEF Sorted, Under
  <2>. QED BY <1>3, <1>4, <1>5, <1>7, <2>1, <2>2, <2>3
<1>8. CASE Below(m, y) /\ y # m
  <2>1. Under(m, y[Len(m) + 1], y) /\ y[Len(m) + 1] \in {"left", "right"}
    BY <1>8, StrictlyBelow
  <2>2. y[Len(m) + 1] # "left"
    <3>. SUFFICES ASSUME y[Len(m) + 1] = "left" PROVE FALSE OBVIOUS
    <3>. DEFINE a == Append(m, "left")
    <3>1. /\ a \in Place /\ Len(a) = Len(m) + 1 /\ a[Len(m) + 1] = "left"
          /\ \A k \in 1 .. Len(m) : a[k] = m[k]
      BY Child
    <3>2. a \notin DOMAIN t BY <1>1
    <3>. HIDE DEF a
    <3>3. Below(a, y) BY <2>1, <3>1 DEF Below, Under
    <3>. QED BY <3>1, <3>2, <3>3 DEF Shape
  <2>3. t[y].key > t[m].key BY <1>1, <2>1, <2>2 DEF Sorted
  <2>. QED BY <1>1, <1>2, <1>3, <1>4, <2>3
<1>9. ASSUME NEW r \in Place, Part(m, y, r)
      PROVE  /\ t[y].key <= t[x].key \/ t[y].key >= t[m].key
             /\ Under(x, "right", y) => t[y].key > t[m].key
  <2>1. r \in DOMAIN t /\ Below(r, m) /\ r # m BY <1>1, <1>9 DEF Part, Shape
  <2>2. /\ Under(r, y[Len(r) + 1], y) /\ y[Len(r) + 1] \in {"left", "right"}
        /\ y[Len(r) + 1] # m[Len(r) + 1]
    BY <1>9, PlaceTypes DEF Part, Under
  <2>3. t[r].key \in Nat /\ t[y].key \in Nat /\ t[m].key \in Nat /\ t[x].key \in Nat
    BY <1>1, <1>2, <2>1
  <2>4. CASE Under(x, "right", r) /\ Under(r, "left", m)
    <3>1. y[Len(r) + 1] = "right" BY <2>2, <2>4 DEF Under
    <3>2. t[y].key > t[r].key /\ t[m].key < t[r].key BY <1>1, <2>1, <2>2, <2>4, <3>1 DEF Sorted
    <3>. QED BY <2>3, <3>2
  <2>5. CASE r = x
    <3>1. y[Len(x) + 1] = "left" BY <1>1, <2>2, <2>5 DEF Under
    <3>2. ~ Under(x, "right", y) BY <3>1 DEF Under
    <3>3. t[y].key < t[x].key BY <2>1, <2>2, <2>5, <3>1 DEF Sorted
    <3>. QED BY <2>3, <3>2, <3>3
  <2>6. ASSUME NEW side \in {"left", "right"}, Under(r, side, x), Under(r, side, m)
        PROVE  /\ t[y].key <= t[x].key \/ t[y].key >= t[m].key
               /\ ~ Under(x, "right", y)
    <3>1. ~ Under(x, "right", y)
      <4>. SUFFICES ASSUME Under(x, "right", y) PROVE FALSE OBVIOUS
      <4>1. Len(r) + 1 \in 1 .. Len(x) BY <2>6, PlaceTypes DEF Under
      <4>2. y[Len(r) + 1] = x[Len(r) + 1] BY <4>1 DEF Under, Below
      <4>. QED BY <2>2, <2>6, <4>2 DEF Under
    <3>2. m[Len(r) + 1] = side BY <2>6 DEF Under
    <3>3. CASE side = "left"
      <4>1. Under(r, "right", y) BY <2>2, <3>2, <3>3
      <4>2. t[y].key > t[r].key /\ t[m].key < t[r].key BY <1>1, <2>1, <2>6, <3>3, <4>1 DEF Sorted
      <4>. QED BY <2>3, <3>1, <4>2
    <3>4. CASE side = "right"
      <4>1. Under(r, "left", y) BY <2>2, <3>2, <3>4
      <4>2. t[y].key < t[r].key /\ t[x].key > t[r].key BY <1>1, <2>1, <2>6, <3>4, <4>1 DEF Sorted
      <4>. QED BY <2>3, <3>1, <4>2
    <3>. QED BY <3>3, <3>4
  <2>. QED BY <1>5, <2>1, <2>4, <2>5, <2>6
<1>. QED BY <1>3, <1>4, <1>6, <1>7, <1>8, <1>9, Parting

----------------------------------------------------------------------------
\* tree_node_delete.

LEMMA CopyTypes ==
  ASSUME NEW v \in Value
  PROVE  /\ SMTP_connection_copy(v) \in Value /\ SMTP_connection_copy(v).addr = v.addr
         /\ SMTP_connection_copy(v).mails = v.mails
         /\ SMTP_connection_copy(v).buffer = IF v.buffer = "none" THEN "none" ELSE "torn"
         /\ SMTP_connection_copy(v).times = IF v.times = "none" THEN "none" ELSE "lost"
BY DEF SMTP_connection_copy, Value

\* The node that is left of the one at y.
Left(t, x, m, y) ==
  IF y = m THEN [key |-> t[m].key, value |-> SMTP_connection_copy(t[m].value)] ELSE t[y]

\* A node with two children: its successor's node comes in its place.
LEMMA DeletedTwo ==
  ASSUME NEW t, IsTree(t), NEW x \in DOMAIN t, TwoChildren(t, x),
         NEW m, m = min_value_node(t, Append(x, "right")),
         NEW u, u = tree_node_delete(t, t[x].key)
  PROVE  /\ IsTree(u) /\ Cardinality(DOMAIN u) = Cardinality(DOMAIN t) - 1
         /\ m \in DOMAIN t /\ m # x
         /\ \A y \in DOMAIN t \ {x} : \E q \in DOMAIN u : u[q] = Left(t, x, m, y)
         /\ \A q \in DOMAIN u : \E y \in DOMAIN t \ {x} : u[q] = Left(t, x, m, y)
<1>. Shape(t) /\ Sorted(t, DOMAIN t) BY DEF IsTree
<1>. x \in Place /\ DOMAIN t \subseteq Place BY DEF Shape
<1>. DEFINE right == Append(x, "right")
            n     == [key |-> t[m].key, value |-> SMTP_connection_copy(t[m].value)]
            moved == [t EXCEPT ![x] = n]
<1>1. /\ m \in DOMAIN t /\ Under(x, "right", m) /\ Append(m, "left") \notin DOMAIN t
      /\ Below(right, m)
  BY Leftmost
<1>2. m # x /\ right \in Place /\ right # x /\ m \in Place
  <2>1. m # x /\ m \in Place BY <1>1, PlaceTypes DEF Under
  <2>2. right \in Place /\ Len(right) = Len(x) + 1 BY Child
  <2>3. right # x BY <2>2, PlaceTypes
  <2>. QED BY <2>1, <2>2, <2>3
<1>3. tree_search(t, << >>, t[x].key) = x BY TreeFinds
<1>4. u = unlink(moved, tree_search(moved, right, t[m].key))
  <2>1. tree_node_delete(t, t[x].key) =
          IF TwoChildren(t, x) THEN unlink(moved, tree_search(moved, right, t[m].key))
          ELSE unlink(t, x)
    BY <1>3 DEF tree_node_delete
  <2>. QED BY <2>1
<1>5. n \in Nodes /\ n.key = t[m].key /\ n.value.addr = n.key
  BY <1>1, NodeTypes, CopyTypes DEF Nodes
<1>. HIDE DEF n
<1>6. /\ DOMAIN moved = DOMAIN t /\ moved[x] = n /\ moved \in [DOMAIN t -> Nodes]
      /\ \A q \in DOMAIN t \ {x} : moved[q] = t[q]
  BY <1>5 DEF Shape
<1>. HIDE DEF moved
<1>7. Shape(moved) BY <1>5, <1>6 DEF Shape
<1>8. tree_search(moved, right, t[m].key) = m
  <2>1. ASSUME NEW q \in DOMAIN t, Below(right, q), q # m
        PROVE  /\ moved[q].key # t[m].key
               /\ Under(q, "left", m) => t[m].key < moved[q].key
               /\ Under(q, "right", m) => t[m].key > moved[q].key
    <3>1. q # x
      <4>1. Len(x) < Len(right) /\ Len(right) <= Len(q) BY <2>1, Child, PlaceTypes DEF Below
      <4>. QED BY <4>1, PlaceTypes
    <3>2. moved[q] = t[q] BY <1>6, <3>1
    <3>3. t[q].key # t[m].key BY <1>1, <2>1, OneNode
    <3>. QED BY <1>1, <3>2, <3>3 DEF Sorted
  <2>2. moved[m] = t[m] BY <1>1, <1>2, <1>6
  <2>. HIDE DEF right
  <2>. QED BY <1>1, <1>2, <1>6, <1>7, <2>1, <2>2, SearchFinds
<1>9. ~ TwoChildren(moved, m) BY <1>1, <1>6 DEF TwoChildren
<1>10. Sorted(moved, DOMAIN moved \ {m})
  <2>1. \A p \in DOMAIN t : t[p].key \in Nat BY NodeTypes
  <2>2. ASSUME NEW p \in DOMAIN t \ {m}, NEW q \in DOMAIN t \ {m}
        PROVE  /\ Under(p, "left", q) => moved[q].key < moved[p].key
               /\ Under(p, "right", q) => moved[q].key > moved[p].key
    <3>1. CASE p # x /\ q # x BY <1>6, <3>1 DEF Sorted
    <3>2. CASE p = x
      <4>1. q = x \/ (moved[q] = t[q] /\ q # x) BY <1>6
      <4>2. moved[p].key = t[m].key BY <1>5, <1>6, <3>2
      <4>3. /\ Under(x, "right", q) => t[q].key > t[m].key
            /\ Under(x, "left", q) => t[q].key < t[m].key
        BY Successor
      <4>4. ~ Under(x, "left", x) /\ ~ Under(x, "right", x) BY PlaceTypes DEF Under
      <4>. QED BY <3>2, <4>1, <4>2, <4>3, <4>4
    <3>3. CASE p # x /\ q = x
      <4>1. moved[q].key = t[m].key /\ moved[p] = t[p] BY <1>5, <1>6, <3>3
      <4>2. ASSUME NEW side, Under(p, side, x) PROVE Under(p, side, m)
        BY <1>1, <1>2, <4>2, PlaceTypes DEF Under, Below
      <4>. QED BY <1>1, <3>3, <4>1, <4>2 DEF Sorted
    <3>. QED BY <3>1, <3>2, <3>3
  <2>. QED BY <1>6, <2>2 DEF Sorted
<1>11. u = unlink(moved, m) BY <1>4, <1>8
<1>12. /\ IsTree(u) /\ Cardinality(DOMAIN u) = Cardinality(DOMAIN moved) - 1
       /\ \A y \in DOMAIN moved \ {m} : Up(m, y) \in DOMAIN u /\ u[Up(m, y)] = moved[y]
       /\ \A q \in DOMAIN u : \E y \in DOMAIN moved \ {m} : q = Up(m, y)
  BY <1>1, <1>6, <1>7, <1>9, <1>10, <1>11, Unlinked
<1>13. ASSUME NEW y \in DOMAIN t \ {x} PROVE \E q \in DOMAIN u : u[q] = Left(t, x, m, y)
  <2>1. CASE y = m
    <3>1. u[Up(m, x)] = n /\ Up(m, x) \in DOMAIN u BY <1>2, <1>6, <1>12
    <3>. QED BY <2>1, <3>1 DEF Left, n
  <2>2. CASE y # m
    <3>1. u[Up(m, y)] = t[y] /\ Up(m, y) \in DOMAIN u BY <1>6, <1>12, <2>2
    <3>. QED BY <2>2, <3>1 DEF Left
  <2>. QED BY <2>1, <2>2
<1>14. ASSUME NEW q \in DOMAIN u PROVE \E y \in DOMAIN t \ {x} : u[q] = Left(t, x, m, y)
  <2>1. PICK y \in DOMAIN t \ {m} : q = Up(m, y) BY <1>6, <1>12
  <2>2. u[q] = moved[y] BY <1>6, <1>12, <2>1
  <2>3. CASE y = x
    <3>1. u[q] = Left(t, x, m, m) BY <1>6, <2>2, <2>3 DEF Left, n
    <3>. QED BY <1>1, <1>2, <3>1
  <2>4. CASE y # x
    <3>1. u[q] = Left(t, x, m, y) BY <1>6, <2>1, <2>2, <2>4 DEF Left
    <3>. QED BY <2>4, <3>1
  <2>. QED BY <2>3, <2>4
<1>. QED BY <1>1, <1>2, <1>6, <1>12, <1>13, <1>14

LEMMA DeletedOne ==
  ASSUME NEW t, IsTree(t), NEW x \in DOMAIN t, ~ TwoChildren(t, x),
         NEW u, u = tree_node_delete(t, t[x].key)
  PROVE  /\ IsTree(u) /\ Cardinality(DOMAIN u) = Cardinality(DOMAIN t) - 1
         /\ \A y \in DOMAIN t \ {x} : \E q \in DOMAIN u : u[q] = t[y]
         /\ \A q \in DOMAIN u : \E y \in DOMAIN t \ {x} : u[q] = t[y]
<1>. Shape(t) /\ Sorted(t, DOMAIN t) BY DEF IsTree
<1>1. tree_search(t, << >>, t[x].key) = x BY TreeFinds
<1>2. u = unlink(t, x) BY <1>1 DEF tree_node_delete
<1>3. Sorted(t, DOMAIN t \ {x}) BY DEF Sorted
<1>. QED BY <1>2, <1>3, Unlinked

----------------------------------------------------------------------------
\* The tree as a map.

At(t, h) == t[CHOOSE p \in DOMAIN t : t[p].key = h]

LEMMA Holds ==
  ASSUME NEW t, IsTree(t), NEW p \in DOMAIN t
  PROVE  At(t, t[p].key) = t[p] /\ t[p].key \in Keys(t)
<1>1. \A q \in DOMAIN t : t[q].key = t[p].key => q = p BY OneNode DEF IsTree
<1>2. (CHOOSE q \in DOMAIN t : t[q].key = t[p].key) = p BY <1>1
<1>. QED BY <1>2 DEF At, Keys

LEMMA Lookup ==
  ASSUME NEW t, IsTree(t), NEW h \in Keys(t)
  PROVE  /\ At(t, h) \in Nodes /\ At(t, h).key = h /\ At(t, h).value.addr = h
         /\ At(t, h).value \in Value /\ h \in Hosts /\ h \in Nat
         /\ Found(t, h) /\ ConnectionOf(t, h) = At(t, h).value
<1>1. PICK p \in DOMAIN t : t[p].key = h BY DEF Keys
<1>2. At(t, h) = t[p] BY <1>1, Holds
<1>3. tree_search(t, << >>, h) = p BY <1>1, TreeFinds
<1>4. Shape(t) BY DEF IsTree
<1>. QED BY <1>1, <1>2, <1>3, <1>4, NodeTypes DEF Found, ConnectionOf

LEMMA FoundOnly ==
  ASSUME NEW t, IsTree(t), NEW h \in Hosts
  PROVE  Found(t, h) <=> h \in Keys(t)
BY Lookup, TreeMisses DEF Found

LEMMA KeysCounted ==
  ASSUME NEW t, IsTree(t)
  PROVE  IsFiniteSet(Keys(t)) /\ Cardinality(Keys(t)) = Cardinality(DOMAIN t)
<1>. DEFINE f == [p \in DOMAIN t |-> t[p].key]
<1>1. f \in [DOMAIN t -> Keys(t)] BY DEF Keys
<1>2. \A p, q \in DOMAIN t : f[p] = f[q] => p = q BY OneNode DEF IsTree
<1>3. \A h \in Keys(t) : \E p \in DOMAIN t : f[p] = h BY DEF Keys
<1>. HIDE DEF f
<1>4. f \in Bijection(DOMAIN t, Keys(t))
  BY <1>1, <1>2, <1>3 DEF Bijection, Injection, Surjection, IsInjective
<1>5. ExistsBijection(DOMAIN t, Keys(t)) BY <1>4 DEF ExistsBijection
<1>6. IsFiniteSet(DOMAIN t) BY DEF IsTree, Shape
<1>. QED BY <1>5, <1>6, FS_Bijection

\* get_SMTP_connections gets every connection once.
LEMMA Gathered ==
  ASSUME NEW t, IsTree(t), NEW a, a = tree_nodes_to_array(t)
  PROVE  /\ a \in Seq(Hosts) /\ Len(a) = Cardinality(DOMAIN t)
         /\ DOMAIN a = 1 .. Cardinality(DOMAIN t)
         /\ \A k \in DOMAIN a : a[k] \in Keys(t)
         /\ \A j, k \in DOMAIN a : a[j] = a[k] => j = k
         /\ \A h \in Keys(t) : \E k \in DOMAIN a : a[k] = h
<1>. DEFINE n == Cardinality(DOMAIN t)
            s == CHOOSE w \in [1 .. n -> DOMAIN t] :
                   \A j, k \in 1 .. n : j < k => Before(w[j], w[k])
<1>. Shape(t) /\ IsFiniteSet(DOMAIN t) /\ DOMAIN t \subseteq Place BY DEF IsTree, Shape
<1>0. n \in Nat BY FS_CardinalityType
<1>1. a = [k \in 1 .. n |-> t[s[k]].value.addr] BY DEF tree_nodes_to_array
<1>2. Lists(s, DOMAIN t)
  <2>1. PICK w : Lists(w, DOMAIN t) BY Listed
  <2>2. w \in [1 .. n -> DOMAIN t] /\ \A j, k \in 1 .. n : j < k => Before(w[j], w[k])
    BY <2>1 DEF Lists
  <2>3. s \in [1 .. n -> DOMAIN t] /\ \A j, k \in 1 .. n : j < k => Before(s[j], s[k])
    BY <2>2
  <2>. QED BY <2>3 DEF Lists
<1>. HIDE DEF s
<1>3. \A k \in 1 .. n : s[k] \in DOMAIN t BY <1>2 DEF Lists
<1>4. \A k \in 1 .. n : a[k] = t[s[k]].key /\ a[k] \in Hosts /\ a[k] \in Keys(t)
  BY <1>1, <1>3, NodeTypes DEF Keys
<1>5. DOMAIN a = 1 .. n /\ a \in [1 .. n -> Hosts] BY <1>1, <1>4
<1>6. a \in Seq(Hosts) /\ Len(a) = n BY <1>0, <1>5
<1>7. ASSUME NEW j \in 1 .. n, NEW k \in 1 .. n, a[j] = a[k] PROVE j = k
  <2>1. s[j] = s[k] BY <1>3, <1>4, <1>7, OneNode DEF IsTree
  <2>2. ~ Before(s[j], s[k]) /\ ~ Before(s[k], s[j]) BY <1>3, <2>1, BeforeStrict
  <2>3. ~ (j < k) /\ ~ (k < j) BY <1>2, <2>2 DEF Lists
  <2>. QED BY <2>3
<1>8. \A h \in Keys(t) : \E k \in 1 .. n : a[k] = h
  <2>1. a \in Injection(1 .. n, Keys(t))
    BY <1>1, <1>4, <1>7 DEF Injection, IsInjective
  <2>2. IsFiniteSet(Keys(t)) /\ Cardinality(Keys(t)) = n BY KeysCounted
  <2>3. Cardinality(1 .. n) = n BY <1>0, FS_Interval
  <2>4. a \in Surjection(1 .. n, Keys(t)) BY <2>1, <2>2, <2>3, FS_Injection
  <2>. QED BY <2>4 DEF Surjection
<1>. QED BY <1>4, <1>5, <1>6, <1>7, <1>8

\* A write through a pointer changes one connection.
LEMMA Written ==
  ASSUME NEW t, IsTree(t), NEW v \in Value, v.addr \in Keys(t), NEW u, u = Deref(t, v)
  PROVE  /\ IsTree(u) /\ DOMAIN u = DOMAIN t /\ Keys(u) = Keys(t)
         /\ \A h \in Keys(t) : At(u, h).value = IF h = v.addr THEN v ELSE At(t, h).value
<1>. Shape(t) /\ Sorted(t, DOMAIN t) BY DEF IsTree
<1>1. DOMAIN u = DOMAIN t BY DEF Deref
<1>2. ASSUME NEW p \in DOMAIN t
      PROVE  /\ u[p] \in Nodes /\ u[p].key = t[p].key
             /\ u[p].value = IF t[p].key = v.addr THEN v ELSE t[p].value
  BY NodeTypes DEF Deref, Nodes
<1>3. u \in [DOMAIN t -> Nodes]
  <2>1. u = [p \in DOMAIN t |-> u[p]] BY DEF Deref
  <2>. QED BY <1>2, <2>1
<1>4. Shape(u) BY <1>1, <1>2, <1>3 DEF Shape
<1>5. IsTree(u) BY <1>1, <1>2, <1>4 DEF IsTree, Sorted
<1>6. Keys(u) = Keys(t) BY <1>1, <1>2 DEF Keys
<1>7. ASSUME NEW h \in Keys(t) PROVE At(u, h).value = IF h = v.addr THEN v ELSE At(t, h).value
  <2>1. PICK p \in DOMAIN t : t[p].key = h BY DEF Keys
  <2>2. At(t, h) = t[p] /\ At(u, h) = u[p] BY <1>1, <1>2, <1>5, <2>1, Holds
  <2>. QED BY <1>2, <2>1, <2>2
<1>. QED BY <1>1, <1>5, <1>6, <1>7

\* tree_node_insert, with a connection nothing has happened to.
Fresh(v, key) == v \in Value /\ v.addr = key /\ v.buffer = "none" /\ v.times = "none"

LEMMA InsertedMap ==
  ASSUME NEW t, IsTree(t), NEW key \in Hosts, key \notin Keys(t),
         NEW v, Fresh(v, key),
         NEW u, u = tree_node_insert(t, key, v)
  PROVE  /\ IsTree(u) /\ Keys(u) = Keys(t) \union {key}
         /\ Cardinality(DOMAIN u) = Cardinality(DOMAIN t) + 1
         /\ At(u, key).value = v
         /\ \A h \in Keys(t) : At(u, h) = At(t, h)
<1>1. PICK p : p = tree_search(t, << >>, key) OBVIOUS
<1>2. /\ IsTree(u) /\ DOMAIN u = DOMAIN t \union {p} /\ p \notin DOMAIN t
      /\ Cardinality(DOMAIN u) = Cardinality(DOMAIN t) + 1
      /\ u[p].key = key /\ u[p].value = v
      /\ \A q \in DOMAIN t : u[q] = t[q]
  <2>. p = tree_search(t, << >>, key) BY <1>1
  <2>. Shape(t) /\ Sorted(t, DOMAIN t) BY DEF IsTree
  <2>. DOMAIN t \subseteq Place BY DEF Shape
  <2>. key \in Nat BY TreeAssumption
  <2>1. /\ p \in Place /\ p \notin DOMAIN t /\ Walked(t, << >>, key, p)
        /\ \A q \in Place : Below(q, p) /\ q # p => q \in DOMAIN t
    BY TreeMisses
  <2>. v \in Value /\ v.addr = key BY DEF Fresh
  <2>2. SMTP_connection_copy(v) = v BY DEF SMTP_connection_copy, Value, Fresh
  <2>3. u = [q \in DOMAIN t \union {p} |->
               IF q = p THEN [key |-> key, value |-> v] ELSE t[q]]
    BY <2>2 DEF tree_node_insert, create_node
  <2>4. /\ DOMAIN u = DOMAIN t \union {p} /\ u[p] = [key |-> key, value |-> v]
        /\ \A q \in DOMAIN t : u[q] = t[q]
    BY <2>1, <2>3
  <2>5. IsFiniteSet(DOMAIN u) /\ Cardinality(DOMAIN u) = Cardinality(DOMAIN t) + 1
    BY <2>1, <2>4, FS_AddElement DEF Shape
  <2>6. u \in [DOMAIN u -> Nodes] BY <2>3, <2>4 DEF Shape, Nodes
  <2>7. \A x \in Place, q \in DOMAIN u : Below(x, q) => x \in DOMAIN u
    BY <2>1, <2>4 DEF Shape
  <2>8. \A q \in DOMAIN u : u[q].value.addr = u[q].key BY <2>4 DEF Shape
  <2>9. Sorted(u, DOMAIN u)
    <3>1. ASSUME NEW x \in DOMAIN u, NEW y \in DOMAIN u
          PROVE  /\ Under(x, "left", y) => u[y].key < u[x].key
                 /\ Under(x, "right", y) => u[y].key > u[x].key
      <4>1. CASE x \in DOMAIN t /\ y \in DOMAIN t BY <2>4, <4>1 DEF Sorted
      <4>2. CASE x \in DOMAIN t /\ y = p
        <5>1. ASSUME NEW side, Under(x, side, p)
              PROVE  t[x].key # key /\ side = IF key < t[x].key THEN "left" ELSE "right"
          BY <2>1, <4>2, <5>1, PlaceTypes DEF Walked, Under
        <5>2. t[x].key \in Nat BY <4>2, NodeTypes
        <5>3. u[x] = t[x] /\ u[y].key = key BY <2>4, <4>2
        <5>. QED BY <4>2, <5>1, <5>2, <5>3
      <4>3. CASE x = p
        <5>1. ~ Under(p, "left", y) /\ ~ Under(p, "right", y)
          BY <2>1, <2>4 DEF Under, Shape
        <5>. QED BY <4>3, <5>1
      <4>. QED BY <2>4, <4>1, <4>2, <4>3
    <3>. QED BY <3>1 DEF Sorted
  <2>. QED BY <2>1, <2>4, <2>5, <2>6, <2>7, <2>8, <2>9 DEF IsTree, Shape
<1>3. Keys(u) = Keys(t) \union {key} BY <1>2 DEF Keys
<1>4. At(u, key).value = v
  <2>1. p \in DOMAIN u BY <1>2
  <2>. QED BY <1>2, <2>1, Holds
<1>5. ASSUME NEW h \in Keys(t) PROVE At(u, h) = At(t, h)
  <2>1. PICK q \in DOMAIN t : t[q].key = h BY DEF Keys
  <2>2. At(t, h) = t[q] /\ At(u, h) = u[q] BY <1>2, <2>1, Holds
  <2>. QED BY <1>2, <2>2
<1>. QED BY <1>2, <1>3, <1>4, <1>5

\* What tree_delete leaves of the map: the next host's connection may be a copy.
LEMMA DeletedMap ==
  ASSUME NEW t, IsTree(t), NEW h \in Keys(t), NEW u, u = tree_node_delete(t, h),
         NEW x, x = tree_search(t, << >>, h),
         NEW m, m = min_value_node(t, Append(x, "right"))
  PROVE  /\ IsTree(u) /\ Cardinality(DOMAIN u) = Cardinality(DOMAIN t) - 1
         /\ Keys(u) = Keys(t) \ {h}
         /\ ~ TwoChildren(t, x) => \A g \in Keys(u) : At(u, g) = At(t, g)
         /\ TwoChildren(t, x) =>
              /\ m \in DOMAIN t /\ t[m].value.addr = t[m].key
              /\ t[m].key \in Keys(u) /\ t[m].key > h
              /\ \A g \in Keys(t) : g <= h \/ g >= t[m].key
              /\ \A g \in Keys(u) : At(u, g).value =
                   IF g = t[m].key THEN SMTP_connection_copy(At(t, g).value) ELSE At(t, g).value
<1>. Shape(t) BY DEF IsTree
<1>1. PICK y \in DOMAIN t : t[y].key = h BY DEF Keys
<1>2. x = y BY <1>1, TreeFinds
<1>3. x \in DOMAIN t /\ t[x].key = h BY <1>1, <1>2
<1>4. \A q \in DOMAIN t \ {x} : t[q].key # h BY <1>3, OneNode DEF IsTree
<1>5. CASE ~ TwoChildren(t, x)
  <2>1. /\ IsTree(u) /\ Cardinality(DOMAIN u) = Cardinality(DOMAIN t) - 1
        /\ \A z \in DOMAIN t \ {x} : \E q \in DOMAIN u : u[q] = t[z]
        /\ \A q \in DOMAIN u : \E z \in DOMAIN t \ {x} : u[q] = t[z]
    BY <1>3, <1>5, DeletedOne, SMTT(20)
  <2>2. Keys(u) = Keys(t) \ {h}
    <3>1. ASSUME NEW g \in Keys(u) PROVE g \in Keys(t) \ {h}
      <4>1. PICK q \in DOMAIN u : u[q].key = g BY DEF Keys
      <4>2. PICK z \in DOMAIN t \ {x} : u[q] = t[z] BY <2>1
      <4>. QED BY <1>4, <4>1, <4>2 DEF Keys
    <3>2. ASSUME NEW g \in Keys(t) \ {h} PROVE g \in Keys(u)
      <4>1. PICK z \in DOMAIN t : t[z].key = g BY DEF Keys
      <4>2. z # x BY <1>3, <4>1
      <4>3. PICK q \in DOMAIN u : u[q] = t[z] BY <2>1, <4>2
      <4>. QED BY <4>1, <4>3 DEF Keys
    <3>. QED BY <3>1, <3>2
  <2>3. ASSUME NEW g \in Keys(u) PROVE At(u, g) = At(t, g)
    <3>1. PICK q \in DOMAIN u : u[q].key = g BY DEF Keys
    <3>2. PICK z \in DOMAIN t \ {x} : u[q] = t[z] BY <2>1
    <3>3. At(u, g) = u[q] /\ At(t, g) = t[z] BY <2>1, <3>1, <3>2, Holds
    <3>. QED BY <3>2, <3>3
  <2>. QED BY <1>5, <2>1, <2>2, <2>3
<1>6. CASE TwoChildren(t, x)
  <2>1. /\ IsTree(u) /\ Cardinality(DOMAIN u) = Cardinality(DOMAIN t) - 1
        /\ m \in DOMAIN t /\ m # x
        /\ \A z \in DOMAIN t \ {x} : \E q \in DOMAIN u : u[q] = Left(t, x, m, z)
        /\ \A q \in DOMAIN u : \E z \in DOMAIN t \ {x} : u[q] = Left(t, x, m, z)
    BY <1>3, <1>6, DeletedTwo
  <2>2. ASSUME NEW z \in DOMAIN t PROVE Left(t, x, m, z).key = t[z].key
    BY DEF Left
  <2>3. Keys(u) = Keys(t) \ {h}
    <3>1. ASSUME NEW g \in Keys(u) PROVE g \in Keys(t) \ {h}
      <4>1. PICK q \in DOMAIN u : u[q].key = g BY DEF Keys
      <4>2. PICK z \in DOMAIN t \ {x} : u[q] = Left(t, x, m, z) BY <2>1
      <4>. QED BY <1>4, <2>2, <4>1, <4>2 DEF Keys
    <3>2. ASSUME NEW g \in Keys(t) \ {h} PROVE g \in Keys(u)
      <4>1. PICK z \in DOMAIN t : t[z].key = g BY DEF Keys
      <4>2. z # x BY <1>3, <4>1
      <4>3. PICK q \in DOMAIN u : u[q] = Left(t, x, m, z) BY <2>1, <4>2
      <4>. QED BY <2>2, <4>1, <4>3 DEF Keys
    <3>. QED BY <3>1, <3>2
  <2>4. ASSUME NEW g \in Keys(u)
        PROVE  At(u, g).value =
                 IF g = t[m].key THEN SMTP_connection_copy(At(t, g).value) ELSE At(t, g).value
    <3>1. PICK q \in DOMAIN u : u[q].key = g BY DEF Keys
    <3>2. PICK z \in DOMAIN t \ {x} : u[q] = Left(t, x, m, z) BY <2>1
    <3>3. At(u, g) = Left(t, x, m, z) BY <2>1, <3>1, <3>2, Holds
    <3>4. t[z].key = g BY <2>2, <3>1, <3>2
    <3>5. At(t, g) = t[z] BY <3>4, Holds
    <3>6. z = m <=> g = t[m].key BY <2>1, <3>4, OneNode DEF IsTree
    <3>. QED BY <3>3, <3>5, <3>6 DEF Left
  <2>5. t[m].value.addr = t[m].key /\ t[m].key \in Keys(t) BY <2>1, NodeTypes DEF Keys
  <2>6. t[m].key > h /\ \A z \in DOMAIN t : t[z].key <= h \/ t[z].key >= t[m].key
    BY <1>3, <1>6, Successor
  <2>7. \A g \in Keys(t) : g <= h \/ g >= t[m].key BY <2>6 DEF Keys
  <2>8. t[m].key \in Keys(u) BY <1>4, <2>1, <2>3, <2>5
  <2>. QED BY <1>6, <2>1, <2>3, <2>4, <2>5, <2>6, <2>7, <2>8
<1>. QED BY <1>5, <1>6

----------------------------------------------------------------------------
\* The invariant.

TreeInv == IsTree(root) /\ size = Cardinality(DOMAIN root) /\ size <= MaxSize

\* During a pass the pointers not yet used are of different hosts, all of them open.
PassInv ==
  pc = "pass" =>
    /\ conns \in Seq(Hosts) /\ i \in Nat \ {0}
    /\ \A j, k \in DOMAIN conns : conns[j] = conns[k] => j = k
    /\ \A k \in i .. Len(conns) : conns[k] \in Keys(root)

IInv == TreeInv /\ PassInv /\ StaleIsNext

LEMMA EmptyTree ==
  /\ IsTree(<< >>) /\ Cardinality(DOMAIN << >>) = 0 /\ Keys(<< >>) = {}
<1>1. DOMAIN << >> = {} OBVIOUS
<1>2. << >> \in [{} -> Nodes] OBVIOUS
<1>. QED BY <1>1, <1>2, FS_EmptySet DEF IsTree, Shape, Sorted, Keys

LEMMA InitTree == Init => IInv
<1>1. SUFFICES ASSUME Init PROVE IInv OBVIOUS
<1>2. TreeInv BY <1>1, EmptyTree, TreeAssumption DEF Init, TreeInv
<1>3. PassInv /\ StaleIsNext BY <1>1 DEF Init, PassInv, StaleIsNext
<1>. QED BY <1>2, <1>3 DEF IInv

\* The host whose turn it is has its node.
LEMMA HandledIsOpen ==
  ASSUME IInv, NEW h \in Hosts, Handles(h)
  PROVE  /\ IsTree(root) /\ h \in Keys(root) /\ pc = "pass" /\ i \in Nat \ {0}
         /\ i \in DOMAIN conns /\ h = conns[i] /\ h \notin freed /\ conns \in Seq(Hosts)
         /\ DOMAIN conns = 1 .. Len(conns) /\ Len(conns) \in Nat
         /\ \A k \in i + 1 .. Len(conns) :
              k \in i .. Len(conns) /\ conns[k] \in Keys(root) \ {h}
<1>1. /\ pc = "pass" /\ conns \in Seq(Hosts) /\ i \in Nat \ {0} /\ i <= Len(conns)
      /\ h = conns[i] /\ h \notin freed /\ IsTree(root)
      /\ \A j, k \in DOMAIN conns : conns[j] = conns[k] => j = k
      /\ \A k \in i .. Len(conns) : conns[k] \in Keys(root)
  BY DEF IInv, TreeInv, PassInv, Handles
<1>2. DOMAIN conns = 1 .. Len(conns) /\ Len(conns) \in Nat BY <1>1
<1>3. i \in DOMAIN conns /\ i \in i .. Len(conns) BY <1>1, <1>2
<1>4. ASSUME NEW k \in i + 1 .. Len(conns)
      PROVE  k \in i .. Len(conns) /\ conns[k] \in Keys(root) \ {h}
  <2>1. k \in i .. Len(conns) /\ k \in DOMAIN conns /\ k # i BY <1>1, <1>2
  <2>. QED BY <1>1, <1>3, <2>1
<1>. QED BY <1>1, <1>2, <1>3, <1>4

\* What client_fsm_step changes: the connection of its host.
LEMMA Served ==
  ASSUME IInv, NEW h \in Hosts, client_fsm_step(h)
  PROVE  \E v \in Value :
           /\ v.addr = h /\ (v.buffer = "torn" => At(root, h).value.buffer = "torn")
           /\ \/ /\ v.mails = At(root, h).value.mails
                 /\ v.times = "lost" => At(root, h).value.times = "lost"
              \/ /\ At(root, h).value.mails # << >> /\ v.times # "lost"
                 /\ v.mails = Tail(At(root, h).value.mails)
           /\ IsTree(root') /\ DOMAIN root' = DOMAIN root /\ Keys(root') = Keys(root)
           /\ \A g \in Keys(root) :
                At(root', g).value = IF g = h THEN v ELSE At(root, g).value
<1>1. Handles(h) BY DEF client_fsm_step
<1>2. IsTree(root) /\ h \in Keys(root) BY <1>1, HandledIsOpen
<1>3. Conn(h) = At(root, h).value /\ At(root, h).value \in Value
  BY <1>2, Lookup DEF Conn
<1>4. PICK mails \in {Conn(h).mails} \union
                        (IF Conn(h).mails = << >> THEN {} ELSE {Tail(Conn(h).mails)}) :
        \E buffer \in BufferAfter(h), times \in TimesAfter(h, mails) :
          root' = Deref(root, [addr |-> h, mails |-> mails, buffer |-> buffer,
                               times |-> times])
  BY DEF client_fsm_step
<1>5. PICK buffer \in BufferAfter(h), times \in TimesAfter(h, mails) :
        root' = Deref(root, [addr |-> h, mails |-> mails, buffer |-> buffer, times |-> times])
  BY <1>4
<1>6. \/ mails = At(root, h).value.mails
      \/ At(root, h).value.mails # << >> /\ mails = Tail(At(root, h).value.mails)
  BY <1>3, <1>4
<1>7. /\ At(root, h).value.mails \in Seq(Mails)
      /\ At(root, h).value.buffer \in {"none", "part", "torn"}
      /\ At(root, h).value.times \in {"none", "noted", "lost"}
  BY <1>3 DEF Value
<1>8. mails \in Seq(Mails) BY <1>6, <1>7, SMTT(20)
<1>9. /\ buffer \in {"none", "part", "torn"}
      /\ buffer = "torn" => At(root, h).value.buffer = "torn"
  BY <1>3, <1>4, <1>7 DEF BufferAfter
<1>10. /\ times \in {"none", "noted", "lost"}
       /\ times = "lost" => /\ At(root, h).value.times = "lost"
                            /\ mails = At(root, h).value.mails
  BY <1>3, <1>4, <1>7 DEF TimesAfter
<1>11. PICK v : v = [addr |-> h, mails |-> mails, buffer |-> buffer, times |-> times] OBVIOUS
<1>12. /\ v \in Value /\ v.addr = h /\ v.mails = mails /\ v.buffer = buffer
       /\ v.times = times
  BY <1>8, <1>9, <1>10, <1>11 DEF Value
<1>13. root' = Deref(root, v) BY <1>5, <1>11
<1>14. /\ IsTree(root') /\ DOMAIN root' = DOMAIN root /\ Keys(root') = Keys(root)
       /\ \A g \in Keys(root) :
            At(root', g).value = IF g = h THEN v ELSE At(root, g).value
  BY <1>2, <1>12, <1>13, Written
<1>15. \/ /\ v.mails = At(root, h).value.mails
          /\ v.times = "lost" => At(root, h).value.times = "lost"
       \/ /\ At(root, h).value.mails # << >> /\ v.times # "lost"
          /\ v.mails = Tail(At(root, h).value.mails)
  BY <1>6, <1>10, <1>12
<1>. QED BY <1>9, <1>12, <1>14, <1>15

\* What opening a connection changes: one more host, without mails.
LEMMA Opened ==
  ASSUME IInv, NEW h \in Hosts, h \notin Keys(root), size < MaxSize,
         NEW w, w = tree_node_insert(root, h, NewConnection(h))
  PROVE  /\ IsTree(w) /\ Keys(w) = Keys(root) \union {h}
         /\ size + 1 = Cardinality(DOMAIN w) /\ size + 1 <= MaxSize
         /\ At(w, h).value = NewConnection(h) /\ NewConnection(h) \in Value
         /\ NewConnection(h).mails = << >> /\ NewConnection(h).buffer = "none"
         /\ NewConnection(h).times = "none" /\ NewConnection(h).addr = h
         /\ \A g \in Keys(root) : At(w, g) = At(root, g)
<1>1. IsTree(root) /\ size = Cardinality(DOMAIN root) /\ size <= MaxSize
  BY DEF IInv, TreeInv
<1>2. /\ NewConnection(h) \in Value /\ NewConnection(h).addr = h
      /\ NewConnection(h).mails = << >> /\ NewConnection(h).buffer = "none"
      /\ NewConnection(h).times = "none"
  BY DEF NewConnection, Value
<1>. HIDE DEF NewConnection
<1>3. Fresh(NewConnection(h), h) BY <1>2 DEF Fresh
<1>4. /\ IsTree(w) /\ Keys(w) = Keys(root) \union {h}
      /\ Cardinality(DOMAIN w) = Cardinality(DOMAIN root) + 1
      /\ At(w, h).value = NewConnection(h)
      /\ \A g \in Keys(root) : At(w, g) = At(root, g)
  BY <1>1, <1>3, InsertedMap
<1>5. size \in Nat BY <1>1, FS_CardinalityType DEF IsTree, Shape
<1>6. size + 1 = Cardinality(DOMAIN w) /\ size + 1 <= MaxSize
  BY <1>1, <1>4, <1>5, TreeAssumption
<1>. QED BY <1>2, <1>4, <1>6

\* What process_parent_messages changes: a mail more for its host.
LEMMA Queued ==
  ASSUME IInv, NEW h \in Hosts, NEW m \in Mails, process_parent_messages(h, m)
  PROVE  /\ IsTree(root') /\ Keys(root') = Keys(root) \union {h}
         /\ size' = Cardinality(DOMAIN root') /\ size' <= MaxSize
         /\ \A g \in Keys(root) \ {h} : At(root', g).value = At(root, g).value
         /\ At(root', h).value.mails =
              IF h \in Keys(root) THEN Append(At(root, h).value.mails, m) ELSE << m >>
         /\ At(root', h).value.buffer =
              IF h \in Keys(root) THEN At(root, h).value.buffer ELSE "none"
         /\ At(root', h).value.times =
              IF h \in Keys(root) THEN At(root, h).value.times ELSE "none"
<1>. DEFINE conn  == NewConnection(h)
            tree  == IF Found(root, h) THEN root ELSE tree_node_insert(root, h, conn)
            v     == [ConnectionOf(tree, h) EXCEPT !.mails = Append(@, m)]
<1>1. IsTree(root) /\ size = Cardinality(DOMAIN root) /\ size <= MaxSize
  BY DEF IInv, TreeInv
<1>2. Found(root, h) <=> h \in Keys(root) BY <1>1, FoundOnly
<1>3. /\ root' = Deref(tree, v)
      /\ size' = IF Found(root, h) THEN size ELSE size + 1
      /\ ~ Found(root, h) => size < MaxSize
  BY DEF process_parent_messages
<1>5. CASE h \in Keys(root)
  <2>1. tree = root BY <1>2, <1>5
  <2>2. ConnectionOf(root, h) = At(root, h).value /\ At(root, h).value \in Value
        /\ At(root, h).value.addr = h
    BY <1>1, <1>5, Lookup
  <2>3. v = [At(root, h).value EXCEPT !.mails = Append(@, m)] BY <2>1, <2>2
  <2>4. /\ v \in Value /\ v.addr = h /\ v.mails = Append(At(root, h).value.mails, m)
        /\ v.buffer = At(root, h).value.buffer /\ v.times = At(root, h).value.times
    <3>. DEFINE ms == At(root, h).value.mails
    <3>1. ms \in Seq(Mails) BY <2>2 DEF Value
    <3>2. Append(ms, m) \in Seq(Mails) BY <3>1
    <3>3. v = [At(root, h).value EXCEPT !.mails = Append(ms, m)] BY <2>3
    <3>. HIDE DEF v, ms
    <3>4. At(root, h).value \in Value BY <2>2
    <3>5. v \in Value /\ v.mails = Append(ms, m) BY <3>2, <3>3, <3>4 DEF Value
    <3>6. v.addr = h /\ v.buffer = At(root, h).value.buffer /\ v.times = At(root, h).value.times
      BY <2>2, <3>3, <3>4 DEF Value
    <3>. QED BY <3>5, <3>6 DEF ms
  <2>5. root' = Deref(root, v) BY <1>3, <2>1
  <2>. HIDE DEF v
  <2>6. /\ IsTree(root') /\ DOMAIN root' = DOMAIN root /\ Keys(root') = Keys(root)
        /\ \A g \in Keys(root) :
             At(root', g).value = IF g = h THEN v ELSE At(root, g).value
    BY <1>1, <1>5, <2>4, <2>5, Written
  <2>7. size' = size BY <1>2, <1>3, <1>5
  <2>. QED BY <1>1, <1>5, <2>4, <2>6, <2>7
<1>6. CASE h \notin Keys(root)
  <2>1. PICK w : w = tree_node_insert(root, h, conn) OBVIOUS
  <2>2. tree = w BY <1>2, <1>6, <2>1
  <2>3. /\ IsTree(w) /\ Keys(w) = Keys(root) \union {h}
        /\ size + 1 = Cardinality(DOMAIN w) /\ size + 1 <= MaxSize
        /\ At(w, h).value = conn /\ conn \in Value
        /\ conn.mails = << >> /\ conn.buffer = "none" /\ conn.times = "none" /\ conn.addr = h
        /\ \A g \in Keys(root) : At(w, g) = At(root, g)
    BY <1>2, <1>3, <1>6, <2>1, Opened
  <2>. HIDE DEF conn
  <2>4. ConnectionOf(w, h) = conn BY <2>3, Lookup
  <2>5. v = [conn EXCEPT !.mails = Append(@, m)] BY <2>2, <2>4
  <2>6. Append(conn.mails, m) = << m >> /\ << m >> \in Seq(Mails) BY <2>3
  <2>7. v \in Value /\ v.addr = h /\ v.mails = << m >> /\ v.buffer = "none" /\ v.times = "none"
    <3>1. v = [conn EXCEPT !.mails = << m >>] BY <2>5, <2>6
    <3>. QED BY <2>3, <2>6, <3>1 DEF Value
  <2>8. root' = Deref(w, v) BY <1>3, <2>2
  <2>. HIDE DEF v, tree
  <2>9. /\ IsTree(root') /\ DOMAIN root' = DOMAIN w /\ Keys(root') = Keys(w)
        /\ \A g \in Keys(w) : At(root', g).value = IF g = h THEN v ELSE At(w, g).value
    BY <2>3, <2>7, <2>8, Written
  <2>10. size' = size + 1 BY <1>2, <1>3, <1>6
  <2>. QED BY <1>6, <2>3, <2>7, <2>9, <2>10
<1>. QED BY <1>5, <1>6

\* What tree_delete changes: its host is gone; a connection that was moved is a copy,
\* and the pointer to it is stale.
LEMMA Closed ==
  ASSUME IInv, NEW h \in Hosts, tree_delete(h)
  PROVE  /\ IsTree(root') /\ Keys(root') = Keys(root) \ {h}
         /\ size' = Cardinality(DOMAIN root') /\ size' <= MaxSize
         /\ \/ /\ freed' = freed \union {h}
               /\ \A g \in Keys(root') : At(root', g) = At(root, g)
            \/ \E n \in Keys(root') :
                 /\ freed' = freed \union {h, n}
                 /\ n > h /\ \A g \in Keys(root) : g <= h \/ g >= n
                 /\ \A g \in Keys(root') : At(root', g).value =
                      IF g = n THEN SMTP_connection_copy(At(root, g).value)
                      ELSE At(root, g).value
<1>1. PICK x : x = tree_search(root, << >>, h) OBVIOUS
<1>2. PICK m : m = min_value_node(root, Append(x, "right")) OBVIOUS
<1>3. /\ Handles(h) /\ root' = tree_node_delete(root, h) /\ size' = size - 1
      /\ freed' = freed \union {h} \union
                    (IF TwoChildren(root, x) THEN {root[m].value.addr} ELSE {})
  BY <1>1, <1>2 DEF tree_delete
<1>4. IsTree(root) /\ h \in Keys(root) BY <1>3, HandledIsOpen
<1>5. /\ IsTree(root') /\ Cardinality(DOMAIN root') = Cardinality(DOMAIN root) - 1
      /\ Keys(root') = Keys(root) \ {h}
      /\ ~ TwoChildren(root, x) => \A g \in Keys(root') : At(root', g) = At(root, g)
      /\ TwoChildren(root, x) =>
           /\ m \in DOMAIN root /\ root[m].value.addr = root[m].key
           /\ root[m].key \in Keys(root') /\ root[m].key > h
           /\ \A g \in Keys(root) : g <= h \/ g >= root[m].key
           /\ \A g \in Keys(root') : At(root', g).value =
                IF g = root[m].key THEN SMTP_connection_copy(At(root, g).value)
                ELSE At(root, g).value
  BY <1>1, <1>2, <1>3, <1>4, DeletedMap
<1>6. size = Cardinality(DOMAIN root) /\ size <= MaxSize /\ size \in Nat
  BY FS_CardinalityType DEF IInv, TreeInv, IsTree, Shape
<1>7. size' = Cardinality(DOMAIN root') /\ size' <= MaxSize
  BY <1>3, <1>5, <1>6, TreeAssumption
<1>8. CASE ~ TwoChildren(root, x)
  <2>1. freed' = freed \union {h} BY <1>3, <1>8
  <2>. QED BY <1>5, <1>7, <1>8, <2>1
<1>9. CASE TwoChildren(root, x)
  <2>1. PICK n : n = root[m].key OBVIOUS
  <2>2. freed' = freed \union {h, n} BY <1>3, <1>5, <1>9, <2>1
  <2>. QED BY <1>5, <1>7, <1>9, <2>1, <2>2
<1>. QED BY <1>8, <1>9

\* The invariant through tree_delete: the pointers that follow are of other hosts, and
\* the one that becomes stale is that of the next host.
LEMMA CloseKeeps ==
  ASSUME IInv, NEW h \in Hosts, tree_delete(h)
  PROVE  IInv'
<1>1. /\ IsTree(root') /\ Keys(root') = Keys(root) \ {h}
      /\ size' = Cardinality(DOMAIN root') /\ size' <= MaxSize
  BY Closed
<1>2. /\ Handles(h) /\ closed' = closed \union {h} /\ i' = i + 1
      /\ pc' = pc /\ conns' = conns
  BY DEF tree_delete
<1>3. /\ pc = "pass" /\ i \in Nat \ {0} /\ conns \in Seq(Hosts) /\ h \notin freed
      /\ DOMAIN conns = 1 .. Len(conns) /\ Len(conns) \in Nat
      /\ \A k \in i + 1 .. Len(conns) :
           k \in i .. Len(conns) /\ conns[k] \in Keys(root) \ {h}
  BY <1>2, HandledIsOpen
<1>4. TreeInv' BY <1>1 DEF TreeInv
<1>5. PassInv'
  <2>1. \A j, k \in DOMAIN conns : conns[j] = conns[k] => j = k
    BY <1>3 DEF IInv, PassInv
  <2>2. i' \in Nat \ {0} BY <1>2, <1>3
  <2>3. \A k \in i' .. Len(conns') : conns'[k] \in Keys(root') BY <1>1, <1>2, <1>3
  <2>. QED BY <1>2, <1>3, <2>1, <2>2, <2>3 DEF PassInv
<1>6. StaleIsNext'
  <2>1. ASSUME NEW k \in i + 1 .. Len(conns), conns[k] \in freed'
        PROVE  /\ conns[k] \in Keys(root')
               /\ \E c \in closed' : /\ c < conns[k]
                                    /\ \A x \in Keys(root') : x <= c \/ x >= conns[k]
    <3>1. conns[k] \in Keys(root) \ {h} /\ k \in i .. Len(conns) BY <1>3
    <3>2. CASE conns[k] \in freed
      <4>1. PICK c \in closed : c < conns[k] /\ \A x \in Keys(root) : x <= c \/ x >= conns[k]
        BY <1>3, <3>1, <3>2 DEF IInv, StaleIsNext
      <4>. QED BY <1>1, <1>2, <3>1, <4>1
    <3>3. CASE conns[k] \notin freed
      <4>1. PICK n \in Keys(root') : /\ freed' = freed \union {h, n}
                                     /\ n > h /\ \A g \in Keys(root) : g <= h \/ g >= n
        BY <2>1, <3>1, <3>3, Closed
      <4>2. conns[k] = n BY <2>1, <3>1, <3>3, <4>1
      <4>3. h < n BY <4>1
      <4>. QED BY <1>1, <1>2, <3>1, <4>1, <4>2, <4>3
    <3>. QED BY <3>2, <3>3
  <2>. QED BY <1>2, <2>1 DEF StaleIsNext
<1>. QED BY <1>4, <1>5, <1>6 DEF IInv

LEMMA ServeKeeps ==
  ASSUME IInv, NEW h \in Hosts, client_fsm_step(h)
  PROVE  IInv'
<1>1. IsTree(root') /\ DOMAIN root' = DOMAIN root /\ Keys(root') = Keys(root) BY Served
<1>2. /\ Handles(h) /\ i' = i + 1 /\ pc' = pc /\ size' = size /\ conns' = conns
      /\ freed' = freed /\ closed' = closed
  BY DEF client_fsm_step
<1>3. /\ pc = "pass" /\ i \in Nat \ {0} /\ conns \in Seq(Hosts) /\ Len(conns) \in Nat
      /\ \A k \in i + 1 .. Len(conns) :
           k \in i .. Len(conns) /\ conns[k] \in Keys(root) \ {h}
  BY <1>2, HandledIsOpen
<1>4. TreeInv' BY <1>1, <1>2 DEF IInv, TreeInv
<1>5. PassInv'
  <2>1. \A j, k \in DOMAIN conns : conns[j] = conns[k] => j = k
    BY <1>3 DEF IInv, PassInv
  <2>2. i' \in Nat \ {0} BY <1>2, <1>3
  <2>3. \A k \in i' .. Len(conns') : conns'[k] \in Keys(root') BY <1>1, <1>2, <1>3
  <2>. QED BY <1>2, <1>3, <2>1, <2>2, <2>3 DEF PassInv
<1>6. StaleIsNext' BY <1>1, <1>2, <1>3 DEF IInv, StaleIsNext
<1>. QED BY <1>4, <1>5, <1>6 DEF IInv

\* When the loop is over no pointer of the pass is left to be used.
LEMMA ParentKeeps ==
  ASSUME IInv, AtParent, UNCHANGED << pc, conns, i, freed, closed >>,
         IsTree(root'), size' = Cardinality(DOMAIN root'), size' <= MaxSize
  PROVE  IInv'
<1>2. /\ pc = "pass" /\ i > Len(conns) /\ pc' = pc /\ conns' = conns /\ i' = i
      /\ freed' = freed /\ closed' = closed
  BY DEF AtParent
<1>3. /\ conns \in Seq(Hosts) /\ i \in Nat \ {0} /\ Len(conns) \in Nat
      /\ \A j, k \in DOMAIN conns : conns[j] = conns[k] => j = k
  BY <1>2 DEF IInv, PassInv
<1>4. i' .. Len(conns') = {} BY <1>2, <1>3
<1>5. TreeInv' BY DEF TreeInv
<1>6. PassInv' BY <1>2, <1>3, <1>4 DEF PassInv
<1>7. StaleIsNext' BY <1>4 DEF StaleIsNext
<1>. QED BY <1>5, <1>6, <1>7 DEF IInv

LEMMA QueueKeeps ==
  ASSUME IInv, NEW h \in Hosts, NEW m \in Mails, process_parent_messages(h, m)
  PROVE  IInv'
<1>1. /\ IsTree(root') /\ size' = Cardinality(DOMAIN root') /\ size' <= MaxSize
  BY Queued
<1>2. AtParent /\ UNCHANGED << pc, conns, i, freed, closed >> BY DEF process_parent_messages
<1>. QED BY <1>1, <1>2, ParentKeeps

\* What OpenForNothing changes.
LEMMA OpenStep ==
  ASSUME IInv, NEW h \in Hosts, OpenForNothing(h)
  PROVE  /\ h \notin Keys(root) /\ Keys(root') = Keys(root) \union {h}
         /\ IsTree(root') /\ size' = Cardinality(DOMAIN root') /\ size' <= MaxSize
         /\ At(root', h).value = NewConnection(h)
         /\ \A g \in Keys(root) : At(root', g) = At(root, g)
<1>1. /\ ~ Found(root, h) /\ size < MaxSize /\ size' = size + 1
      /\ root' = tree_node_insert(root, h, NewConnection(h))
  BY DEF OpenForNothing
<1>2. h \notin Keys(root) BY <1>1, FoundOnly DEF IInv, TreeInv
<1>. QED BY <1>1, <1>2, Opened

LEMMA OpenKeeps ==
  ASSUME IInv, NEW h \in Hosts, OpenForNothing(h)
  PROVE  IInv'
<1>1. /\ IsTree(root') /\ size' = Cardinality(DOMAIN root') /\ size' <= MaxSize
  BY OpenStep
<1>2. AtParent /\ UNCHANGED << pc, conns, i, freed, closed >> BY DEF OpenForNothing
<1>. QED BY <1>1, <1>2, ParentKeeps

LEMMA StartKeeps ==
  ASSUME IInv, StartPass
  PROVE  IInv'
<1>1. /\ pc' = "pass" /\ conns' = tree_nodes_to_array(root) /\ i' = 1
      /\ freed' = {} /\ root' = root /\ size' = size
  BY DEF StartPass
<1>2. /\ conns' \in Seq(Hosts) /\ DOMAIN conns' = 1 .. Len(conns')
      /\ \A k \in DOMAIN conns' : conns'[k] \in Keys(root)
      /\ \A j, k \in DOMAIN conns' : conns'[j] = conns'[k] => j = k
  BY <1>1, Gathered DEF IInv, TreeInv
<1>3. TreeInv' BY <1>1 DEF IInv, TreeInv
<1>4. PassInv' BY <1>1, <1>2 DEF PassInv
<1>5. StaleIsNext' BY <1>1 DEF StaleIsNext
<1>. QED BY <1>3, <1>4, <1>5 DEF IInv

\* The invariant holds throughout: the tree stays a search tree of its size, and what
\* worker_main has still to visit in a pass is open.
THEOREM Inductive == Spec => []IInv
<1>1. IInv /\ [Next]_vars => IInv'
  <2>. SUFFICES ASSUME IInv, [Next]_vars PROVE IInv' OBVIOUS
  <2>1. CASE StartPass BY <2>1, StartKeeps
  <2>2. CASE UseFreed \/ Stop \/ \E h \in Hosts : LookupFails(h) \/ TreeOverflow(h)
    <3>1. root' = root /\ size' = size /\ pc' # "pass"
      BY <2>2 DEF UseFreed, Stop, LookupFails, TreeOverflow
    <3>. QED BY <3>1 DEF IInv, TreeInv, PassInv, StaleIsNext
  <2>3. CASE EndPass
    <3>1. root' = root /\ size' = size /\ pc' # "pass" BY <2>3 DEF EndPass
    <3>. QED BY <3>1 DEF IInv, TreeInv, PassInv, StaleIsNext
  <2>4. CASE \E h \in Hosts : client_fsm_step(h) BY <2>4, ServeKeeps
  <2>5. CASE \E h \in Hosts : tree_delete(h) BY <2>5, CloseKeeps
  <2>6. CASE \E h \in Hosts : \E m \in Mails : process_parent_messages(h, m)
    BY <2>6, QueueKeeps
  <2>8. CASE \E h \in Hosts : OpenForNothing(h) BY <2>8, OpenKeeps
  <2>7. CASE UNCHANGED vars
    BY <2>7 DEF vars, IInv, TreeInv, PassInv, StaleIsNext
  <2>. QED BY <2>1, <2>2, <2>3, <2>4, <2>5, <2>6, <2>7, <2>8 DEF Next
<1>. QED BY <1>1, InitTree, PTL DEF Spec

\* However connections are opened and closed (tree_insert, tree_delete), the tree has
\* the size it claims and at most TREE_DEFAULT_MAX_SIZE nodes, every key is found where
\* tree_search looks for it, with its own connection, and get_SMTP_connections gets it.
THEOREM KeepsSearchTree == Spec => []SearchTree
<1>1. IInv => SearchTree
  <2>. SUFFICES ASSUME IInv PROVE SearchTree OBVIOUS
  <2>1. IsTree(root) /\ size = Cardinality(DOMAIN root) /\ size <= MaxSize
    BY DEF IInv, TreeInv
  <2>2. PICK a : a = tree_nodes_to_array(root) OBVIOUS
  <2>3. Len(a) = Cardinality(DOMAIN root) /\ \A h \in Keys(root) : \E k \in DOMAIN a : a[k] = h
    BY <2>1, <2>2, Gathered
  <2>4. Cardinality(Keys(root)) = Cardinality(DOMAIN root) BY <2>1, KeysCounted
  <2>5. \A h \in Keys(root) : Found(root, h) /\ Conn(h).addr = h BY <2>1, Lookup DEF Conn
  <2>. QED BY <2>1, <2>2, <2>3, <2>4, <2>5 DEF SearchTree
<1>. QED BY <1>1, Inductive, PTL

\* In a pass of worker_main, a pointer taken at its start and freed before its turn is
\* that of the host which follows, in order, one that tree_delete closed in this pass.
THEOREM OnlyNextIsStale == Spec => []StaleIsNext
<1>1. IInv => StaleIsNext BY DEF IInv
<1>. QED BY <1>1, Inductive, PTL

----------------------------------------------------------------------------
\* The refinement.

MailsOf(t) == [h \in Keys(t) |-> At(t, h).value.mails]

TornOf(t) == {h \in Keys(t) : At(t, h).value.buffer = "torn"}

LostOf(t) == {h \in Keys(t) : At(t, h).value.times = "lost"}

LEMMA MapIs ==
  /\ [h \in Keys(root) |-> Node(h).value.mails] = MailsOf(root)
  /\ Spoilt("buffer", "torn") = TornOf(root)
  /\ Spoilt("times", "lost") = LostOf(root)
BY DEF Node, At, Spoilt, MailsOf, TornOf, LostOf

LEMMA MapIsNext ==
  /\ [h \in Keys(root) |-> Node(h).value.mails]' = MailsOf(root')
  /\ Spoilt("buffer", "torn")' = TornOf(root')
  /\ Spoilt("times", "lost")' = LostOf(root')
BY DEF Node, At, Spoilt, MailsOf, TornOf, LostOf

LEMMA ServeMaps ==
  ASSUME IInv, NEW h \in Hosts, client_fsm_step(h)
  PROVE  Abstract!Serve(h)
<1>1. PICK v \in Value :
        /\ v.addr = h /\ (v.buffer = "torn" => At(root, h).value.buffer = "torn")
        /\ \/ /\ v.mails = At(root, h).value.mails
              /\ v.times = "lost" => At(root, h).value.times = "lost"
           \/ /\ At(root, h).value.mails # << >> /\ v.times # "lost"
              /\ v.mails = Tail(At(root, h).value.mails)
        /\ IsTree(root') /\ DOMAIN root' = DOMAIN root /\ Keys(root') = Keys(root)
        /\ \A g \in Keys(root) :
             At(root', g).value = IF g = h THEN v ELSE At(root, g).value
  BY Served
<1>2. h \in Keys(root) BY HandledIsOpen DEF client_fsm_step
<1>3. /\ TornOf(root') \in {TornOf(root), TornOf(root) \ {h}}
      /\ LostOf(root') = IF v.times = "lost" THEN LostOf(root) \union {h} ELSE LostOf(root) \ {h}
  <2>1. TornOf(root') = IF v.buffer = "torn" THEN TornOf(root) ELSE TornOf(root) \ {h}
    BY <1>1, <1>2 DEF TornOf
  <2>. QED BY <1>1, <1>2, <2>1 DEF LostOf
<1>4. MailsOf(root') = [MailsOf(root) EXCEPT ![h] = v.mails] BY <1>1, <1>2 DEF MailsOf
<1>5. MailsOf(root)[h] = At(root, h).value.mails /\ DOMAIN MailsOf(root) = Keys(root)
  BY <1>2 DEF MailsOf
<1>6. v.mails = MailsOf(root)[h] => MailsOf(root') = MailsOf(root)
  BY <1>4, <1>5 DEF MailsOf
<1>7. CASE /\ v.mails = At(root, h).value.mails
           /\ v.times = "lost" => At(root, h).value.times = "lost"
  <2>1. MailsOf(root') = MailsOf(root) BY <1>5, <1>6, <1>7
  <2>2. LostOf(root') \in {LostOf(root), LostOf(root) \ {h}} BY <1>2, <1>3, <1>7 DEF LostOf
  <2>. QED BY <1>2, <1>3, <1>5, <2>1, <2>2, MapIs, MapIsNext DEF Abstract!Serve
<1>8. CASE /\ At(root, h).value.mails # << >> /\ v.times # "lost"
           /\ v.mails = Tail(At(root, h).value.mails)
  <2>1. /\ MailsOf(root)[h] # << >>
        /\ MailsOf(root') = [MailsOf(root) EXCEPT ![h] = Tail(MailsOf(root)[h])]
        /\ LostOf(root') = LostOf(root) \ {h}
    BY <1>3, <1>4, <1>5, <1>8
  <2>. QED BY <1>2, <1>3, <1>5, <2>1, MapIs, MapIsNext DEF Abstract!Serve
<1>. QED BY <1>1, <1>7, <1>8

LEMMA QueueMaps ==
  ASSUME IInv, NEW h \in Hosts, NEW m \in Mails, process_parent_messages(h, m)
  PROVE  Abstract!Add(h, m)
<1>1. /\ Keys(root') = Keys(root) \union {h}
      /\ \A g \in Keys(root) \ {h} : At(root', g).value = At(root, g).value
      /\ At(root', h).value.mails =
           IF h \in Keys(root) THEN Append(At(root, h).value.mails, m) ELSE << m >>
      /\ At(root', h).value.buffer =
           IF h \in Keys(root) THEN At(root, h).value.buffer ELSE "none"
      /\ At(root', h).value.times =
           IF h \in Keys(root) THEN At(root, h).value.times ELSE "none"
  BY Queued
<1>2. TornOf(root') = TornOf(root) /\ LostOf(root') = LostOf(root)
  BY <1>1 DEF TornOf, LostOf
<1>3. DOMAIN MailsOf(root) = Keys(root) BY DEF MailsOf
<1>4. MailsOf(root') =
        [x \in DOMAIN MailsOf(root) \union {h} |->
           IF x \notin DOMAIN MailsOf(root) THEN << m >>
           ELSE IF x = h THEN Append(MailsOf(root)[x], m) ELSE MailsOf(root)[x]]
  BY <1>1, <1>3 DEF MailsOf
<1>. QED BY <1>2, <1>4, MapIs, MapIsNext DEF Abstract!Add

LEMMA OpenMaps ==
  ASSUME IInv, NEW h \in Hosts, OpenForNothing(h)
  PROVE  Abstract!Open(h)
<1>1. /\ h \notin Keys(root) /\ Keys(root') = Keys(root) \union {h}
      /\ At(root', h).value = NewConnection(h)
      /\ \A g \in Keys(root) : At(root', g) = At(root, g)
  BY OpenStep
<1>2. /\ At(root', h).value.mails = << >> /\ At(root', h).value.buffer = "none"
      /\ At(root', h).value.times = "none"
  BY <1>1 DEF NewConnection
<1>3. TornOf(root') = TornOf(root) /\ LostOf(root') = LostOf(root)
  BY <1>1, <1>2 DEF TornOf, LostOf
<1>4. DOMAIN MailsOf(root) = Keys(root) BY DEF MailsOf
<1>5. MailsOf(root') = [x \in DOMAIN MailsOf(root) \union {h} |->
                          IF x = h THEN << >> ELSE MailsOf(root)[x]]
  BY <1>1, <1>2, <1>4 DEF MailsOf
<1>. QED BY <1>1, <1>3, <1>4, <1>5, MapIs, MapIsNext DEF Abstract!Open

LEMMA CloseMaps ==
  ASSUME IInv, NEW h \in Hosts, tree_delete(h)
  PROVE  Abstract!Close(h)
<1>1. Handles(h) BY DEF tree_delete
<1>2. IsTree(root) /\ h \in Keys(root) BY <1>1, HandledIsOpen
<1>3. Keys(root') = Keys(root) \ {h} BY Closed
<1>4. DOMAIN MailsOf(root) = Keys(root) BY DEF MailsOf
<1>. DEFINE next == {x \in Keys(root) : x > h /\ \A y \in Keys(root) : y > h => y >= x}
<1>5. /\ MailsOf(root') = [x \in Keys(root) \ {h} |-> MailsOf(root)[x]]
      /\ TornOf(root') \in {TornOf(root) \ {h}, (TornOf(root) \ {h}) \union next}
      /\ LostOf(root') \in {LostOf(root) \ {h}, (LostOf(root) \ {h}) \union next}
  <2>1. CASE \A g \in Keys(root') : At(root', g) = At(root, g)
    BY <1>3, <2>1 DEF MailsOf, TornOf, LostOf
  <2>2. ASSUME NEW n \in Keys(root'), n > h, \A g \in Keys(root) : g <= h \/ g >= n,
               \A g \in Keys(root') : At(root', g).value =
                 IF g = n THEN SMTP_connection_copy(At(root, g).value)
                 ELSE At(root, g).value
        PROVE  /\ MailsOf(root') = [x \in Keys(root) \ {h} |-> MailsOf(root)[x]]
               /\ TornOf(root') \in {TornOf(root) \ {h}, (TornOf(root) \ {h}) \union next}
               /\ LostOf(root') \in {LostOf(root) \ {h}, (LostOf(root) \ {h}) \union next}
    <3>1. \A g \in Keys(root) : At(root, g).value \in Value /\ g \in Nat BY <1>2, Lookup
    <3>2. /\ SMTP_connection_copy(At(root, n).value).mails = At(root, n).value.mails
          /\ SMTP_connection_copy(At(root, n).value).buffer =
               IF At(root, n).value.buffer = "none" THEN "none" ELSE "torn"
          /\ SMTP_connection_copy(At(root, n).value).times =
               IF At(root, n).value.times = "none" THEN "none" ELSE "lost"
      BY <1>3, <3>1, CopyTypes
    <3>3. MailsOf(root') = [x \in Keys(root) \ {h} |-> MailsOf(root)[x]]
      BY <1>3, <2>2, <3>2 DEF MailsOf
    <3>4. next = {n} BY <1>2, <1>3, <2>2, <3>1
    <3>. HIDE DEF next
    <3>5. TornOf(root') = IF At(root, n).value.buffer = "none" THEN TornOf(root) \ {h}
                          ELSE (TornOf(root) \ {h}) \union {n}
      BY <1>3, <2>2, <3>2 DEF TornOf
    <3>6. LostOf(root') = IF At(root, n).value.times = "none" THEN LostOf(root) \ {h}
                          ELSE (LostOf(root) \ {h}) \union {n}
      BY <1>3, <2>2, <3>2 DEF LostOf
    <3>. QED BY <3>3, <3>4, <3>5, <3>6
  <2>. QED BY <2>1, <2>2, Closed
<1>6. Abstract!Next_(h) = next BY <1>4, MapIs DEF Abstract!Next_
<1>. HIDE DEF next
<1>. QED BY <1>2, <1>4, <1>5, <1>6, MapIs, MapIsNext DEF Abstract!Close

\* The tree is the map from hosts to connections that a worker takes it for: opening,
\* queueing, serving and closing one host leaves the mails queued for all others as they
\* were, also when tree_node_delete moves a connection.  What a close can spoil is the
\* next host's: its buffered reply and the attempt times of its first mail
\* (SMTP_connection_copy, SMTP_message_copy); of the hosts after that nothing is touched.
THEOREM ImplementsHostMap == Spec => ImplementsMap
<1>1. Init => Abstract!Init
  <2>. SUFFICES ASSUME Init PROVE Abstract!Init OBVIOUS
  <2>1. Keys(root) = {} BY EmptyTree DEF Init
  <2>2. MailsOf(root) = << >> /\ TornOf(root) = {} /\ LostOf(root) = {}
    BY <2>1 DEF MailsOf, TornOf, LostOf
  <2>. QED BY <2>2, MapIs DEF Abstract!Init
<1>2. IInv /\ [Next]_vars => [Abstract!Next]_(Abstract!mapVars)
  <2>. SUFFICES ASSUME IInv, [Next]_vars PROVE [Abstract!Next]_(Abstract!mapVars) OBVIOUS
  <2>1. ASSUME NEW h \in Hosts, client_fsm_step(h) PROVE Abstract!Next
    BY <2>1, ServeMaps DEF Abstract!Next
  <2>2. ASSUME NEW h \in Hosts, tree_delete(h) PROVE Abstract!Next
    BY <2>2, CloseMaps DEF Abstract!Next
  <2>3. ASSUME NEW h \in Hosts, NEW m \in Mails, process_parent_messages(h, m)
        PROVE  Abstract!Next
    BY <2>3, QueueMaps DEF Abstract!Next
  <2>6. ASSUME NEW h \in Hosts, OpenForNothing(h) PROVE Abstract!Next
    BY <2>6, OpenMaps DEF Abstract!Next
  <2>4. ASSUME root' = root PROVE UNCHANGED Abstract!mapVars
    <3>1. /\ MailsOf(root') = MailsOf(root) /\ TornOf(root') = TornOf(root)
          /\ LostOf(root') = LostOf(root)
      BY <2>4
    <3>. QED BY <3>1, MapIs, MapIsNext DEF Abstract!mapVars
  <2>5. CASE \/ StartPass \/ UseFreed \/ EndPass \/ Stop \/ UNCHANGED vars
             \/ \E h \in Hosts : LookupFails(h) \/ TreeOverflow(h)
    <3>1. root' = root
      BY <2>5 DEF StartPass, UseFreed, EndPass, Stop, LookupFails, TreeOverflow, vars
    <3>. QED BY <2>4, <3>1
  <2>. QED BY <2>1, <2>2, <2>3, <2>5, <2>6 DEF Next
<1>. QED BY <1>1, <1>2, Inductive, PTL DEF Spec, ImplementsMap, Abstract!Spec
=============================================================================
