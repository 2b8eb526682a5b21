---------------------------- MODULE StringMapProofs ----------------------------
(***************************************************************************)
(* Theorems about StringMap, and with it about the red-black trees of      *)
(* RBTree, for any finite set of keys.                                     *)
(***************************************************************************)
EXTENDS StringMap, FiniteSetTheorems, SequenceTheorems, WellFoundedInduction, TLAPS

(* The number of keys, which no loop exceeds *)
N == Cardinality(Keys)

(* Both modules count the keys alike. *)
LEMMA SameNumber == RB!Cardinality(Keys) = N
BY DEF N, RB!Cardinality, Cardinality, RB!IsFiniteSet, IsFiniteSet

(* What is assumed of the keys *)
LEMMA KeysFinite == N \in Nat /\ IsFiniteSet(Keys) /\ Keys \subseteq Nat /\ Null \notin Keys
BY StringMapAssumption, FS_CardinalityType DEF N

(* A part of a set of keys has fewer members. *)
LEMMA PartIsSmaller ==
  ASSUME NEW S, NEW T \in SUBSET Keys, NEW x \in T, S \subseteq T, x \notin S
  PROVE  /\ Cardinality(S) \in Nat /\ Cardinality(T) \in Nat
         /\ Cardinality(S) < Cardinality(T) /\ Cardinality(T) <= N
<1>1. IsFiniteSet(T) /\ Cardinality(T) <= N
  BY KeysFinite, FS_Subset DEF N
<1>2. IsFiniteSet(S) /\ Cardinality(S) <= Cardinality(T)
  BY <1>1, FS_Subset
<1>3. Cardinality(S) # Cardinality(T)
  BY <1>1, FS_Subset
<1> QED BY <1>1, <1>2, <1>3, FS_CardinalityType

(* No set of keys has more than N members. *)
LEMMA NumberOfKeys ==
  ASSUME NEW S \in SUBSET Keys
  PROVE  Cardinality(S) \in 0..N /\ IsFiniteSet(S)
<1>1. IsFiniteSet(S) /\ Cardinality(S) <= N
  BY KeysFinite, FS_Subset DEF N
<1> QED BY <1>1, KeysFinite, FS_CardinalityType

(* A set of numbers that is not empty has a least one. *)
LEMMA LeastNumber ==
  ASSUME NEW T \in SUBSET Nat, T # {}
  PROVE  \E n \in T : \A m \in T : n <= m
<1> DEFINE less == OpToRel(<, Nat)
<1>1. ASSUME NEW x \in Nat, NEW y \in Nat PROVE <<y, x>> \in less <=> y < x
  BY DEF OpToRel
<1>2. PICK n \in T : \A m \in T : ~ (<<m, n>> \in less)
  BY NatLessThanWellFounded, WFMin
<1>3. ASSUME NEW m \in T PROVE n <= m
  <2>1. m \in Nat /\ n \in Nat
    OBVIOUS
  <2>2. ~ (m < n)
    BY <1>1, <1>2, <2>1
  <2> QED BY <2>1, <2>2
<1> QED BY <1>2, <1>3

------------------------------------------------------------------------------
(* Loops *)

(* What the rounds of a loop define: R[i][y] ends it from y in i rounds.   *)
LoopFrom(R, round, i) ==
  [y \in DOMAIN round |-> IF i = 0 \/ round[y] = y THEN y ELSE R[i - 1][round[y]]]

Rounds(R, round, n) == R = [i \in 0..n |-> LoopFrom(R, round, i)]

(* The rounds of a loop are defined. *)
LEMMA RoundsExist ==
  ASSUME NEW round, NEW n \in Nat
  PROVE  \E R : Rounds(R, round, n)
<1> DEFINE T == {k \in Nat : ~ \E R : Rounds(R, round, k)}
<1> SUFFICES ASSUME T # {} PROVE FALSE
  OBVIOUS
<1>1. PICK k \in T : \A m \in T : k <= m
  BY LeastNumber
<1>2. CASE k = 0
  <2> DEFINE R == [i \in 0..0 |-> [y \in DOMAIN round |-> y]]
  <2>1. \A i \in 0..0 : LoopFrom(R, round, i) = [y \in DOMAIN round |-> y]
    BY DEF LoopFrom
  <2>2. R = [i \in 0..0 |-> LoopFrom(R, round, i)]
    BY <2>1
  <2> QED BY <1>1, <1>2, <2>2 DEF Rounds
<1>3. CASE k # 0
  <2>1. k - 1 \in Nat /\ k - 1 \notin T
    BY <1>1, <1>3
  <2>2. PICK G : Rounds(G, round, k - 1)
    BY <2>1
  <2> DEFINE R == [i \in 0..k |-> IF i = k THEN LoopFrom(G, round, k) ELSE G[i]]
  <2>3. \A i \in 0..k : i # 0 => R[i - 1] = G[i - 1]
    BY <2>1
  <2>4. \A i \in 0..k : LoopFrom(R, round, i) = LoopFrom(G, round, i)
    <3> HIDE DEF R
    <3> QED BY <2>3 DEF LoopFrom
  <2>5. \A i \in 0..(k - 1) : G[i] = LoopFrom(G, round, i)
    BY <2>2 DEF Rounds
  <2>6. \A i \in 0..k : R[i] = LoopFrom(R, round, i)
    BY <2>1, <2>4, <2>5
  <2>7. R = [i \in 0..k |-> R[i]]
    OBVIOUS
  <2>8. R = [i \in 0..k |-> LoopFrom(R, round, i)]
    <3> HIDE DEF R
    <3> QED BY <2>6, <2>7
  <2> QED BY <1>1, <2>8 DEF Rounds
<1> QED BY <1>2, <1>3

(* If what has i rounds left is J[i], every loop ends, and with what is    *)
(* done: if it were not, it would have come to J[0].                       *)
LEMMA LoopEnds ==
  ASSUME NEW round, NEW J, NEW Done,
         \A i \in 0..N : J[i] \subseteq DOMAIN round,
         \A i \in 0..N : \A y \in J[i] : \/ y \in Done /\ round[y] = y
                                         \/ i > 0 /\ round[y] \in J[i - 1],
         NEW x \in J[N]
  PROVE  RB!Loop(round, x) \in Done /\ \E i \in 0..N : RB!Loop(round, x) \in J[i]
<1>1. PICK R : Rounds(R, round, N) /\ RB!Loop(round, x) = R[N][x]
  <2> DEFINE f == CHOOSE R : Rounds(R, round, N)
  <2>1. Rounds(f, round, N)
    BY RoundsExist, KeysFinite
  <2>2. RB!Loop(round, x) = f[N][x]
    BY Zenon, SameNumber DEF RB!Loop, Rounds, LoopFrom
  <2> QED BY <2>1, <2>2
<1>2. \A i \in 0..N : R[i] = LoopFrom(R, round, i)
  BY <1>1 DEF Rounds
<1>3. ASSUME NEW i \in 0..N, NEW y \in DOMAIN round
      PROVE  R[i][y] = IF i = 0 \/ round[y] = y THEN y ELSE R[i - 1][round[y]]
  <2>1. R[i] = LoopFrom(R, round, i)
    BY <1>2
  <2> QED BY <2>1 DEF LoopFrom
<1> DEFINE Ends(i, y) == R[i][y] \in Done /\ \E j \in 0..N : R[i][y] \in J[j]
           T == {i \in 0..N : ~ \A y \in J[i] : Ends(i, y)}
<1>4. T = {}
  <2> SUFFICES ASSUME T # {} PROVE FALSE
    OBVIOUS
  <2>1. PICK k \in T : \A m \in T : k <= m
    <3>1. T \in SUBSET Nat
      BY KeysFinite
    <3> QED BY <3>1, LeastNumber
  <2>2. PICK y \in J[k] : ~Ends(k, y)
    BY <2>1
  <2>3. k \in 0..N /\ y \in DOMAIN round
    BY <2>1, <2>2
  <2>4. R[k][y] = IF k = 0 \/ round[y] = y THEN y ELSE R[k - 1][round[y]]
    BY <1>3, <2>3
  <2>5. ~(y \in Done /\ round[y] = y)
    BY <2>2, <2>3, <2>4
  <2>6. k > 0 /\ round[y] \in J[k - 1]
    BY <2>3, <2>2, <2>5
  <2>7. k - 1 \in 0..N /\ k - 1 \notin T
    BY <2>1, <2>6, KeysFinite
  <2>8. Ends(k - 1, round[y])
    BY <2>6, <2>7
  <2>9. CASE round[y] = y
    <3>1. R[k - 1][y] = y
      BY <1>3, <2>3, <2>7, <2>9
    <3> QED BY <2>5, <2>8, <2>9, <3>1
  <2>10. CASE round[y] # y
    <3>1. R[k][y] = R[k - 1][round[y]]
      BY <2>4, <2>6, <2>10
    <3> QED BY <2>2, <2>8, <3>1
  <2> QED BY <2>9, <2>10
<1>5. N \in 0..N
  BY KeysFinite
<1>6. Ends(N, x)
  BY <1>4, <1>5
<1> QED BY <1>1, <1>6

------------------------------------------------------------------------------
(* Trees *)

(* What is written at a place, as terms that the provers need not expand *)
Child(t, s, n) == t.child[s][n]
Parent(t, n) == t.parent[n]
Root(t) == t.root
At(f, n) == f[n]

(* What lies on the side s of n comes before n, or after it. *)
Before(s, m, n) == IF s = "LEFT" THEN m < n ELSE n < m

(* The links between the nodes I of a tree *)
Linked(t, I) ==
  /\ t \in RB!Trees /\ I \in SUBSET Keys
  /\ Root(t) \in I \cup {Null}
  /\ Root(t) # Null => Parent(t, Root(t)) = Null
  /\ \A n \in I, s \in RB!Sides :
       /\ Child(t, s, n) \in I \cup {Null}
       /\ Child(t, s, n) # Null => Parent(t, Child(t, s, n)) = n
  /\ \A n \in I : n # Root(t) =>
       /\ Parent(t, n) \in I
       /\ \E s \in RB!Sides : Child(t, s, Parent(t, n)) = n

(* At(B, n) are the nodes from n on down. *)
Below(t, I, B) ==
  /\ B \in [RB!Place -> SUBSET I]
  /\ At(B, Null) = {} /\ At(B, Root(t)) = I
  /\ \A n \in I : At(B, n) = {n} \cup At(B, Child(t, "LEFT", n)) \cup At(B, Child(t, "RIGHT", n))
  /\ \A n \in I, s \in RB!Sides : \A m \in At(B, Child(t, s, n)) : Before(s, m, n)

Tree(t, I, B) == Linked(t, I) /\ Below(t, I, B)

(* The fields of a tree *)
LEMMA TypeOfTrees ==
  ASSUME NEW t \in RB!Trees
  PROVE  /\ t.root \in RB!Place /\ t.parent \in [Keys -> RB!Place]
         /\ t.color \in [Keys -> {"RED", "BLACK"}]
         /\ t.child \in [RB!Sides -> [Keys -> RB!Place]]
         /\ t = [root |-> t.root, child |-> t.child, parent |-> t.parent, color |-> t.color]
BY DEF RB!Trees

(* What is below a place are nodes. *)
LEMMA SetsOfNodes ==
  ASSUME NEW I, NEW B \in [RB!Place -> SUBSET I], NEW n \in RB!Place
  PROVE  At(B, n) \subseteq I
BY DEF At

(* The values of H are numbers. *)
LEMMA HeightsAreNumbers ==
  ASSUME NEW H \in [RB!Place -> Nat], NEW n \in RB!Place
  PROVE  At(H, n) \in Nat
BY DEF At

(* Each of the two sides is the other one of the other. *)
LEMMA OtherSide ==
  ASSUME NEW s \in RB!Sides
  PROVE  /\ RB!Other(s) \in RB!Sides /\ RB!Other(s) # s /\ RB!Other(RB!Other(s)) = s
         /\ \A x \in RB!Sides : x = s \/ x = RB!Other(s)
         /\ \A m, n : Before(RB!Other(s), m, n) <=> Before(s, n, m)
BY DEF RB!Sides, RB!Other, Before

(* Where the nodes below n lie *)
LEMMA Halves ==
  ASSUME NEW t, NEW I, NEW B, Tree(t, I, B), NEW n \in I, NEW s \in RB!Sides
  PROVE  /\ n \in Keys /\ n # Null /\ n \in Nat /\ n \in At(B, n)
         /\ Child(t, s, n) \in I \cup {Null} /\ Child(t, s, n) # n
         /\ n \notin At(B, Child(t, s, n)) /\ At(B, Child(t, s, n)) \subseteq At(B, n)
         /\ At(B, n) = {n} \cup At(B, Child(t, s, n)) \cup At(B, Child(t, RB!Other(s), n))
         /\ \A m \in At(B, Child(t, s, n)) : m \notin At(B, Child(t, RB!Other(s), n))
         /\ Child(t, s, n) # Null => Child(t, s, n) # Child(t, RB!Other(s), n)
<1>1. n \in Keys /\ n # Null /\ n \in Nat /\ I \subseteq Nat /\ Null \notin I
  BY KeysFinite DEF Tree, Linked
<1>2. \A x \in RB!Sides : Child(t, x, n) \in I \cup {Null}
  BY DEF Tree, Linked
<1>3. \A x \in RB!Sides : \A m \in At(B, Child(t, x, n)) : Before(x, m, n)
  BY DEF Tree, Below
<1>4. \A m \in I : m \in At(B, m)
  BY DEF Tree, Below
<1>5. \A x \in RB!Sides : At(B, Child(t, x, n)) \subseteq I
  BY <1>1, <1>2, SetsOfNodes DEF Tree, Below, RB!Place, Linked
<1>6. At(B, n) = {n} \cup At(B, Child(t, s, n)) \cup At(B, Child(t, RB!Other(s), n))
  BY DEF Tree, Below, RB!Sides, RB!Other
<1>7. n \notin At(B, Child(t, s, n))
  BY <1>1, <1>3 DEF Before
<1>8. \A m \in At(B, Child(t, s, n)) : m \notin At(B, Child(t, RB!Other(s), n))
  <2> SUFFICES ASSUME NEW m \in At(B, Child(t, s, n)), m \in At(B, Child(t, RB!Other(s), n))
               PROVE  FALSE
    OBVIOUS
  <2>1. Before(s, m, n) /\ m \in Nat
    BY <1>1, <1>3, <1>5
  <2>2. Before(RB!Other(s), m, n)
    BY <1>3, OtherSide
  <2> QED BY <1>1, <2>1, <2>2 DEF Before, RB!Other, RB!Sides
<1>9. Child(t, s, n) # Null =>
        Child(t, s, n) # Child(t, RB!Other(s), n) /\ Child(t, s, n) # n
  BY <1>1, <1>2, <1>4, <1>7, <1>8
<1> QED BY <1>1, <1>2, <1>4, <1>6, <1>7, <1>8, <1>9

(* The same of both sides at once *)
Parts(I, B, n, l, r) ==
  /\ l \in I \cup {Null} /\ r \in I \cup {Null} /\ l # n /\ r # n
  /\ At(B, n) = {n} \cup At(B, l) \cup At(B, r) /\ n \notin At(B, l) /\ n \notin At(B, r)
  /\ \A m \in At(B, l) : m \notin At(B, r)
  /\ l # Null => l # r

(* A node and what is below its two children *)
LEMMA HasParts ==
  ASSUME NEW t, NEW I, NEW B, Tree(t, I, B), NEW n \in I, NEW s \in RB!Sides,
         NEW l, l = Child(t, s, n), NEW r, r = Child(t, RB!Other(s), n)
  PROVE  Parts(I, B, n, l, r)
<1>1. PICK o \in RB!Sides : o = RB!Other(s) /\ RB!Other(o) = s
  BY OtherSide
<1>2. /\ Child(t, s, n) \in I \cup {Null} /\ Child(t, s, n) # n /\ n \notin At(B, Child(t, s, n))
      /\ At(B, n) = {n} \cup At(B, Child(t, s, n)) \cup At(B, Child(t, RB!Other(s), n))
      /\ \A m \in At(B, Child(t, s, n)) : m \notin At(B, Child(t, RB!Other(s), n))
      /\ Child(t, s, n) # Null => Child(t, s, n) # Child(t, RB!Other(s), n)
  BY Halves
<1>3. Child(t, o, n) \in I \cup {Null} /\ Child(t, o, n) # n /\ n \notin At(B, Child(t, o, n))
  BY Halves
<1> QED BY <1>1, <1>2, <1>3 DEF Parts

(* The nodes are numbers, and none of them is the null pointer. *)
Nodes(I, B) ==
  /\ I \subseteq Keys /\ I \subseteq Nat /\ Null \notin I /\ Null \notin Keys
  /\ \A n \in I : n \in At(B, n) /\ n \in RB!Place
  /\ \A n \in I \cup {Null} : At(B, n) \subseteq I
  /\ Null \in RB!Place /\ At(B, Null) = {}

(* What a tree says of its nodes *)
LEMMA HasNodes ==
  ASSUME NEW t, NEW I, NEW B, Tree(t, I, B)
  PROVE  Nodes(I, B) /\ t \in RB!Trees
<1>1. I \subseteq Keys /\ I \subseteq Nat /\ Null \notin I /\ Null \notin Keys /\ t \in RB!Trees
  BY KeysFinite DEF Tree, Linked
<1>2. /\ \A n \in I : n \in RB!Place
      /\ Null \in RB!Place
  BY <1>1 DEF RB!Place
<1>3. At(B, Null) = {} /\ \A n \in I : n \in At(B, n)
  BY DEF Tree, Below
<1>4. \A n \in I \cup {Null} : At(B, n) \subseteq I
  BY <1>2, SetsOfNodes DEF Tree, Below
<1> QED BY <1>1, <1>2, <1>3, <1>4 DEF Nodes

------------------------------------------------------------------------------
(* What the helpers write, link by link *)

ParentSet(t, u, n, p) ==
  /\ u \in RB!Trees /\ Root(u) = Root(t) /\ u.child = t.child /\ u.color = t.color
  /\ \A m \in Keys : Parent(u, m) = IF m = n THEN p ELSE Parent(t, m)

(* SetParent writes one parent, or none. *)
LEMMA SetParentWrites ==
  ASSUME NEW t \in RB!Trees, NEW n \in RB!Place, NEW p \in RB!Place
  PROVE  ParentSet(t, RB!SetParent(t, n, p), n, p)
<1>1. CASE n = Null
  BY <1>1, KeysFinite DEF RB!SetParent, ParentSet
<1>2. CASE n # Null
  <2>1. RB!SetParent(t, n, p) = [t EXCEPT !.parent[n] = p] /\ n \in Keys
    BY <1>2 DEF RB!SetParent, RB!Place
  <2> QED BY <2>1, TypeOfTrees DEF RB!Trees, ParentSet, Parent, Root
<1> QED BY <1>1, <1>2

(* u has the links of t. *)
SameLinks(t, u) ==
  u \in RB!Trees /\ Root(u) = Root(t) /\ u.child = t.child /\ u.parent = t.parent

Blackened(t, u, n) ==
  /\ SameLinks(t, u)
  /\ \A m \in Keys : u.color[m] = IF m = n THEN "BLACK" ELSE t.color[m]

(* Blacken writes one color, or none. *)
LEMMA BlackenWrites ==
  ASSUME NEW t \in RB!Trees, NEW n \in RB!Place
  PROVE  Blackened(t, RB!Blacken(t, n), n)
<1>1. CASE n = Null
  BY <1>1, KeysFinite DEF RB!Blacken, Blackened, SameLinks
<1>2. CASE n # Null
  <2>1. RB!Blacken(t, n) = [t EXCEPT !.color[n] = "BLACK"] /\ n \in Keys
    BY <1>2 DEF RB!Blacken, RB!Place
  <2> QED BY <2>1, TypeOfTrees DEF RB!Trees, Blackened, SameLinks, Root
<1> QED BY <1>1, <1>2

Recolored(t, u, b, r) ==
  /\ SameLinks(t, u)
  /\ \A m \in Keys :
       u.color[m] = IF m = r THEN "RED" ELSE IF m = b THEN "BLACK" ELSE t.color[m]

(* RB_SET_BLACKRED writes two colors. *)
LEMMA SetBlackRedWrites ==
  ASSUME NEW t \in RB!Trees, NEW b \in Keys, NEW r \in Keys
  PROVE  Recolored(t, RB!SetBlackRed(t, b, r), b, r)
BY TypeOfTrees DEF RB!Trees, RB!SetBlackRed, Recolored, SameLinks, Root

(* One link to a child *)
SetChild(t, s, n, m) == [t EXCEPT !.child[s][n] = m]

(* u is t with that link. *)
ChildSet(t, u, s, n, new) ==
  /\ u \in RB!Trees /\ Root(u) = Root(t) /\ u.parent = t.parent /\ u.color = t.color
  /\ \A x \in RB!Sides, m \in Keys :
       Child(u, x, m) = IF m = n /\ x = s THEN new ELSE Child(t, x, m)

(* One child is another one now. *)
LEMMA SetChildWrites ==
  ASSUME NEW t \in RB!Trees, NEW s \in RB!Sides, NEW n \in Keys, NEW new \in RB!Place
  PROVE  ChildSet(t, SetChild(t, s, n, new), s, n, new)
<1> DEFINE row == [t.child[s] EXCEPT ![n] = new]
           rows == [t.child EXCEPT ![s] = row]
<1>1. /\ row \in [Keys -> RB!Place] /\ row[n] = new
      /\ \A m \in Keys : m # n => row[m] = Child(t, s, m)
  BY TypeOfTrees DEF Child, Root
<1>2. /\ rows \in [RB!Sides -> [Keys -> RB!Place]]
      /\ \A y \in RB!Sides : rows[y] = IF y = s THEN row ELSE t.child[y]
  <2> HIDE DEF row
  <2> QED BY <1>1, TypeOfTrees
<1>3. SetChild(t, s, n, new) = [t EXCEPT !.child = rows]
  BY TypeOfTrees DEF SetChild
<1>4. /\ [t EXCEPT !.child = rows] \in RB!Trees /\ [t EXCEPT !.child = rows].root = Root(t)
      /\ [t EXCEPT !.child = rows].parent = t.parent /\ [t EXCEPT !.child = rows].color = t.color
      /\ [t EXCEPT !.child = rows].child = rows
  <2> HIDE DEF row, rows
  <2> QED BY <1>2, TypeOfTrees DEF RB!Trees, Root
<1> HIDE DEF row, rows
<1> QED BY <1>1, <1>2, <1>3, <1>4 DEF ChildSet, Child, Root

Replaced(t, u, p, s, new) ==
  /\ u \in RB!Trees /\ u.parent = t.parent /\ u.color = t.color
  /\ Root(u) = IF p = Null THEN new ELSE Root(t)
  /\ \A x \in RB!Sides, m \in Keys :
       Child(u, x, m) = IF m = p /\ x = s THEN new ELSE Child(t, x, m)

(* Replace writes the root or one child. *)
LEMMA ReplaceWrites ==
  ASSUME NEW t \in RB!Trees, NEW p \in RB!Place, NEW old, NEW new \in RB!Place
  PROVE  Replaced(t, RB!Replace(t, p, old, new), p, RB!SideOf(t, p, old), new)
<1>1. CASE p = Null
  <2>1. RB!Replace(t, p, old, new) = [t EXCEPT !.root = new]
    BY <1>1 DEF RB!Replace
  <2> QED BY <1>1, <2>1, KeysFinite, TypeOfTrees DEF RB!Trees, Replaced, Child, Parent, Root
<1>2. CASE p # Null
  <2>1. p \in Keys /\ RB!SideOf(t, p, old) \in RB!Sides
    BY <1>2 DEF RB!Place, RB!SideOf, RB!Sides
  <2>2. RB!Replace(t, p, old, new) = SetChild(t, RB!SideOf(t, p, old), p, new)
    BY <1>2 DEF RB!Replace, SetChild
  <2>3. ChildSet(t, RB!Replace(t, p, old, new), RB!SideOf(t, p, old), p, new)
    BY <2>1, <2>2, SetChildWrites
  <2> QED BY <1>2, <2>3 DEF ChildSet, Replaced
<1> QED BY <1>1, <1>2

(* e goes down to the side s of c, d to the side o of e. *)
Exchanged(t, u, o, s, e, c, d, p) ==
  /\ u \in RB!Trees /\ Root(u) = Root(t) /\ u.color = t.color
  /\ \A m \in Keys : Parent(u, m) = IF m = e THEN c ELSE IF m = c THEN p ELSE Parent(t, m)
  /\ \A x \in RB!Sides, m \in Keys :
       Child(u, x, m) = IF x = o /\ m = e THEN d
                       ELSE IF x = s /\ m = c THEN e ELSE Child(t, x, m)

(* What a rotation writes last *)
LEMMA ExchangeWrites ==
  ASSUME NEW t \in RB!Trees, NEW o \in RB!Sides, NEW s \in RB!Sides, o # s,
         NEW e \in Keys, NEW c \in Keys, NEW d \in RB!Place, NEW p \in RB!Place,
         NEW u, u = [t EXCEPT !.child[o][e] = d, !.child[s][c] = e,
                              !.parent[c] = p, !.parent[e] = c]
  PROVE  Exchanged(t, u, o, s, e, c, d, p)
<1>1. PICK v : v = SetChild(t, o, e, d)
  OBVIOUS
<1>2. PICK w : w = SetChild(v, s, c, e)
  OBVIOUS
<1>3. ChildSet(t, v, o, e, d)
  BY <1>1, SetChildWrites
<1>4. ChildSet(v, w, s, c, e)
  <2>1. v \in RB!Trees /\ e \in RB!Place
    BY <1>3 DEF ChildSet, RB!Place
  <2> QED BY <1>2, <2>1, SetChildWrites
<1>5. u = [w EXCEPT !.parent[c] = p, !.parent[e] = c]
  BY <1>1, <1>2 DEF SetChild
<1>6. /\ Root(w) = Root(t) /\ w.color = t.color /\ w.parent = t.parent
      /\ \A x \in RB!Sides, m \in Keys :
           Child(w, x, m) = IF x = o /\ m = e THEN d
                           ELSE IF x = s /\ m = c THEN e ELSE Child(t, x, m)
  BY <1>3, <1>4 DEF ChildSet
<1>7. /\ u \in RB!Trees /\ Root(u) = Root(w) /\ u.color = w.color /\ u.child = w.child
      /\ u.parent = [w.parent EXCEPT ![c] = p, ![e] = c]
  <2>1. w \in RB!Trees /\ c \in RB!Place
    BY <1>4 DEF ChildSet, RB!Place
  <2> QED BY <1>5, <2>1, TypeOfTrees DEF RB!Trees, Child, Parent, Root
<1> QED BY <1>6, <1>7, TypeOfTrees DEF Exchanged, Child, Parent, Root

(* elm hangs where SideOf says. *)
LEMMA SideIsFound ==
  ASSUME NEW t, NEW I, NEW B, Tree(t, I, B), NEW n \in I, n # Root(t)
  PROVE  /\ Parent(t, n) \in I /\ RB!SideOf(t, Parent(t, n), n) \in RB!Sides
         /\ Child(t, RB!SideOf(t, Parent(t, n), n), Parent(t, n)) = n
BY DEF Tree, Linked, RB!SideOf, RB!Sides, Child, Parent, Root

------------------------------------------------------------------------------
(* Rotations *)

(* In u, c has taken the place of e, and e hangs on the side s of c, with  *)
(* d, which hung there before.                                             *)
TurnsTo(t, u, e, s, c, d) ==
  /\ u \in RB!Trees /\ u.color = t.color
  /\ c = Child(t, RB!Other(s), e) /\ d = Child(t, s, c)
  /\ Root(u) = IF Root(t) = e THEN c ELSE Root(t)
  /\ \A m \in Keys : Parent(u, m) = IF m = e THEN c
                                   ELSE IF m = c THEN Parent(t, e)
                                   ELSE IF m = d THEN e ELSE Parent(t, m)
  /\ \A x \in RB!Sides, m \in Keys :
       Child(u, x, m) = IF m = e /\ x = RB!Other(s) THEN d
                       ELSE IF m = c /\ x = s THEN e
                       ELSE IF m = Parent(t, e) /\ Child(t, x, m) = e THEN c ELSE Child(t, x, m)

(* What a rotation writes *)
LEMMA Rotated ==
  ASSUME NEW t, NEW I, NEW B, Tree(t, I, B), NEW e \in I, NEW s \in RB!Sides,
         NEW c, c = Child(t, RB!Other(s), e), c # Null
  PROVE  /\ TurnsTo(t, RB!Rotate(t, e, s), e, s, c, Child(t, s, c))
         /\ c \in I /\ Child(t, s, c) \in I \cup {Null} /\ c # e /\ Child(t, s, c) \notin {c, e}
<1>1. PICK o \in RB!Sides : o = RB!Other(s) /\ o # s
  BY OtherSide
<1>2. PICK d : d = Child(t, s, c)
  OBVIOUS
<1>3. PICK p : p = Parent(t, e)
  OBVIOUS
<1>4. /\ e \in Keys /\ c \in Keys /\ c \in I /\ d \in I \cup {Null} /\ d \in RB!Place
      /\ p \in RB!Place /\ t \in RB!Trees /\ c # e /\ e # Null
  <2>1. I \subseteq Keys /\ t \in RB!Trees /\ Null \notin I
    BY KeysFinite DEF Tree, Linked
  <2>2. c \in I /\ c # e
    BY <1>1, Halves
  <2>3. d \in I \cup {Null}
    BY <1>2, <2>2, Halves
  <2>4. p \in RB!Place
    BY <1>3, <2>1, TypeOfTrees DEF Parent
  <2> QED BY <2>1, <2>2, <2>3, <2>4 DEF RB!Place
<1>5. d \notin {c, e}
  <2>1. d # c
    BY <1>2, <1>4, Halves
  <2>2. e \notin At(B, c)
    BY <1>1, Halves
  <2>3. At(B, d) \subseteq At(B, c)
    BY <1>2, <1>4, Halves
  <2>4. e \in At(B, e)
    BY Halves
  <2> QED BY <2>1, <2>2, <2>3, <2>4
<1>6. PICK v : v = RB!SetParent(t, d, e)
  OBVIOUS
<1>7. PICK w : w = RB!Replace(v, p, e, c)
  OBVIOUS
<1>8. PICK u : u = [w EXCEPT !.child[o][e] = d, !.child[s][c] = e,
                             !.parent[c] = p, !.parent[e] = c]
  OBVIOUS
<1>9. RB!Rotate(t, e, s) = u
  BY <1>1, <1>2, <1>3, <1>6, <1>7, <1>8 DEF RB!Rotate, Child, Parent
<1>10. ParentSet(t, v, d, e)
  BY <1>4, <1>6, SetParentWrites DEF RB!Place
<1>11. RB!SideOf(v, p, e) = RB!SideOf(t, p, e)
  BY <1>10 DEF RB!SideOf, ParentSet
<1>12. Replaced(v, w, p, RB!SideOf(v, p, e), c)
  <2>1. v \in RB!Trees /\ c \in RB!Place
    BY <1>4, <1>10 DEF ParentSet, RB!Place
  <2> QED BY <1>4, <1>7, <2>1, ReplaceWrites
<1>13. p = Null <=> Root(t) = e
  BY <1>3, <1>4, KeysFinite DEF Tree, Linked
<1>14. \A x \in RB!Sides, m \in Keys :
         (m = p /\ x = RB!SideOf(v, p, e)) <=> (m = p /\ Child(t, x, m) = e)
  <2> SUFFICES ASSUME NEW x \in RB!Sides, p \in Keys
               PROVE  x = RB!SideOf(t, p, e) <=> Child(t, x, p) = e
    BY <1>11
  <2>1. /\ p \in I /\ RB!SideOf(t, p, e) \in RB!Sides
        /\ Child(t, RB!SideOf(t, p, e), p) = e
    BY <1>3, <1>13, KeysFinite, SideIsFound
  <2>2. x # RB!SideOf(t, p, e) => x = RB!Other(RB!SideOf(t, p, e))
    BY <2>1, OtherSide
  <2>3. Child(t, RB!Other(RB!SideOf(t, p, e)), p) # e
    BY <1>4, <2>1, Halves
  <2> QED BY <2>1, <2>2, <2>3
<1>15. Exchanged(w, u, o, s, e, c, d, p)
  <2>1. w \in RB!Trees
    BY <1>12 DEF Replaced
  <2> QED BY <1>1, <1>4, <1>8, <2>1, ExchangeWrites
<1>16. TurnsTo(t, u, e, s, c, d)
  <2>1. Root(u) = IF Root(t) = e THEN c ELSE Root(t)
    BY <1>10, <1>12, <1>13, <1>15 DEF ParentSet, Replaced, Exchanged
  <2>2. \A m \in Keys : Parent(u, m) = IF m = e THEN c
                                      ELSE IF m = c THEN Parent(t, e)
                                      ELSE IF m = d THEN e ELSE Parent(t, m)
    BY <1>3, <1>10, <1>12, <1>15 DEF ParentSet, Replaced, Exchanged, Parent, Root, Child
  <2>3. ASSUME NEW x \in RB!Sides, NEW m \in Keys
        PROVE  Child(u, x, m) = IF m = e /\ x = RB!Other(s) THEN d
                       ELSE IF m = c /\ x = s THEN e
                       ELSE IF m = Parent(t, e) /\ Child(t, x, m) = e THEN c ELSE Child(t, x, m)
    <3>1. Child(w, x, m) = IF m = p /\ Child(t, x, m) = e THEN c ELSE Child(t, x, m)
      BY <1>10, <1>12, <1>14 DEF ParentSet, Replaced, Child
    <3> QED BY <1>1, <1>3, <1>15, <3>1 DEF Exchanged
  <2> QED BY <1>1, <1>2, <1>10, <1>12, <1>15, <2>1, <2>2, <2>3
      DEF TurnsTo, ParentSet, Replaced, Exchanged
<1> QED BY <1>2, <1>4, <1>5, <1>9, <1>16

(* A union over the two sides does not depend on which comes first. *)
LEMMA BothSides ==
  ASSUME NEW t, NEW B, NEW n, NEW s \in RB!Sides
  PROVE  {n} \cup At(B, Child(t, s, n)) \cup At(B, Child(t, RB!Other(s), n))
           = {n} \cup At(B, Child(t, "LEFT", n)) \cup At(B, Child(t, "RIGHT", n))
BY DEF RB!Sides, RB!Other

(* B becomes C when c takes the place of e. *)
Moved(B, C, e, c) ==
  At(C, c) = At(B, e) /\ \A n \in RB!Place : n \notin {e, c} => At(C, n) = At(B, n)

(* Nothing else hangs elsewhere. *)
HungApart(t, u, I, e, c) ==
  \A x \in RB!Sides, n \in I : n \notin {e, c} =>
    Child(u, x, n) = (IF Child(t, x, n) = e THEN c ELSE Child(t, x, n)) /\ Child(t, x, n) # c

(* All links of u between the nodes I: l and r are the outer children of   *)
(* the two.                                                                *)
Hung(t, u, I, B, e, s, o, c, d, l, r) ==
  /\ o \in RB!Sides /\ o = RB!Other(s) /\ o # s /\ s = RB!Other(o)
  /\ \A x \in RB!Sides : x = s \/ x = o
  /\ c = Child(t, o, e) /\ d = Child(t, s, c) /\ l = Child(t, s, e) /\ r = Child(t, o, c)
  /\ c \in I /\ d \in I \cup {Null} /\ l \in I \cup {Null} /\ r \in I \cup {Null}
  /\ c # e /\ d \notin {c, e} /\ l \notin {c, e} /\ r \notin {c, e}
  /\ (l # Null => l # d) /\ (d # Null => d # r)
  /\ At(B, e) = {e} \cup At(B, l) \cup At(B, c) /\ At(B, c) = {c} \cup At(B, d) \cup At(B, r)
  /\ (l # Null => Parent(t, l) = e) /\ Parent(t, c) = e
  /\ (d # Null => Parent(t, d) = c) /\ (r # Null => Parent(t, r) = c)
  /\ Child(u, o, e) = d /\ Child(u, s, e) = l /\ Child(u, s, c) = e /\ Child(u, o, c) = r
  /\ HungApart(t, u, I, e, c)
  /\ Root(u) = IF Root(t) = e THEN c ELSE Root(t)
  /\ \A m \in I : Parent(u, m) = IF m = e THEN c
                                ELSE IF m = c THEN Parent(t, e)
                                ELSE IF m = d THEN e ELSE Parent(t, m)
  /\ Parent(t, e) \notin {e, c}

(* The children of the two nodes that turn *)
LEMMA HungWhere ==
  ASSUME NEW t, NEW u, NEW I, NEW B, NEW e, NEW s, NEW o, NEW c, NEW d, NEW l, NEW r,
         Hung(t, u, I, B, e, s, o, c, d, l, r), NEW x \in RB!Sides
  PROVE  /\ Child(u, x, e) = IF x = s THEN l ELSE d
         /\ Child(u, x, c) = IF x = s THEN e ELSE r
BY DEF Hung

(* The children of all other nodes *)
LEMMA HungAbove ==
  ASSUME NEW t, NEW u, NEW I, NEW B, NEW e, NEW s, NEW o, NEW c, NEW d, NEW l, NEW r,
         Hung(t, u, I, B, e, s, o, c, d, l, r), NEW x \in RB!Sides,
         NEW n \in I, n \notin {e, c}, NEW m, m = Child(t, x, n)
  PROVE  m # c /\ Child(u, x, n) = IF m = e THEN c ELSE m
<1>1. HungApart(t, u, I, e, c)
  BY DEF Hung
<1> QED BY <1>1 DEF HungApart

(* After a rotation, these are all links. *)
LEMMA TurnedLinks ==
  ASSUME NEW t, NEW u, NEW I, NEW B, Tree(t, I, B), NEW e \in I, NEW s \in RB!Sides,
         NEW c, NEW d, TurnsTo(t, u, e, s, c, d), c # Null
  PROVE  \E o, l, r : Hung(t, u, I, B, e, s, o, c, d, l, r)
<1>1. PICK o \in RB!Sides : o = RB!Other(s) /\ o # s /\ s = RB!Other(o)
                             /\ \A x \in RB!Sides : x = s \/ x = o
  BY OtherSide
<1>2. PICK l : l = Child(t, s, e)
  OBVIOUS
<1>3. c = Child(t, o, e) /\ d = Child(t, s, c)
  BY <1>1 DEF TurnsTo
<1>4. /\ t \in RB!Trees /\ u \in RB!Trees /\ I \subseteq Keys /\ Null \notin I /\ I \subseteq Nat
      /\ \A n \in I : n \in At(B, n) /\ n \in RB!Place
      /\ \A n \in I \cup {Null} : At(B, n) \subseteq I
      /\ Null \in RB!Place /\ At(B, Null) = {}
  BY HasNodes DEF Nodes, TurnsTo
<1>5. /\ c \in I /\ c # e /\ l \in I \cup {Null} /\ l # e /\ l # c
      /\ At(B, e) = {e} \cup At(B, l) \cup At(B, c)
      /\ e \notin At(B, l) /\ e \notin At(B, c)
      /\ \A m \in At(B, l) : m \notin At(B, c)
  <2>1. Parts(I, B, e, l, c)
    BY <1>1, <1>2, <1>3, HasParts
  <2> QED BY <2>1 DEF Parts
<1>6. PICK r : r = Child(t, o, c)
  OBVIOUS
<1>7. /\ d \in I \cup {Null} /\ r \in I \cup {Null} /\ d # c /\ r # c /\ (d # Null => d # r)
      /\ At(B, c) = {c} \cup At(B, d) \cup At(B, r)
      /\ c \notin At(B, d) /\ c \notin At(B, r)
  <2>1. Parts(I, B, c, d, r)
    BY <1>1, <1>3, <1>5, <1>6, HasParts
  <2> QED BY <2>1 DEF Parts
<1>8. d # e /\ r # e /\ (l # Null => l # d)
  BY <1>4, <1>5, <1>7
<1>9. /\ (l # Null => Parent(t, l) = e) /\ Parent(t, c) = e
      /\ (d # Null => Parent(t, d) = c) /\ (r # Null => Parent(t, r) = c)
  <2>1. \A n \in I, x \in RB!Sides :
          Child(t, x, n) # Null => Parent(t, Child(t, x, n)) = n
    BY DEF Tree, Linked
  <2> QED BY <2>1, <1>1, <1>2, <1>3, <1>5, <1>6
<1>10. PICK p : p = Parent(t, e)
  OBVIOUS
<1>11. p # e /\ p # c
  <2>1. Root(t) = e => p = Null
    BY <1>4, <1>10 DEF Tree, Linked
  <2>2. Root(t) # e => p \in I /\ \E x \in RB!Sides : Child(t, x, p) = e
    BY <1>10 DEF Tree, Linked
  <2>3. \A x \in RB!Sides : Child(t, x, e) # e
    BY Halves
  <2>4. \A x \in RB!Sides : Child(t, x, c) # e
    BY <1>1, <1>3, <1>6, <1>8
  <2> QED BY <1>4, <1>5, <2>1, <2>2, <2>3, <2>4
<1>12. /\ Child(u, o, e) = d /\ Child(u, s, e) = l
       /\ Child(u, s, c) = e /\ Child(u, o, c) = r
  BY <1>1, <1>2, <1>4, <1>5, <1>6, <1>8, <1>10, <1>11 DEF TurnsTo
<1>13. \A x \in RB!Sides, n \in I :
         n \notin {e, c} => /\ Child(u, x, n) = IF Child(t, x, n) = e THEN c ELSE Child(t, x, n)
                           /\ Child(t, x, n) # c
  <2>1. \A x \in RB!Sides, n \in I : Child(t, x, n) = e => n = p
    BY <1>4, <1>10 DEF Tree, Linked
  <2>2. \A x \in RB!Sides, n \in I : Child(t, x, n) = c => n = e
    BY <1>4, <1>5, <1>9 DEF Tree, Linked
  <2> QED BY <1>4, <1>10, <2>1, <2>2 DEF TurnsTo
<1>14. /\ Root(u) = IF Root(t) = e THEN c ELSE Root(t)
       /\ \A m \in I : Parent(u, m) = IF m = e THEN c
                                     ELSE IF m = c THEN p ELSE IF m = d THEN e ELSE Parent(t, m)
  BY <1>4, <1>10 DEF TurnsTo
<1>15. Hung(t, u, I, B, e, s, o, c, d, l, r)
  BY <1>1, <1>2, <1>3, <1>5, <1>6, <1>7, <1>8, <1>9, <1>10, <1>11, <1>12, <1>13, <1>14
     DEF Hung, HungApart
<1> QED BY <1>15

(* A rotation leaves a tree of the same nodes. *)
LEMMA TurnedTree ==
  ASSUME NEW t, NEW u, NEW I, NEW B, Tree(t, I, B), NEW e \in I, NEW s \in RB!Sides,
         NEW c, NEW d, TurnsTo(t, u, e, s, c, d), c # Null
  PROVE  \E C : Tree(u, I, C) /\ Moved(B, C, e, c)
<1>1. PICK o, l, r : Hung(t, u, I, B, e, s, o, c, d, l, r)
  BY TurnedLinks
<1>2. o \in RB!Sides /\ o = RB!Other(s) /\ \A x \in RB!Sides : x = s \/ x = o
  BY <1>1 DEF Hung
<1>3. c = Child(t, o, e) /\ d = Child(t, s, c) /\ l = Child(t, s, e) /\ r = Child(t, o, c)
  BY <1>1 DEF Hung
<1>4. /\ u \in RB!Trees /\ I \subseteq Keys /\ Null \notin I /\ I \subseteq Nat
      /\ \A n \in I : n \in At(B, n) /\ n \in RB!Place
      /\ \A n \in I \cup {Null} : At(B, n) \subseteq I
      /\ Null \in RB!Place /\ At(B, Null) = {}
  BY HasNodes DEF Nodes, TurnsTo
<1>5. /\ c \in I /\ c # e /\ l \in I \cup {Null} /\ l # e /\ l # c /\ (l # Null => l # d)
      /\ d \in I \cup {Null} /\ r \in I \cup {Null} /\ d # c /\ r # c /\ (d # Null => d # r)
      /\ d # e /\ r # e
  BY <1>1 DEF Hung
<1>6. At(B, e) = {e} \cup At(B, l) \cup At(B, c) /\ At(B, c) = {c} \cup At(B, d) \cup At(B, r)
  BY <1>1 DEF Hung
<1>7. /\ (l # Null => Parent(t, l) = e) /\ Parent(t, c) = e
      /\ (d # Null => Parent(t, d) = c) /\ (r # Null => Parent(t, r) = c)
  BY <1>1 DEF Hung
<1>8. PICK p : p = Parent(t, e) /\ p # e /\ p # c
  BY <1>1 DEF Hung
<1>9. Child(u, o, e) = d /\ Child(u, s, e) = l /\ Child(u, s, c) = e /\ Child(u, o, c) = r
  BY <1>1 DEF Hung
<1>10. \A x \in RB!Sides, n \in I :
         n \notin {e, c} => Child(u, x, n) = IF Child(t, x, n) = e THEN c ELSE Child(t, x, n)
  BY <1>1, HungAbove
<1>11. /\ Root(u) = IF Root(t) = e THEN c ELSE Root(t)
       /\ \A m \in I : Parent(u, m) = IF m = e THEN c
                                     ELSE IF m = c THEN p ELSE IF m = d THEN e ELSE Parent(t, m)
  BY <1>1, <1>8 DEF Hung
<1>12. ASSUME NEW n \in I, NEW x \in RB!Sides
       PROVE  /\ Child(u, x, n) \in I \cup {Null}
              /\ Child(u, x, n) # Null => Parent(u, Child(u, x, n)) = n
  <2>1. CASE n = e
    BY <2>1, <1>2, <1>4, <1>5, <1>6, <1>7, <1>9, <1>11
  <2>2. CASE n = c
    BY <2>2, <1>2, <1>4, <1>5, <1>6, <1>7, <1>9, <1>11
  <2>3. CASE n \notin {e, c}
    <3>1. /\ Child(t, x, n) \in I \cup {Null}
          /\ Child(t, x, n) # Null => Parent(t, Child(t, x, n)) = n
      BY DEF Tree, Linked
    <3>2. CASE Child(t, x, n) = e
      BY <2>3, <3>1, <3>2, <1>4, <1>5, <1>8, <1>10, <1>11
    <3>3. CASE Child(t, x, n) # e
      <4>1. Child(u, x, n) = Child(t, x, n)
        BY <2>3, <3>3, <1>10
      <4>2. CASE Child(t, x, n) # Null
        <5>1. Child(t, x, n) \notin {c, d}
          BY <2>3, <3>1, <4>2, <1>5, <1>7
        <5> QED BY <3>1, <3>3, <4>1, <4>2, <5>1, <1>11
      <4> QED BY <3>1, <4>1, <4>2
    <3> QED BY <3>2, <3>3
  <2> QED BY <2>1, <2>2, <2>3
<1>13. /\ Root(u) \in I \cup {Null}
       /\ Root(u) # Null => Parent(u, Root(u)) = Null
  <2>1. Root(t) \in I \cup {Null} /\ (Root(t) # Null => Parent(t, Root(t)) = Null)
    BY DEF Tree, Linked
  <2>2. CASE Root(t) = e
    BY <2>1, <2>2, <1>4, <1>5, <1>8, <1>11
  <2>3. CASE Root(t) # e
    BY <2>1, <2>3, <1>4, <1>5, <1>6, <1>7, <1>11
  <2> QED BY <2>2, <2>3
<1>14. ASSUME NEW n \in I, n # Root(u)
       PROVE  Parent(u, n) \in I /\ \E x \in RB!Sides : Child(u, x, Parent(u, n)) = n
  <2>1. CASE n = e
    BY <2>1, <1>5, <1>9, <1>11
  <2>2. CASE n = c
    <3>1. Root(t) # e
      BY <2>2, <1>11, <1>14
    <3>2. p \in I /\ \E x \in RB!Sides : Child(t, x, p) = e
      BY <1>8, <3>1 DEF Tree, Linked
    <3> QED BY <2>2, <3>2, <1>5, <1>8, <1>10, <1>11
  <2>3. CASE n = d
    BY <2>3, <1>2, <1>5, <1>9, <1>11
  <2>4. CASE n \notin {e, c, d}
    <3>1. n # Root(t)
      BY <2>4, <1>11, <1>14
    <3>2. PICK x \in RB!Sides : Parent(t, n) \in I /\ Child(t, x, Parent(t, n)) = n
      BY <3>1 DEF Tree, Linked
    <3>3. Parent(u, n) = Parent(t, n)
      BY <2>4, <1>11
    <3>4. Child(u, x, Parent(t, n)) = n
      BY <2>4, <3>2, <1>2, <1>3, <1>9, <1>10
    <3> QED BY <3>2, <3>3, <3>4
  <2> QED BY <2>1, <2>2, <2>3, <2>4
<1>15. Linked(u, I)
  BY <1>4, <1>12, <1>13, <1>14 DEF Linked
<1>16. PICK C : C = [B EXCEPT ![e] = {e} \cup At(B, l) \cup At(B, d), ![c] = At(B, e)]
  OBVIOUS
<1>17. /\ C \in [RB!Place -> SUBSET I] /\ At(C, c) = At(B, e)
       /\ At(C, e) = {e} \cup At(B, l) \cup At(B, d)
       /\ \A n \in RB!Place : n \notin {e, c} => At(C, n) = At(B, n)
  <2>1. B \in [RB!Place -> SUBSET I] /\ {e} \cup At(B, l) \cup At(B, d) \in SUBSET I
        /\ At(B, e) \in SUBSET I
    BY <1>4, <1>5, <1>6 DEF Tree, Below
  <2> QED BY <1>4, <1>5, <1>16, <2>1 DEF At
<1>18. At(C, Root(u)) = I
  <2>1. /\ Root(t) \in I \cup {Null} /\ At(B, Root(t)) = I
        /\ Root(t) # Null => Parent(t, Root(t)) = Null
    BY DEF Tree, Linked, Below
  <2>2. Root(t) \in RB!Place /\ Root(t) # c
    BY <2>1, <1>4, <1>5, <1>7
  <2> QED BY <2>1, <2>2, <1>11, <1>17
<1>19. At(C, l) = At(B, l) /\ At(C, d) = At(B, d) /\ At(C, r) = At(B, r)
  BY <1>4, <1>5, <1>6, <1>17
<1>20. ASSUME NEW n \in I
       PROVE  At(C, n) = {n} \cup At(C, Child(u, "LEFT", n)) \cup At(C, Child(u, "RIGHT", n))
  <2> SUFFICES At(C, n) = {n} \cup At(C, Child(u, s, n)) \cup At(C, Child(u, o, n))
    <3>1. {n} \cup At(C, Child(u, s, n)) \cup At(C, Child(u, RB!Other(s), n))
           = {n} \cup At(C, Child(u, "LEFT", n)) \cup At(C, Child(u, "RIGHT", n))
      BY BothSides
    <3> QED BY <1>2, <3>1
  <2>1. CASE n = e
    BY <2>1, <1>9, <1>17, <1>19
  <2>2. CASE n = c
    BY <2>2, <1>5, <1>6, <1>9, <1>17, <1>19
  <2>3. CASE n \notin {e, c}
    <3>1. At(B, n) = {n} \cup At(B, Child(t, s, n)) \cup At(B, Child(t, o, n))
      BY <1>2, Halves
    <3>2. \A x \in RB!Sides : At(C, Child(u, x, n)) = At(B, Child(t, x, n))
      <4> TAKE x \in RB!Sides
      <4>1. /\ Child(t, x, n) \in I \cup {Null}
            /\ Child(t, x, n) # Null => Parent(t, Child(t, x, n)) = n
        BY DEF Tree, Linked
      <4>2. Child(t, x, n) # c
        BY <4>1, <2>3, <1>4, <1>5, <1>7
      <4> QED BY <4>1, <4>2, <2>3, <1>4, <1>10, <1>17
    <3>3. At(C, n) = At(B, n)
      BY <2>3, <1>4, <1>17
    <3> QED BY <3>1, <3>2, <3>3, <1>2
  <2> QED BY <2>1, <2>2, <2>3
<1>21. ASSUME NEW n \in I, NEW x \in RB!Sides, NEW m \in At(C, Child(u, x, n))
       PROVE  Before(x, m, n)
  <2>1. \A k \in I, y \in RB!Sides : \A j \in At(B, Child(t, y, k)) : Before(y, j, k)
    BY DEF Tree, Below
  <2>2. CASE n = e
    <3>1. \A j \in At(B, l) : Before(s, j, e)
      BY <2>1, <1>3
    <3>2. \A j \in At(B, d) : Before(o, j, e)
      BY <2>1, <1>2, <1>3, <1>6
    <3> QED BY <2>2, <3>1, <3>2, <1>2, <1>9, <1>19, <1>21
  <2>3. CASE n = c
    <3>1. Before(s, e, c)
      <4>1. Before(o, c, e)
        BY <2>1, <1>2, <1>3, <1>4, <1>5
      <4> QED BY <4>1, <1>2, OtherSide
    <3>2. \A j \in At(B, l) : Before(s, j, c)
      <4>1. \A j \in At(B, l) : Before(s, j, e) /\ j \in Nat
        BY <2>1, <1>3, <1>4, <1>5
      <4> QED BY <4>1, <3>1, <1>4, <1>5 DEF Before
    <3>3. \A j \in At(B, d) : Before(s, j, c)
      BY <2>1, <1>3, <1>5
    <3>4. \A j \in At(B, r) : Before(o, j, c)
      BY <2>1, <1>2, <1>5, <1>3
    <3>5. x = s => m \in {e} \cup At(B, l) \cup At(B, d)
      BY <2>3, <1>9, <1>17, <1>21
    <3>6. x = o => m \in At(B, r)
      BY <2>3, <1>9, <1>19, <1>21
    <3> QED BY <2>3, <3>1, <3>2, <3>3, <3>4, <3>5, <3>6, <1>2
  <2>4. CASE n \notin {e, c}
    <3>1. /\ Child(t, x, n) \in I \cup {Null}
          /\ Child(t, x, n) # Null => Parent(t, Child(t, x, n)) = n
      BY DEF Tree, Linked
    <3>2. Child(t, x, n) # c
      BY <3>1, <2>4, <1>4, <1>5, <1>7
    <3>3. At(C, Child(u, x, n)) = At(B, Child(t, x, n))
      BY <3>1, <3>2, <2>4, <1>4, <1>10, <1>17
    <3> QED BY <3>3, <2>1, <1>21
  <2> QED BY <2>2, <2>3, <2>4
<1>22. Below(u, I, C)
  BY <1>4, <1>17, <1>18, <1>20, <1>21 DEF Below
<1> QED BY <1>15, <1>17, <1>22 DEF Tree, Moved

(* Colors do not matter to a tree, ... *)
LEMMA RecoloredTree ==
  ASSUME NEW t, NEW u, NEW I, NEW B, Tree(t, I, B), SameLinks(t, u)
  PROVE  Tree(u, I, B)
BY DEF Tree, Linked, Below, SameLinks, Child, Parent, Root

(* ... in neither direction. *)
LEMMA SameTree ==
  ASSUME NEW t, NEW u, NEW I, NEW B, Tree(u, I, B), SameLinks(t, u), t \in RB!Trees
  PROVE  Tree(t, I, B)
BY DEF Tree, Linked, Below, SameLinks, Child, Parent, Root

(* Nothing hangs on the nodes S, which are in no tree. *)
Bare(t, S) ==
  \A n \in S : /\ Parent(t, n) = Null /\ t.color[n] = "RED"
               /\ \A s \in RB!Sides : Child(t, s, n) = Null

(* A tree of the nodes I, while those of S are blank *)
Whole(t, I, B, S) == Tree(t, I, B) /\ S \in SUBSET (Keys \ I) /\ Bare(t, S)

(* A rotation leaves the blank nodes blank. *)
LEMMA TurnedWhole ==
  ASSUME NEW t, NEW u, NEW I, NEW B, NEW S, Whole(t, I, B, S), NEW e \in I, NEW s \in RB!Sides,
         NEW c, NEW d, TurnsTo(t, u, e, s, c, d), c # Null
  PROVE  \E C : Whole(u, I, C, S) /\ Moved(B, C, e, c)
<1>1. Tree(t, I, B)
  BY DEF Whole
<1>2. PICK C : Tree(u, I, C) /\ Moved(B, C, e, c)
  BY <1>1, TurnedTree
<1>3. c \in I /\ d \in I \cup {Null}
  <2>1. c = Child(t, RB!Other(s), e) /\ d = Child(t, s, c)
    BY DEF TurnsTo
  <2> QED BY <2>1, <1>1, Rotated
<1>4. Bare(u, S)
  <2> SUFFICES ASSUME NEW n \in S
               PROVE  /\ Parent(u, n) = Null /\ u.color[n] = "RED"
                      /\ \A x \in RB!Sides : Child(u, x, n) = Null
    BY DEF Bare
  <2>1. n \in Keys /\ n \notin I /\ n # Null /\ e # Null
    BY <1>1, HasNodes DEF Whole, Nodes
  <2>2. /\ Parent(t, n) = Null /\ t.color[n] = "RED"
        /\ \A x \in RB!Sides : Child(t, x, n) = Null
    BY DEF Whole, Bare
  <2> QED BY <2>1, <2>2, <1>3 DEF TurnsTo
<1> QED BY <1>2, <1>4 DEF Whole

(* What changes the colors of the nodes I only *)
LEMMA RecoloredWhole ==
  ASSUME NEW t, NEW u, NEW I, NEW B, NEW S, Whole(t, I, B, S), SameLinks(t, u),
         \A n \in Keys : n \notin I => u.color[n] = t.color[n]
  PROVE  Whole(u, I, B, S)
<1>1. Tree(u, I, B)
  BY RecoloredTree DEF Whole
<1>2. Bare(u, S)
  BY DEF Whole, Bare, SameLinks, Child, Parent, Root
<1> QED BY <1>1, <1>2 DEF Whole

------------------------------------------------------------------------------
(* Colors *)

Black(t, n) == IF RB!Red(t, n) THEN 0 ELSE 1

(* At(H, n) is the number of black nodes on any way down from n. *)
Level(t, I, H) ==
  /\ H \in [RB!Place -> Nat] /\ At(H, Null) = 0
  /\ \A n \in I, x \in RB!Sides : At(H, n) = At(H, Child(t, x, n)) + Black(t, n)

(* The same but for those on the side s below p, which are one short. *)
Short(n, x, p, s) == IF n = p /\ x = s THEN 1 ELSE 0

Lacking(t, I, H, p, s) ==
  /\ H \in [RB!Place -> Nat] /\ At(H, Null) = 0
  /\ \A n \in I, x \in RB!Sides : At(H, n) = At(H, Child(t, x, n)) + Short(n, x, p, s) + Black(t, n)

(* A red node has no red child, unless one of the two is in P or C. *)
Calm(t, I, P, C) ==
  \A n \in I, s \in RB!Sides :
    RB!Red(t, n) /\ RB!Red(t, Child(t, s, n)) => n \in P \/ Child(t, s, n) \in C

(* The root is black, unless it is e. *)
RootBlack(t, e) == RB!Red(t, Root(t)) => Root(t) = e

(* A rotation leaves the colors as they are. *)
LEMMA RedAfterTurn ==
  ASSUME NEW t, NEW u, NEW e, NEW s, NEW c, NEW d, TurnsTo(t, u, e, s, c, d)
  PROVE  \A n : (RB!Red(u, n) <=> RB!Red(t, n)) /\ Black(u, n) = Black(t, n)
BY DEF TurnsTo, RB!Red, Black

(* The colors after RB_SET_BLACKRED *)
LEMMA RedAfterRecoloring ==
  ASSUME NEW t, NEW u, NEW b \in Keys, NEW r \in Keys, Recolored(t, u, b, r)
  PROVE  /\ RB!Red(u, r) /\ (b # r => ~RB!Red(u, b))
         /\ \A n \in RB!Place : n \notin {b, r} => (RB!Red(u, n) <=> RB!Red(t, n))
BY KeysFinite DEF Recolored, RB!Red, RB!Place

(* The colors after Blacken *)
LEMMA RedAfterBlackening ==
  ASSUME NEW t, NEW u, NEW b \in RB!Place, Blackened(t, u, b)
  PROVE  /\ ~RB!Red(u, b)
         /\ \A n \in RB!Place : n # b => (RB!Red(u, n) <=> RB!Red(t, n))
BY KeysFinite DEF Blackened, RB!Red, RB!Place

(* G gives two nodes other heights than H. *)
Adjusted(H, G, a, h, b, k) ==
  /\ G \in [RB!Place -> Nat] /\ At(G, a) = h /\ At(G, b) = k
  /\ \A n \in RB!Place : n \notin {a, b} => At(G, n) = At(H, n)

(* Two nodes can be given other heights. *)
LEMMA TwoHeights ==
  ASSUME NEW H \in [RB!Place -> Nat], NEW a \in RB!Place, NEW b \in RB!Place, a # b,
         NEW h \in Nat, NEW k \in Nat
  PROVE  \E G : Adjusted(H, G, a, h, b, k)
<1>1. PICK G : G = [H EXCEPT ![a] = h, ![b] = k]
  OBVIOUS
<1>2. Adjusted(H, G, a, h, b, k)
  BY <1>1 DEF Adjusted, At
<1> QED BY <1>2

(* The heights of a node and of a child *)
LEMMA LevelAt ==
  ASSUME NEW t, NEW I, NEW B, NEW H, Tree(t, I, B), Level(t, I, H),
         NEW n \in I, NEW x \in RB!Sides, NEW m, m = Child(t, x, n)
  PROVE  At(H, n) = At(H, m) + Black(t, n) /\ At(H, n) \in Nat /\ At(H, m) \in Nat
<1>1. n \in RB!Place /\ m \in RB!Place
  BY HasNodes, Halves DEF Nodes
<1>2. At(H, n) \in Nat /\ At(H, m) \in Nat
  BY <1>1, HeightsAreNumbers DEF Level
<1> QED BY <1>2 DEF Level

(* v is t in other colors, and u is v after a rotation. *)
Turning(t, v, u, I, B, e, s, o, c, d, l, r) ==
  /\ Tree(v, I, B) /\ SameLinks(t, v) /\ t \in RB!Trees
  /\ Hung(v, u, I, B, e, s, o, c, d, l, r)

(* Above the two nodes that turn, the heights are as before. *)
LEMMA OthersStay ==
  ASSUME NEW t, NEW v, NEW u, NEW I, NEW B, NEW e, NEW s, NEW o, NEW c, NEW d, NEW l, NEW r,
         Turning(t, v, u, I, B, e, s, o, c, d, l, r),
         NEW H, NEW G, NEW k, NEW h, h = At(H, e), Adjusted(H, G, e, k, c, h),
         NEW n \in I, n # e, n # c, NEW x \in RB!Sides,
         NEW y, y = Child(t, x, n), NEW z, z = Child(u, x, n)
  PROVE  At(G, n) = At(H, n) /\ At(G, z) = At(H, y)
<1>1. Tree(v, I, B) /\ SameLinks(t, v) /\ Hung(v, u, I, B, e, s, o, c, d, l, r)
  BY DEF Turning
<1>2. t.child = v.child
  BY <1>1 DEF SameLinks
<1>3. y \in I \cup {Null}
  BY <1>1, <1>2, Halves DEF Child
<1>4. \A m \in I \cup {Null} : m \in RB!Place
  BY <1>1, HasNodes DEF Nodes
<1>5. (z = IF y = e THEN c ELSE y) /\ y # c
  BY <1>1, <1>2, HungAbove DEF Child
<1>6. At(G, n) = At(H, n)
  BY <1>4 DEF Adjusted
<1>7. At(G, z) = At(H, y)
  BY <1>3, <1>4, <1>5 DEF Adjusted
<1> QED BY <1>6, <1>7

(* The heights k of e and h of c are those that the rest asks for. *)
HeightsFit(u, H, k, h, e, c, l, d, r) ==
  /\ k = At(H, l) + Black(u, e) /\ k = At(H, d) + Black(u, e)
  /\ h = k + Black(u, c) /\ h = At(H, r) + Black(u, c)

(* With heights that fit, a rotation leaves all ways equally long. *)
LEMMA LevelTurned ==
  ASSUME NEW t, NEW v, NEW u, NEW I, NEW B, NEW e, NEW s, NEW o, NEW c, NEW d, NEW l, NEW r,
         Turning(t, v, u, I, B, e, s, o, c, d, l, r),
         NEW H, NEW G, NEW k, NEW h, h = At(H, e), Adjusted(H, G, e, k, c, h),
         Level(t, I, H), e \in I,
         \A n \in I : n \notin {e, c} => Black(u, n) = Black(t, n),
         HeightsFit(u, H, k, h, e, c, l, d, r)
  PROVE  Level(u, I, G)
<1>1. Tree(v, I, B) /\ SameLinks(t, v) /\ t \in RB!Trees /\ Hung(v, u, I, B, e, s, o, c, d, l, r)
  BY DEF Turning
<1>2. /\ \A m \in I \cup {Null} : m \in RB!Place
      /\ Null \notin I
  BY <1>1, HasNodes DEF Nodes
<1>3. /\ G \in [RB!Place -> Nat] /\ At(G, e) = k /\ At(G, c) = h
      /\ \A n \in RB!Place : n \notin {e, c} => At(G, n) = At(H, n)
  BY DEF Adjusted
<1>4. c \in I /\ l \in I \cup {Null} /\ d \in I \cup {Null} /\ r \in I \cup {Null}
      /\ l \notin {e, c} /\ d \notin {e, c} /\ r \notin {e, c}
  BY <1>1 DEF Hung
<1>5. At(G, Null) = 0
  BY <1>2, <1>3, <1>4 DEF Level
<1>6. ASSUME NEW n \in I, NEW x \in RB!Sides
      PROVE  At(G, n) = At(G, Child(u, x, n)) + Black(u, n)
  <2>1. CASE n = e
    <3>1. Child(u, x, n) \in {l, d}
      BY <2>1, <1>1, HungWhere
    <3> QED BY <2>1, <3>1, <1>2, <1>3, <1>4 DEF HeightsFit
  <2>2. CASE n = c
    <3>1. Child(u, x, n) \in {e, r}
      BY <2>2, <1>1, HungWhere
    <3> QED BY <2>2, <3>1, <1>2, <1>3, <1>4 DEF HeightsFit
  <2>3. CASE n \notin {e, c}
    <3>1. PICK y, z : y = Child(t, x, n) /\ z = Child(u, x, n)
      OBVIOUS
    <3>2. At(H, n) = At(H, y) + Black(t, n)
      <4>1. Tree(t, I, B)
        BY <1>1, SameTree
      <4> QED BY <4>1, <3>1, LevelAt
    <3>3. At(G, n) = At(H, n) /\ At(G, z) = At(H, y)
      BY <2>3, <3>1, OthersStay
    <3> QED BY <2>3, <3>1, <3>2, <3>3
  <2> QED BY <2>1, <2>2, <2>3
<1> QED BY <1>3, <1>5, <1>6 DEF Level

(* When a rotation leaves no red node below a red one *)
LEMMA CalmTurned ==
  ASSUME NEW t, NEW v, NEW u, NEW I, NEW B, NEW e, NEW s, NEW o, NEW c, NEW d, NEW l, NEW r,
         Turning(t, v, u, I, B, e, s, o, c, d, l, r),
         NEW P, NEW C, NEW D, Calm(t, I, P, C), e \notin C, \A n \in C : n = c \/ n \in D,
         \A n \in I \cup {Null} : n \notin {e, c} => (RB!Red(u, n) <=> RB!Red(t, n)),
         RB!Red(u, c) => RB!Red(t, e),
         RB!Red(u, e) => ~RB!Red(u, l) /\ ~RB!Red(u, d),
         RB!Red(u, c) => (~RB!Red(u, e) \/ e \in D) /\ ~RB!Red(u, r)
  PROVE  Calm(u, I, P, D)
<1> SUFFICES ASSUME NEW n \in I, NEW x \in RB!Sides, NEW m, m = Child(u, x, n),
                    RB!Red(u, n), RB!Red(u, m), n \notin P
             PROVE  m \in D
  BY DEF Calm
<1>1. Tree(v, I, B) /\ SameLinks(t, v) /\ t \in RB!Trees /\ Hung(v, u, I, B, e, s, o, c, d, l, r)
  BY DEF Turning
<1>2. CASE n = e
  BY <1>1, <1>2, HungWhere
<1>3. CASE n = c
  BY <1>1, <1>3, HungWhere
<1>4. CASE n \notin {e, c}
  <2>1. t.child = v.child
    BY <1>1 DEF SameLinks
  <2>2. Child(t, x, n) \in I \cup {Null} /\ Child(t, x, n) # c
        /\ m = IF Child(t, x, n) = e THEN c ELSE Child(t, x, n)
    BY <1>1, <1>4, <2>1, Halves, HungAbove DEF Child
  <2>3. RB!Red(t, n)
    BY <1>4
  <2>4. CASE Child(t, x, n) = e
    BY <2>2, <2>3, <2>4 DEF Calm
  <2>5. CASE Child(t, x, n) # e
    BY <2>2, <2>3, <2>5 DEF Calm
  <2> QED BY <2>4, <2>5
<1> QED BY <1>2, <1>3, <1>4

------------------------------------------------------------------------------
(* Insertion *)

(* The red e is the only node that may hang on another red one. *)
Inserting(t, I, B, H, S, e) ==
  /\ Whole(t, I, B, S) /\ Level(t, I, H)
  /\ Calm(t, I, {}, {e}) /\ RootBlack(t, e)
  /\ e \in I /\ RB!Red(t, e)

(* It hangs on the red p, and that on the side s of g. *)
UnderRed(t, I, e, p, g, s) ==
  /\ p \in I /\ g \in I /\ p # e /\ g # e /\ g # p /\ s \in RB!Sides
  /\ p = Parent(t, e) /\ g = Parent(t, p) /\ Child(t, s, g) = p
  /\ \E x \in RB!Sides : Child(t, x, p) = e
  /\ RB!Red(t, p) /\ ~RB!Red(t, g) /\ Root(t) # e /\ Root(t) # p

(* A red node below a red one has a grandparent, which is black. *)
LEMMA FindsGrandparent ==
  ASSUME NEW t, NEW I, NEW B, NEW H, NEW S, NEW e, Inserting(t, I, B, H, S, e),
         NEW p, p = Parent(t, e), RB!Red(t, p), NEW g, g = Parent(t, p),
         NEW s, s = RB!SideOf(t, g, p)
  PROVE  UnderRed(t, I, e, p, g, s)
<1>1. Tree(t, I, B) /\ Calm(t, I, {}, {e}) /\ RootBlack(t, e) /\ e \in I
  BY DEF Inserting, Whole
<1>2. Root(t) # e
  <2>1. p # Null
    BY DEF RB!Red
  <2>2. Root(t) # Null => Parent(t, Root(t)) = Null
    BY <1>1 DEF Tree, Linked
  <2>3. e # Null
    BY <1>1, HasNodes DEF Nodes
  <2> QED BY <2>1, <2>2, <2>3
<1>3. p \in I /\ \E x \in RB!Sides : Child(t, x, p) = e
  BY <1>1, <1>2 DEF Tree, Linked
<1>4. p # e
  BY <1>1, <1>3, Halves
<1>5. Root(t) # p
  BY <1>4 DEF Inserting, RootBlack
<1>6. g \in I /\ s \in RB!Sides /\ Child(t, s, g) = p
  BY <1>1, <1>3, <1>5, SideIsFound
<1>7. ~RB!Red(t, g)
  BY <1>1, <1>4, <1>6 DEF Calm
<1>8. g # p
  BY <1>7
<1>9. g # e
  BY <1>7 DEF Inserting
<1> QED BY <1>2, <1>3, <1>4, <1>5, <1>6, <1>7, <1>8, <1>9 DEF UnderRed

(* A child hangs on one node. *)
LEMMA ParentIsOne ==
  ASSUME NEW t, NEW I, NEW B, Tree(t, I, B), NEW n \in I, NEW x \in RB!Sides,
         NEW m, m = Child(t, x, n), m # Null
  PROVE  m \in I /\ Parent(t, m) = n /\ m # n /\ m # Root(t)
<1>1. m \in I /\ Parent(t, m) = n
  BY DEF Tree, Linked
<1>2. m # n
  BY Halves
<1>3. n # Null
  BY Halves
<1> QED BY <1>1, <1>2, <1>3 DEF Tree, Linked

(* With a red uncle, all the family changes colors. *)
LEMMA UncleRed ==
  ASSUME NEW t, NEW I, NEW B, NEW H, NEW S, NEW e, Inserting(t, I, B, H, S, e),
         NEW p, NEW g, NEW s, UnderRed(t, I, e, p, g, s),
         NEW a, a = Child(t, RB!Other(s), g), RB!Red(t, a),
         NEW u, u = RB!SetBlackRed(RB!Blacken(t, a), p, g)
  PROVE  \E G : Inserting(u, I, B, G, S, g) /\ u \in RB!Trees
<1>1. /\ Whole(t, I, B, S) /\ Tree(t, I, B) /\ Level(t, I, H)
      /\ Calm(t, I, {}, {e}) /\ RootBlack(t, e)
  BY DEF Inserting, Whole
<1>2. Nodes(I, B) /\ t \in RB!Trees
  BY <1>1, HasNodes
<1>3. PICK o \in RB!Sides : o = RB!Other(s) /\ o # s /\ \A x \in RB!Sides : x = s \/ x = o
  BY OtherSide DEF UnderRed
<1>4. a # Null
  BY DEF RB!Red
<1>5. a \in I /\ Parent(t, a) = g /\ a # g /\ a # Root(t) /\ p # Root(t)
  <2>1. g \in I /\ p # Root(t)
    BY DEF UnderRed
  <2> QED BY <2>1, <1>1, <1>3, <1>4, ParentIsOne
<1>6. a # p
  <2>1. Parts(I, B, g, p, a)
    BY <1>1, HasParts DEF UnderRed
  <2> QED BY <1>2, <2>1 DEF Parts, UnderRed, Nodes
<1>7. PICK v : v = RB!Blacken(t, a)
  OBVIOUS
<1>8. Blackened(t, v, a) /\ a \in RB!Place
  BY <1>2, <1>5, <1>7, BlackenWrites DEF Nodes
<1>9. Recolored(v, u, p, g) /\ p \in Keys /\ g \in Keys
  <2>1. v \in RB!Trees
    BY <1>8 DEF Blackened, SameLinks
  <2>2. p \in Keys /\ g \in Keys
    BY <1>2 DEF UnderRed, Nodes
  <2> QED BY <1>7, <2>1, <2>2, SetBlackRedWrites
<1>10. /\ RB!Red(u, g) /\ ~RB!Red(u, p) /\ ~RB!Red(u, a)
       /\ \A n \in I \cup {Null} : n \notin {a, p, g} => (RB!Red(u, n) <=> RB!Red(t, n))
  <2>1. \A n \in I \cup {Null} : n \in RB!Place
    BY <1>2 DEF Nodes
  <2>2. /\ ~RB!Red(v, a)
        /\ \A n \in RB!Place : n # a => (RB!Red(v, n) <=> RB!Red(t, n))
    BY <1>8, RedAfterBlackening
  <2>3. /\ RB!Red(u, g) /\ (p # g => ~RB!Red(u, p))
        /\ \A n \in RB!Place : n \notin {p, g} => (RB!Red(u, n) <=> RB!Red(v, n))
    BY <1>9, RedAfterRecoloring
  <2> QED BY <2>1, <2>2, <2>3, <1>5, <1>6, <1>8 DEF UnderRed
<1>11. SameLinks(t, u)
  BY <1>8, <1>9 DEF Blackened, Recolored, SameLinks
<1>12. Whole(u, I, B, S)
  <2>1. \A n \in Keys : n \notin I => u.color[n] = t.color[n]
    BY <1>5, <1>8, <1>9 DEF Blackened, Recolored, UnderRed
  <2> QED BY <1>1, <1>11, <2>1, RecoloredWhole
<1>13. PICK G : Adjusted(H, G, p, At(H, p) + 1, a, At(H, a) + 1)
  <2>1. H \in [RB!Place -> Nat] /\ p \in RB!Place /\ a \in RB!Place
    BY <1>1, <1>2, <1>5 DEF Level, Nodes, UnderRed
  <2>2. At(H, p) + 1 \in Nat /\ At(H, a) + 1 \in Nat
    BY <2>1, HeightsAreNumbers
  <2> QED BY <1>6, <2>1, <2>2, TwoHeights
<1>14. /\ G \in [RB!Place -> Nat] /\ At(G, p) = At(H, p) + 1 /\ At(G, a) = At(H, a) + 1
       /\ \A n \in I \cup {Null} : n \notin {p, a} => At(G, n) = At(H, n)
  BY <1>2, <1>13 DEF Adjusted, Nodes
<1>15. Level(u, I, G)
  <2>1. At(G, Null) = 0
    BY <1>1, <1>2, <1>5, <1>14 DEF Level, Nodes, UnderRed
  <2>2. ASSUME NEW n \in I, NEW x \in RB!Sides
        PROVE  At(G, n) = At(G, Child(u, x, n)) + Black(u, n)
    <3>1. /\ At(H, n) = At(H, Child(t, x, n)) + Black(t, n)
          /\ At(H, n) \in Nat /\ At(H, Child(t, x, n)) \in Nat
      <4>1. n \in RB!Place /\ Child(t, x, n) \in RB!Place
        BY <1>1, <1>2, Halves DEF Nodes
      <4> QED BY <4>1, <1>1, HeightsAreNumbers DEF Level
    <3>2. Child(u, x, n) = Child(t, x, n) /\ Child(t, x, n) \in I \cup {Null}
      BY <1>1, <1>11, Halves DEF SameLinks, Child
    <3>3. Child(t, x, n) # Null => Parent(t, Child(t, x, n)) = n
      BY <1>1 DEF Tree, Linked
    <3>4. p # Null /\ Parent(t, p) = g
      BY <1>2 DEF Nodes, UnderRed
    <3>5. CASE n = g
      <4>1. Child(t, x, n) \in {p, a}
        BY <1>3, <3>5 DEF UnderRed
      <4>2. Black(t, n) = 1 /\ Black(u, n) = 0
        BY <3>5, <1>10 DEF UnderRed, Black
      <4>3. n \notin {p, a}
        BY <3>5, <1>5 DEF UnderRed
      <4> QED BY <4>1, <4>2, <4>3, <3>1, <3>2, <1>14
    <3>6. CASE n # g
      <4>1. Child(t, x, n) \notin {p, a}
        BY <3>3, <3>4, <3>6, <1>4, <1>5
      <4>2. At(G, Child(t, x, n)) = At(H, Child(t, x, n))
        BY <4>1, <3>2, <1>14
      <4>3. CASE n \in {p, a}
        <5>1. Black(t, n) = 0 /\ Black(u, n) = 1 /\ At(G, n) = At(H, n) + 1
          BY <4>3, <1>10, <1>14 DEF UnderRed, Black
        <5> QED BY <5>1, <4>2, <3>1, <3>2
      <4>4. CASE n \notin {p, a}
        <5>1. Black(t, n) = Black(u, n) /\ At(G, n) = At(H, n)
          BY <4>4, <3>6, <1>10, <1>14 DEF Black
        <5> QED BY <5>1, <4>2, <3>1, <3>2
      <4> QED BY <4>3, <4>4
    <3> QED BY <3>5, <3>6
  <2> QED BY <1>14, <2>1, <2>2 DEF Level
<1>16. Calm(u, I, {}, {g})
  <2> SUFFICES ASSUME NEW n \in I, NEW x \in RB!Sides, NEW m, m = Child(t, x, n),
                      RB!Red(u, n), RB!Red(u, m), m # g
               PROVE  FALSE
    BY <1>11 DEF Calm, SameLinks, Child
  <2>1. m \in I /\ Parent(t, m) = n
    <3>1. m # Null
      BY DEF RB!Red
    <3> QED BY <3>1, <1>1, ParentIsOne
  <2>2. m \notin {a, p, g} /\ RB!Red(t, m)
    BY <1>10, <2>1
  <2>3. n # g
    BY <1>3, <2>2 DEF UnderRed
  <2>4. RB!Red(t, n) /\ n \notin {a, p}
    BY <1>10, <2>3
  <2>5. m = e
    BY <1>1, <2>2, <2>4 DEF Calm
  <2> QED BY <2>1, <2>4, <2>5 DEF UnderRed
<1>17. RootBlack(u, g)
  <2> SUFFICES ASSUME RB!Red(u, Root(t)), Root(t) # g PROVE FALSE
    BY <1>11 DEF RootBlack, SameLinks
  <2>1. Root(t) \in I
    BY <1>1 DEF Tree, Linked, RB!Red
  <2>2. RB!Red(t, Root(t))
    BY <1>5, <1>10, <2>1
  <2> QED BY <2>2, <1>1 DEF RootBlack, UnderRed
<1> QED BY <1>8, <1>9, <1>10, <1>12, <1>15, <1>16, <1>17
        DEF Inserting, UnderRed, Recolored, SameLinks

(* Trees with the same links *)
LEMMA SameLinksRead ==
  ASSUME NEW t, NEW u, SameLinks(t, u)
  PROVE  /\ Root(u) = Root(t) /\ \A n : Parent(u, n) = Parent(t, n)
         /\ \A x, n : Child(u, x, n) = Child(t, x, n)
BY DEF SameLinks, Child, Parent, Root

(* The two colors *)
LEMMA RedBlack ==
  ASSUME NEW t, NEW n
  PROVE  /\ RB!Red(t, n) => Black(t, n) = 0
         /\ ~RB!Red(t, n) => Black(t, n) = 1
BY DEF Black

(* The nodes around the two that turn *)
LEMMA HungNodes ==
  ASSUME NEW t, NEW u, NEW I, NEW B, NEW e, NEW s, NEW o, NEW c, NEW d, NEW l, NEW r,
         Hung(t, u, I, B, e, s, o, c, d, l, r)
  PROVE  /\ c \in I /\ d \in I \cup {Null} /\ l \in I \cup {Null} /\ r \in I \cup {Null}
         /\ c # e /\ d \notin {c, e} /\ l \notin {c, e} /\ r \notin {c, e}
         /\ (l # Null => l # d) /\ (d # Null => d # r)
         /\ c = Child(t, o, e) /\ d = Child(t, s, c) /\ l = Child(t, s, e) /\ r = Child(t, o, c)
         /\ o \in RB!Sides /\ o = RB!Other(s) /\ s = RB!Other(o)
BY DEF Hung

(* If the red e is the inner child of p, it takes the place of p. *)
LEMMA InnerTurned ==
  ASSUME NEW t, NEW I, NEW B, NEW H, NEW S, NEW e, Inserting(t, I, B, H, S, e),
         NEW p, NEW g, NEW s, UnderRed(t, I, e, p, g, s), Child(t, RB!Other(s), p) = e,
         NEW a, a = Child(t, RB!Other(s), g), ~RB!Red(t, a),
         NEW u, u = RB!Rotate(t, p, s)
  PROVE  /\ \E C, G : Inserting(u, I, C, G, S, p)
         /\ UnderRed(u, I, p, e, g, s) /\ Child(u, s, e) = p
         /\ a = Child(u, RB!Other(s), g) /\ ~RB!Red(u, a) /\ u \in RB!Trees
<1>1. /\ Whole(t, I, B, S) /\ Tree(t, I, B) /\ Level(t, I, H)
      /\ Calm(t, I, {}, {e}) /\ RootBlack(t, e) /\ RB!Red(t, e) /\ e \in I
  BY DEF Inserting, Whole
<1>2. Nodes(I, B) /\ t \in RB!Trees
  BY <1>1, HasNodes
<1>3. /\ p \in I /\ g \in I /\ p # e /\ g # e /\ g # p /\ s \in RB!Sides
      /\ p = Parent(t, e) /\ g = Parent(t, p) /\ Child(t, s, g) = p
      /\ RB!Red(t, p) /\ ~RB!Red(t, g) /\ Root(t) # e /\ Root(t) # p
  BY DEF UnderRed
<1>4. e # Null /\ p # Null /\ g # Null
  BY <1>1, <1>2, <1>3 DEF Nodes
<1>5. PICK d : TurnsTo(t, u, p, s, e, d)
  BY <1>1, <1>3, <1>4, Rotated
<1>6. PICK o, l, r : Hung(t, u, I, B, p, s, o, e, d, l, r)
  BY <1>1, <1>3, <1>4, <1>5, TurnedLinks
<1>7. PICK C : Whole(u, I, C, S)
  BY <1>1, <1>3, <1>4, <1>5, TurnedWhole
<1>8. /\ d \in I \cup {Null} /\ l \in I \cup {Null} /\ r \in I \cup {Null}
      /\ d \notin {e, p} /\ l \notin {e, p} /\ r \notin {e, p}
      /\ e = Child(t, o, p) /\ d = Child(t, s, e) /\ l = Child(t, s, p) /\ r = Child(t, o, e)
      /\ o \in RB!Sides /\ o = RB!Other(s)
  BY <1>6, HungNodes
<1>9. \A n : (RB!Red(u, n) <=> RB!Red(t, n)) /\ Black(u, n) = Black(t, n)
  BY <1>5, RedAfterTurn
<1>10. ~RB!Red(t, l) /\ ~RB!Red(t, d) /\ ~RB!Red(t, r)
  BY <1>1, <1>3, <1>8 DEF Calm
<1>11. Turning(t, t, u, I, B, p, s, o, e, d, l, r)
  BY <1>1, <1>2, <1>6 DEF Turning, SameLinks
<1>12. Calm(u, I, {}, {p})
  BY <1>1, <1>3, <1>9, <1>10, <1>11, CalmTurned
<1>13. Level(u, I, H)
  <2>1. PICK G : Adjusted(H, G, p, At(H, p), e, At(H, p))
    <3>1. H \in [RB!Place -> Nat] /\ p \in RB!Place /\ e \in RB!Place
      BY <1>1, <1>2, <1>3 DEF Level, Nodes
    <3>2. At(H, p) \in Nat
      BY <3>1, HeightsAreNumbers
    <3> QED BY <1>3, <3>1, <3>2, TwoHeights
  <2>2. /\ At(H, e) = At(H, p) /\ At(H, l) = At(H, p)
        /\ At(H, d) = At(H, p) /\ At(H, r) = At(H, p)
    <3>1. Black(t, p) = 0 /\ Black(t, e) = 0
      BY <1>1, <1>3, RedBlack
    <3>2. At(H, p) = At(H, e) + Black(t, p) /\ At(H, e) \in Nat
      BY <1>1, <1>3, <1>8, LevelAt
    <3>3. At(H, p) = At(H, l) + Black(t, p) /\ At(H, l) \in Nat
      <4>1. l = Child(t, s, p) /\ s \in RB!Sides /\ p \in I
        BY <1>3, <1>8
      <4> QED BY <4>1, <1>1, LevelAt
    <3>4. At(H, e) = At(H, d) + Black(t, e) /\ At(H, d) \in Nat
      BY <1>1, <1>3, <1>8, LevelAt
    <3>5. At(H, e) = At(H, r) + Black(t, e) /\ At(H, r) \in Nat
      BY <1>1, <1>8, LevelAt
    <3> QED BY <3>1, <3>2, <3>3, <3>4, <3>5
  <2>3. Black(u, p) = 0 /\ Black(u, e) = 0 /\ At(H, p) \in Nat
    <3>1. Black(t, p) = 0 /\ Black(t, e) = 0
      BY <1>1, <1>3, RedBlack
    <3>2. At(H, p) \in Nat
      BY <1>1, <1>3, <1>8, LevelAt
    <3> QED BY <3>1, <3>2, <1>9
  <2>4. HeightsFit(u, H, At(H, p), At(H, p), p, e, l, d, r)
    <3> DEFINE k == At(H, p)
    <3>1. /\ k = At(H, l) + Black(u, p) /\ k = At(H, d) + Black(u, p)
          /\ k = k + Black(u, e) /\ k = At(H, r) + Black(u, e)
      BY <2>2, <2>3
    <3> QED BY <3>1 DEF HeightsFit
  <2>5. Level(u, I, G)
    BY <1>1, <1>3, <1>9, <1>11, <2>1, <2>4, LevelTurned
  <2>6. G = H
    <3>1. G \in [RB!Place -> Nat] /\ H \in [RB!Place -> Nat]
      BY <1>1, <2>1 DEF Adjusted, Level
    <3>2. \A n \in RB!Place : G[n] = H[n]
      BY <2>1, <2>2 DEF Adjusted, At
    <3> QED BY <3>1, <3>2
  <2> QED BY <2>5, <2>6
<1>14. /\ Root(u) = Root(t) /\ Parent(u, p) = e /\ Parent(u, e) = g
       /\ Child(u, s, e) = p /\ Child(u, s, g) = e /\ Child(u, o, g) = a
  <2>1. /\ Root(u) = IF Root(t) = p THEN e ELSE Root(t)
        /\ Parent(u, p) = e /\ Parent(u, e) = Parent(t, p) /\ Child(u, s, e) = p
    BY <1>1, <1>3, <1>6 DEF Hung
  <2>2. Child(u, s, g) = e
    BY <1>3, <1>6, HungAbove
  <2>3. a # p
    <3>1. Parts(I, B, g, p, a)
      BY <1>1, <1>3, HasParts
    <3> QED BY <1>4, <3>1 DEF Parts
  <2>4. Child(u, o, g) = a
    BY <1>3, <1>6, <1>8, <2>3, HungAbove
  <2> QED BY <1>3, <2>1, <2>2, <2>4
<1>15. RootBlack(u, p)
  BY <1>1, <1>3, <1>9, <1>14 DEF RootBlack
<1>16. Inserting(u, I, C, H, S, p)
  BY <1>3, <1>7, <1>9, <1>12, <1>13, <1>15 DEF Inserting
<1>17. UnderRed(u, I, p, e, g, s)
  BY <1>1, <1>3, <1>9, <1>14 DEF UnderRed
<1>18. u \in RB!Trees
  BY <1>7, HasNodes DEF Whole
<1> QED BY <1>8, <1>9, <1>14, <1>16, <1>17, <1>18

(* RB_SET_BLACKRED leaves the blank nodes blank. *)
LEMMA RecoloredInside ==
  ASSUME NEW t, NEW I, NEW B, NEW S, Whole(t, I, B, S), NEW b \in I, NEW r \in I, b # r,
         NEW v, v = RB!SetBlackRed(t, b, r)
  PROVE  /\ Whole(v, I, B, S) /\ SameLinks(t, v) /\ RB!Red(v, r) /\ ~RB!Red(v, b)
         /\ \A n \in I \cup {Null} : n \notin {b, r} => (RB!Red(v, n) <=> RB!Red(t, n))
<1>1. Nodes(I, B) /\ t \in RB!Trees
  BY HasNodes DEF Whole
<1>2. Recolored(t, v, b, r) /\ b \in Keys /\ r \in Keys
  BY <1>1, SetBlackRedWrites DEF Nodes
<1>3. SameLinks(t, v) /\ \A n \in Keys : n \notin I => v.color[n] = t.color[n]
  BY <1>2 DEF Recolored
<1>4. Whole(v, I, B, S)
  BY <1>3, RecoloredWhole
<1>5. /\ RB!Red(v, r) /\ (b # r => ~RB!Red(v, b))
      /\ \A n \in RB!Place : n \notin {b, r} => (RB!Red(v, n) <=> RB!Red(t, n))
  BY <1>2, RedAfterRecoloring
<1>6. \A n \in I \cup {Null} : n \in RB!Place
  BY <1>1 DEF Nodes
<1> QED BY <1>3, <1>4, <1>5, <1>6

(* If it is the outer child, p takes the place of g, and all is well. *)
LEMMA OuterRaised ==
  ASSUME NEW t, NEW I, NEW B, NEW H, NEW S, NEW e, Inserting(t, I, B, H, S, e),
         NEW p, NEW g, NEW s, UnderRed(t, I, e, p, g, s), Child(t, s, p) = e,
         NEW a, a = Child(t, RB!Other(s), g), ~RB!Red(t, a),
         NEW u, u = RB!Raised(t, p, g, s)
  PROVE  /\ \E C, G : Inserting(u, I, C, G, S, e)
         /\ ~RB!Red(u, Parent(u, e)) /\ u \in RB!Trees
<1>1. /\ Whole(t, I, B, S) /\ Tree(t, I, B) /\ Level(t, I, H)
      /\ Calm(t, I, {}, {e}) /\ RootBlack(t, e) /\ RB!Red(t, e) /\ e \in I
  BY DEF Inserting, Whole
<1>2. Nodes(I, B) /\ t \in RB!Trees
  BY <1>1, HasNodes
<1>3. /\ p \in I /\ g \in I /\ p # e /\ g # e /\ g # p /\ s \in RB!Sides
      /\ p = Parent(t, e) /\ g = Parent(t, p) /\ Child(t, s, g) = p
      /\ RB!Red(t, p) /\ ~RB!Red(t, g) /\ Root(t) # e /\ Root(t) # p
  BY DEF UnderRed
<1>4. e # Null /\ p # Null /\ g # Null
  BY <1>1, <1>2, <1>3 DEF Nodes
<1>5. PICK w \in RB!Sides : w = RB!Other(s) /\ RB!Other(w) = s
  BY <1>3, OtherSide
<1>6. PICK v : v = RB!SetBlackRed(t, p, g)
  OBVIOUS
<1>7. /\ Whole(v, I, B, S) /\ Tree(v, I, B) /\ SameLinks(t, v) /\ RB!Red(v, g) /\ ~RB!Red(v, p)
      /\ \A n \in I \cup {Null} : n \notin {p, g} => (RB!Red(v, n) <=> RB!Red(t, n))
  BY <1>1, <1>3, <1>6, RecoloredInside DEF Whole
<1>8. \A x, n : Child(v, x, n) = Child(t, x, n) /\ Parent(v, n) = Parent(t, n) /\ Root(v) = Root(t)
  BY <1>7, SameLinksRead
<1>9. u = RB!Rotate(v, g, w)
  BY <1>5, <1>6 DEF RB!Raised
<1>10. PICK d : TurnsTo(v, u, g, w, p, d)
  <2>1. p = Child(v, RB!Other(w), g)
    BY <1>3, <1>5, <1>8
  <2>2. Tree(v, I, B) /\ g \in I /\ w \in RB!Sides /\ p # Null
    BY <1>3, <1>4, <1>7
  <2>3. TurnsTo(v, RB!Rotate(v, g, w), g, w, p, Child(v, w, p))
    BY <2>1, <2>2, Rotated
  <2> QED BY <2>3, <1>9
<1>11. PICK o, l, r : Hung(v, u, I, B, g, w, o, p, d, l, r)
  BY <1>3, <1>4, <1>5, <1>7, <1>10, TurnedLinks
<1>12. PICK C : Whole(u, I, C, S)
  BY <1>3, <1>4, <1>5, <1>7, <1>10, TurnedWhole
<1>13. /\ d \in I \cup {Null} /\ l \in I \cup {Null} /\ r \in I \cup {Null} /\ (d # Null => d # r)
       /\ d \notin {p, g} /\ l \notin {p, g} /\ r \notin {p, g} /\ o = RB!Other(w)
       /\ p = Child(v, o, g) /\ d = Child(v, w, p) /\ l = Child(v, w, g) /\ r = Child(v, o, p)
  BY <1>11, HungNodes
<1>14. o = s /\ l = a /\ r = e /\ d = Child(t, w, p) /\ a = Child(t, w, g)
  BY <1>5, <1>8, <1>13
<1>15. \A n : (RB!Red(u, n) <=> RB!Red(v, n)) /\ Black(u, n) = Black(v, n)
  BY <1>10, RedAfterTurn
<1>16. ~RB!Red(t, d)
  <2>1. d # e
    BY <1>4, <1>13, <1>14
  <2> QED BY <2>1, <1>1, <1>3, <1>5, <1>14 DEF Calm
<1>17. Turning(t, v, u, I, B, g, w, o, p, d, l, r)
  BY <1>2, <1>7, <1>11 DEF Turning
<1>18. /\ ~RB!Red(u, a) /\ ~RB!Red(u, d) /\ RB!Red(u, e) /\ RB!Red(u, g) /\ ~RB!Red(u, p)
       /\ \A n \in I \cup {Null} : n \notin {p, g} => (RB!Red(u, n) <=> RB!Red(t, n))
  <2>1. a \in I \cup {Null} /\ a \notin {p, g}
    BY <1>13, <1>14
  <2> QED BY <2>1, <1>1, <1>3, <1>7, <1>13, <1>15, <1>16
<1>19. Calm(u, I, {}, {e})
  BY <1>1, <1>3, <1>14, <1>17, <1>18, CalmTurned
<1>20. \E G : Level(u, I, G)
  <2>1. Black(t, p) = 0 /\ Black(t, g) = 1 /\ Black(u, p) = 1 /\ Black(u, g) = 0
    BY <1>3, <1>18, RedBlack
  <2>2. At(H, g) = At(H, p) + Black(t, g) /\ At(H, p) \in Nat
    BY <1>1, <1>3, LevelAt
  <2>3. At(H, g) = At(H, a) + Black(t, g) /\ At(H, a) \in Nat
    BY <1>1, <1>3, <1>5, <1>14, LevelAt
  <2>4. At(H, p) = At(H, d) + Black(t, p) /\ At(H, d) \in Nat
    BY <1>1, <1>3, <1>5, <1>14, LevelAt
  <2>5. At(H, p) = At(H, e) + Black(t, p) /\ At(H, e) \in Nat
    BY <1>1, <1>3, LevelAt
  <2>6. PICK k \in Nat : /\ At(H, p) = k /\ At(H, a) = k /\ At(H, d) = k /\ At(H, e) = k
                         /\ At(H, g) = k + 1
    BY <2>1, <2>2, <2>3, <2>4, <2>5
  <2>7. PICK h \in Nat : h = k + 1
    OBVIOUS
  <2>8. PICK G : Adjusted(H, G, g, k, p, h)
    <3>1. H \in [RB!Place -> Nat] /\ p \in RB!Place /\ g \in RB!Place
      BY <1>1, <1>2, <1>3 DEF Level, Nodes
    <3> QED BY <1>3, <3>1, TwoHeights
  <2>9. HeightsFit(u, H, k, h, g, p, a, d, e)
    BY <2>1, <2>6, <2>7 DEF HeightsFit
  <2>10. \A n \in I : n \notin {g, p} => Black(u, n) = Black(t, n)
    BY <1>18 DEF Black
  <2>11. h = At(H, g)
    BY <2>6, <2>7
  <2> QED BY <1>1, <1>3, <1>14, <1>17, <2>8, <2>9, <2>10, <2>11, LevelTurned
<1>21. Parent(u, e) = p
  <2>1. Parent(u, e) = IF e = g THEN p ELSE IF e = p THEN Parent(v, g)
                       ELSE IF e = d THEN g ELSE Parent(v, e)
    BY <1>1, <1>11 DEF Hung
  <2> QED BY <2>1, <1>3, <1>4, <1>8, <1>13, <1>14
<1>22. RootBlack(u, e)
  <2>1. Root(u) = IF Root(v) = g THEN p ELSE Root(v)
    BY <1>11 DEF Hung
  <2>2. Root(t) \in I \cup {Null}
    BY <1>1 DEF Tree, Linked
  <2> QED BY <2>1, <2>2, <1>1, <1>3, <1>8, <1>18 DEF RootBlack
<1>23. u \in RB!Trees
  BY <1>12, HasNodes DEF Whole
<1> QED BY <1>1, <1>12, <1>18, <1>19, <1>20, <1>21, <1>22, <1>23 DEF Inserting

(* A red-black tree: the invariant of the map *)
Balance(t, I, B, H, S) ==
  Whole(t, I, B, S) /\ Level(t, I, H) /\ Calm(t, I, {}, {}) /\ ~RB!Red(t, Root(t))

(* Blackening the root lengthens all ways by one. *)
LEMMA BlackensRoot ==
  ASSUME NEW t, NEW I, NEW B, NEW H, NEW S, Whole(t, I, B, S), Level(t, I, H),
         NEW a, a = Root(t), Calm(t, I, {a}, {}), NEW u, u = RB!Blacken(t, a)
  PROVE  \E G : Balance(u, I, B, G, S)
<1>1. Tree(t, I, B) /\ Nodes(I, B) /\ t \in RB!Trees
  BY HasNodes DEF Whole
<1>2. a \in I \cup {Null} /\ a \in RB!Place
  BY <1>1 DEF Tree, Linked, Nodes
<1>3. Blackened(t, u, a)
  BY <1>1, <1>2, BlackenWrites
<1>4. /\ SameLinks(t, u) /\ ~RB!Red(u, a)
      /\ \A n \in I \cup {Null} : n # a => (RB!Red(u, n) <=> RB!Red(t, n))
  <2>1. SameLinks(t, u)
    BY <1>3 DEF Blackened
  <2>2. ~RB!Red(u, a) /\ \A n \in RB!Place : n # a => (RB!Red(u, n) <=> RB!Red(t, n))
    BY <1>2, <1>3, RedAfterBlackening
  <2>3. \A n \in I \cup {Null} : n \in RB!Place
    BY <1>1 DEF Nodes
  <2> QED BY <2>1, <2>2, <2>3
<1>5. \A x, n : Child(u, x, n) = Child(t, x, n) /\ Root(u) = a
  BY <1>4, SameLinksRead
<1>6. Whole(u, I, B, S)
  <2>1. CASE a = Null
    <3>1. u = t
      BY <2>1 DEF RB!Blacken
    <3> QED BY <3>1
  <2>2. CASE a # Null
    <3>1. \A n \in Keys : n \notin I => u.color[n] = t.color[n]
      BY <2>2, <1>2, <1>3 DEF Blackened
    <3> QED BY <3>1, <1>4, RecoloredWhole
  <2> QED BY <2>1, <2>2
<1>7. \A n \in I, x \in RB!Sides :
        Child(t, x, n) \in I \cup {Null} /\ Child(t, x, n) # Null => Child(t, x, n) # a
  BY <1>1, ParentIsOne
<1>8. Calm(u, I, {}, {})
  <2> SUFFICES ASSUME NEW n \in I, NEW x \in RB!Sides, NEW m, m = Child(t, x, n),
                      RB!Red(u, n), RB!Red(u, m)
               PROVE  FALSE
    BY <1>5 DEF Calm
  <2>1. m # Null
    BY DEF RB!Red
  <2>2. m \in I /\ m # a
    BY <1>1, <2>1, ParentIsOne
  <2>3. n # a
    BY <1>4
  <2> QED BY <1>4, <2>2, <2>3 DEF Calm
<1>9. \E G : Level(u, I, G)
  <2>1. CASE ~RB!Red(t, a)
    <3>1. \A n \in I : Black(u, n) = Black(t, n)
      BY <2>1, <1>4 DEF Black
    <3>2. Level(u, I, H)
      BY <3>1, <1>5 DEF Level
    <3> QED BY <3>2
  <2>2. CASE RB!Red(t, a)
    <3>1. a \in I
      BY <2>2, <1>2 DEF RB!Red
    <3>2. H \in [RB!Place -> Nat] /\ At(H, a) \in Nat
      BY <1>2, HeightsAreNumbers DEF Level
    <3>3. PICK k \in Nat : k = At(H, a) + 1
      BY <3>2
    <3>4. PICK G : Adjusted(H, G, a, k, Null, 0)
      BY <3>1, <3>2, <1>1, <1>2, TwoHeights DEF Nodes
    <3>5. /\ G \in [RB!Place -> Nat] /\ At(G, a) = k /\ At(G, Null) = 0
          /\ \A n \in I \cup {Null} : n # a => At(G, n) = At(H, n)
      BY <3>4, <1>1 DEF Adjusted, Nodes, Level
    <3>6. ASSUME NEW n \in I, NEW x \in RB!Sides
          PROVE  At(G, n) = At(G, Child(u, x, n)) + Black(u, n)
      <4>1. PICK m : m = Child(t, x, n)
        OBVIOUS
      <4>2. At(H, n) = At(H, m) + Black(t, n) /\ At(H, m) \in Nat
        BY <1>1, <4>1, LevelAt
      <4>3. At(G, m) = At(H, m)
        <5>1. m \in I \cup {Null} /\ (m # Null => m # a)
          BY <1>1, <4>1, Halves, ParentIsOne
        <5> QED BY <5>1, <3>1, <3>5 DEF Level
      <4>4. CASE n = a
        <5>1. Black(t, n) = 0 /\ Black(u, n) = 1
          BY <4>4, <2>2, <1>4, RedBlack
        <5> QED BY <5>1, <4>1, <4>2, <4>3, <4>4, <3>3, <3>5, <1>5
      <4>5. CASE n # a
        <5>1. Black(t, n) = Black(u, n) /\ At(G, n) = At(H, n)
          BY <4>5, <1>4, <3>5 DEF Black
        <5> QED BY <5>1, <4>1, <4>2, <4>3, <1>5
      <4> QED BY <4>4, <4>5
    <3>7. Level(u, I, G)
      BY <3>5, <3>6 DEF Level
    <3> QED BY <3>7
  <2> QED BY <2>1, <2>2
<1> QED BY <1>4, <1>5, <1>6, <1>8, <1>9 DEF Balance

InsertStates == [tree : RB!Trees, elm : Keys]

(* A red parent is met at most N - i rounds from the leaves. *)
InsertsIn(x, I, B, H, S, i) ==
  /\ Inserting(x.tree, I, B, H, S, x.elm)
  /\ RB!Red(x.tree, Parent(x.tree, x.elm)) => Cardinality(At(B, x.elm)) + i > N

(* A round of RB_INSERT_COLOR ends it or comes closer to the root. *)
LEMMA InsertRounds ==
  ASSUME NEW x \in InsertStates, NEW I, NEW B, NEW H, NEW S, NEW i \in 0..N,
         InsertsIn(x, I, B, H, S, i), NEW y, y = RB!InsertRound(x)
  PROVE  \/ ~RB!Red(x.tree, Parent(x.tree, x.elm)) /\ y = x
         \/ i > 0 /\ y \in InsertStates /\ \E C, G : InsertsIn(y, I, C, G, S, i - 1)
<1>1. PICK t \in RB!Trees, e \in Keys : t = x.tree /\ e = x.elm
  BY DEF InsertStates
<1>2. PICK p : p = Parent(t, e)
  OBVIOUS
<1>3. CASE ~RB!Red(t, p)
  BY <1>1, <1>2, <1>3 DEF RB!InsertRound, Parent
<1>4. CASE RB!Red(t, p)
  <2>1. PICK g : g = Parent(t, p)
    OBVIOUS
  <2>2. PICK s : s = RB!SideOf(t, g, p)
    OBVIOUS
  <2>3. Inserting(t, I, B, H, S, e) /\ Cardinality(At(B, e)) + i > N
    BY <1>1, <1>2, <1>4 DEF InsertsIn
  <2>4. UnderRed(t, I, e, p, g, s)
    BY <1>2, <1>4, <2>1, <2>2, <2>3, FindsGrandparent
  <2>5. PICK a : a = Child(t, RB!Other(s), g)
    OBVIOUS
  <2>6. y = IF RB!Red(t, a)
            THEN [tree |-> RB!SetBlackRed(RB!Blacken(t, a), p, g), elm |-> g]
            ELSE [tree |-> RB!Raised(RB!Turned(t, p, e, s),
                                     IF Child(t, RB!Other(s), p) = e THEN e ELSE p, g, s),
                  elm |-> IF Child(t, RB!Other(s), p) = e THEN p ELSE e]
    BY <1>1, <1>2, <1>4, <2>1, <2>2, <2>5 DEF RB!InsertRound, Parent, Child
  <2>7. /\ Tree(t, I, B) /\ Nodes(I, B) /\ e \in I /\ p \in I /\ g \in I
        /\ p \in Keys /\ g \in Keys /\ I \subseteq Keys
        /\ s \in RB!Sides /\ Child(t, s, g) = p /\ \E z \in RB!Sides : Child(t, z, p) = e
    BY <2>3, <2>4, HasNodes DEF Inserting, Whole, UnderRed, Nodes
  <2>8. /\ At(B, e) \in SUBSET Keys /\ At(B, g) \in SUBSET Keys
        /\ At(B, e) \subseteq At(B, p) /\ At(B, p) \subseteq At(B, g)
        /\ p \in At(B, p) /\ p \notin At(B, e)
    BY <2>7, Halves DEF Nodes
  <2>9. Cardinality(At(B, e)) < Cardinality(At(B, g)) /\ i > 0
    <3>1. /\ Cardinality(At(B, e)) \in Nat /\ Cardinality(At(B, g)) \in Nat
          /\ Cardinality(At(B, e)) < Cardinality(At(B, g)) /\ Cardinality(At(B, g)) <= N
      BY <2>8, PartIsSmaller
    <3> QED BY <3>1, <2>3, KeysFinite
  <2>10. CASE RB!Red(t, a)
    <3>1. PICK u : u = RB!SetBlackRed(RB!Blacken(t, a), p, g)
      OBVIOUS
    <3>2. PICK G : Inserting(u, I, B, G, S, g) /\ u \in RB!Trees
      BY <2>3, <2>4, <2>5, <2>10, <3>1, UncleRed
    <3>3. y = [tree |-> u, elm |-> g]
      BY <2>6, <2>10, <3>1
    <3>4. y \in InsertStates /\ y.tree = u /\ y.elm = g
      BY <2>7, <3>2, <3>3 DEF InsertStates
    <3>5. Cardinality(At(B, g)) + (i - 1) > N
      BY <2>3, <2>8, <2>9, NumberOfKeys, KeysFinite
    <3> QED BY <2>9, <3>2, <3>4, <3>5 DEF InsertsIn
  <2>11. CASE ~RB!Red(t, a) /\ Child(t, RB!Other(s), p) = e
    <3>1. PICK v : v = RB!Rotate(t, p, s)
      OBVIOUS
    <3>2. /\ \E C, G : Inserting(v, I, C, G, S, p)
          /\ UnderRed(v, I, p, e, g, s) /\ Child(v, s, e) = p
          /\ a = Child(v, RB!Other(s), g) /\ ~RB!Red(v, a) /\ v \in RB!Trees
      BY <2>3, <2>4, <2>5, <2>11, <3>1, InnerTurned
    <3>3. PICK u : u = RB!Raised(v, e, g, s)
      OBVIOUS
    <3>4. PICK C, G : Inserting(v, I, C, G, S, p)
      BY <3>2
    <3>5. /\ \E D, F : Inserting(u, I, D, F, S, p)
          /\ ~RB!Red(u, Parent(u, p)) /\ u \in RB!Trees
      BY <3>2, <3>3, <3>4, OuterRaised
    <3>6. RB!Turned(t, p, e, s) = v
      BY <2>11, <3>1 DEF RB!Turned, Child
    <3>7. y = [tree |-> u, elm |-> p]
      BY <2>6, <2>11, <3>3, <3>6
    <3>8. y \in InsertStates /\ y.tree = u /\ y.elm = p
      BY <2>7, <3>5, <3>7 DEF InsertStates
    <3> QED BY <2>9, <3>5, <3>8 DEF InsertsIn
  <2>12. CASE ~RB!Red(t, a) /\ Child(t, RB!Other(s), p) # e
    <3>1. Child(t, s, p) = e
      BY <2>7, <2>12, OtherSide
    <3>2. PICK u : u = RB!Raised(t, p, g, s)
      OBVIOUS
    <3>3. /\ \E D, F : Inserting(u, I, D, F, S, e)
          /\ ~RB!Red(u, Parent(u, e)) /\ u \in RB!Trees
      BY <2>3, <2>4, <2>5, <2>12, <3>1, <3>2, OuterRaised
    <3>4. RB!Turned(t, p, e, s) = t
      BY <2>12 DEF RB!Turned, Child
    <3>5. y = [tree |-> u, elm |-> e]
      BY <2>6, <2>12, <3>2, <3>4
    <3>6. y \in InsertStates /\ y.tree = u /\ y.elm = e
      BY <3>3, <3>5 DEF InsertStates
    <3> QED BY <2>9, <3>3, <3>6 DEF InsertsIn
  <2> QED BY <2>10, <2>11, <2>12
<1> QED BY <1>3, <1>4

(* RB_INSERT_COLOR makes a red-black tree of one with a new red node. *)
LEMMA InsertColors ==
  ASSUME NEW t \in RB!Trees, NEW I, NEW B, NEW H, NEW S, NEW e, Inserting(t, I, B, H, S, e)
  PROVE  \E C, G : Balance(RB!InsertColor(t, e), I, C, G, S)
<1> DEFINE round == [x \in [tree : RB!Trees, elm : Keys] |-> RB!InsertRound(x)]
           J == [i \in 0..N |->
                   {x \in InsertStates : \E C, G : InsertsIn(x, I, C, G, S, i)}]
           Done == {x \in InsertStates : ~RB!Red(x.tree, Parent(x.tree, x.elm))}
           start == [tree |-> t, elm |-> e]
<1>1. DOMAIN round = InsertStates /\ \A x \in InsertStates : round[x] = RB!InsertRound(x)
  BY DEF InsertStates
<1>2. \A i \in 0..N : J[i] \subseteq DOMAIN round
  BY <1>1
<1>3. ASSUME NEW i \in 0..N, NEW y \in J[i]
      PROVE  \/ y \in Done /\ round[y] = y
             \/ i > 0 /\ round[y] \in J[i - 1]
  <2>1. PICK C, G : y \in InsertStates /\ InsertsIn(y, I, C, G, S, i)
    BY <1>3
  <2>2. \/ ~RB!Red(y.tree, Parent(y.tree, y.elm)) /\ RB!InsertRound(y) = y
        \/ i > 0 /\ RB!InsertRound(y) \in InsertStates
           /\ \E D, F : InsertsIn(RB!InsertRound(y), I, D, F, S, i - 1)
    BY <2>1, InsertRounds
  <2>3. i > 0 => i - 1 \in 0..N
    BY KeysFinite
  <2> QED BY <1>1, <2>1, <2>2, <2>3
<1>4. start \in J[N]
  <2>1. e \in Keys /\ e \in At(B, e) /\ At(B, e) \in SUBSET Keys
    BY HasNodes DEF Inserting, Whole, Nodes
  <2>2. Cardinality(At(B, e)) \in Nat /\ Cardinality({}) \in Nat
        /\ Cardinality({}) < Cardinality(At(B, e))
    BY <2>1, PartIsSmaller
  <2>3. Cardinality(At(B, e)) + N > N /\ N \in 0..N
    BY <2>2, KeysFinite
  <2>4. start \in InsertStates /\ start.tree = t /\ start.elm = e
    BY <2>1 DEF InsertStates
  <2>5. InsertsIn(start, I, B, H, S, N)
    BY <2>3, <2>4 DEF InsertsIn
  <2> QED BY <2>3, <2>4, <2>5
<1>5. RB!Loop(round, start) \in Done /\ \E i \in 0..N : RB!Loop(round, start) \in J[i]
  <2> HIDE DEF round, J, Done, start
  <2> QED BY <1>2, <1>3, <1>4, LoopEnds
<1>6. PICK x : x = RB!Loop(round, start)
  OBVIOUS
<1>7. PICK C, G : /\ x \in InsertStates /\ ~RB!Red(x.tree, Parent(x.tree, x.elm))
                  /\ Inserting(x.tree, I, C, G, S, x.elm)
  BY <1>5, <1>6 DEF InsertsIn
<1>8. PICK v, f : v = x.tree /\ f = x.elm
  OBVIOUS
<1>9. PICK a : a = Root(v)
  OBVIOUS
<1>10. RB!InsertColor(t, e) = RB!Blacken(v, a)
  BY <1>6, <1>8, <1>9 DEF RB!InsertColor, Root
<1>11. Whole(v, I, C, S) /\ Level(v, I, G) /\ Calm(v, I, {}, {f}) /\ Tree(v, I, C)
  BY <1>7, <1>8 DEF Inserting, Whole
<1>12. Calm(v, I, {a}, {})
  <2> SUFFICES ASSUME NEW n \in I, NEW s \in RB!Sides, NEW m, m = Child(v, s, n),
                      RB!Red(v, n), RB!Red(v, m)
               PROVE  FALSE
    BY DEF Calm
  <2>1. m = f /\ m # Null
    BY <1>11 DEF Calm, RB!Red
  <2>2. Parent(v, m) = n
    <3>1. m # Null
      BY DEF RB!Red
    <3> QED BY <1>11, <3>1, ParentIsOne
  <2> QED BY <1>7, <1>8, <2>1, <2>2
<1> QED BY <1>9, <1>10, <1>11, <1>12, BlackensRoot

------------------------------------------------------------------------------
(* Searches *)

LEMMA TowardIs ==
  ASSUME NEW k \in Nat, NEW n \in Nat, k # n
  PROVE  RB!Toward(k, n) \in RB!Sides /\ Before(RB!Toward(k, n), k, n)
BY DEF RB!Toward, strcmp, RB!Sides, Before

(* What is below x but x itself has its parent below x. *)
LEMMA ParentInside ==
  ASSUME NEW t, NEW I, NEW B, Tree(t, I, B), NEW x \in I, NEW m \in At(B, x), m # x
  PROVE  m \in I /\ Parent(t, m) \in At(B, x)
<1>1. Nodes(I, B)
  BY HasNodes
<1> DEFINE Bad(y) == \E j \in At(B, y) : j # y /\ Parent(t, j) \notin At(B, y)
           T == {i \in 0..N : \E y \in I : Bad(y) /\ Cardinality(At(B, y)) = i}
<1>2. T = {}
  <2> SUFFICES ASSUME T # {} PROVE FALSE
    OBVIOUS
  <2>1. T \in SUBSET Nat
    BY KeysFinite
  <2>2. PICK i \in T : \A j \in T : i <= j
    BY <2>1, LeastNumber
  <2>3. PICK y \in I : Bad(y) /\ Cardinality(At(B, y)) = i
    BY <2>2
  <2>4. PICK j \in At(B, y) : /\ Cardinality(At(B, y)) = i
                             /\ j # y /\ Parent(t, j) \notin At(B, y)
    BY <2>3
  <2>5. PICK s \in RB!Sides : j \in At(B, Child(t, s, y))
    BY <2>4 DEF Tree, Below, RB!Sides
  <2>6. PICK z : z = Child(t, s, y)
    OBVIOUS
  <2>7. z \in I /\ Parent(t, z) = y /\ y \in At(B, y)
        /\ At(B, z) \subseteq At(B, y) /\ y \notin At(B, z)
    <3>1. z # Null
      BY <1>1, <2>5, <2>6 DEF Nodes
    <3> QED BY <2>6, <3>1, ParentIsOne, Halves
  <2>8. j # z
    BY <2>4, <2>7
  <2>9. Parent(t, j) \notin At(B, z)
    BY <2>4, <2>7
  <2>10. At(B, y) \in SUBSET Keys /\ At(B, z) \in SUBSET Keys
    BY <1>1, <2>7 DEF Nodes
  <2>11. Cardinality(At(B, z)) < i /\ Cardinality(At(B, z)) \in 0..N
    BY <2>4, <2>7, <2>10, PartIsSmaller, NumberOfKeys
  <2>12. Cardinality(At(B, z)) \in T
    BY <2>5, <2>6, <2>7, <2>8, <2>9, <2>11
  <2> QED BY <2>1, <2>2, <2>11, <2>12
<1>3. At(B, x) \in SUBSET Keys /\ m \in I
  BY <1>1 DEF Nodes
<1>4. ~Bad(x)
  BY <1>2, <1>3, NumberOfKeys
<1> QED BY <1>3, <1>4

(* All nodes are below the root. *)
LEMMA RootHasAll ==
  ASSUME NEW t, NEW I, NEW B, Tree(t, I, B)
  PROVE  /\ Root(t) \in I \cup {Null} /\ At(B, Root(t)) = I
         /\ Root(t) = Null <=> I = {}
         /\ Root(t) # Null => Parent(t, Root(t)) = Null
<1>1. /\ Root(t) \in I \cup {Null} /\ At(B, Root(t)) = I
      /\ Root(t) # Null => Parent(t, Root(t)) = Null
  BY DEF Tree, Linked, Below
<1>2. Nodes(I, B)
  BY HasNodes
<1> QED BY <1>1, <1>2 DEF Nodes

(* RB_FIND *)
LEMMA FindsKey ==
  ASSUME NEW t, NEW I, NEW B, Tree(t, I, B), NEW k \in Keys
  PROVE  RB!Find(t, k) = IF k \in I THEN k ELSE Null
<1> DEFINE round == [n \in RB!Place |-> IF n = Null THEN n
                                        ELSE IF strcmp(k, n) = 0 THEN n
                                        ELSE t.child[RB!Toward(k, n)][n]]
           J == [i \in 0..N |-> {n \in I \cup {Null} :
                   (k \in I => k \in At(B, n)) /\ Cardinality(At(B, n)) <= i}]
           Done == {k, Null}
<1>1. /\ Nodes(I, B) /\ k \in Nat
      /\ \A n \in I \cup {Null} : n \in RB!Place /\ (n # Null => n \in Nat /\ n \in I)
  BY HasNodes, KeysFinite DEF Nodes
<1>2. \A n \in RB!Place : round[n] = IF n = Null \/ n = k THEN n ELSE Child(t, RB!Toward(k, n), n)
  BY <1>1, KeysFinite DEF strcmp, Child, RB!Place
<1>3. \A i \in 0..N : J[i] \subseteq DOMAIN round
  BY <1>1
<1>4. ASSUME NEW i \in 0..N, NEW n \in J[i]
      PROVE  \/ n \in Done /\ round[n] = n
             \/ i > 0 /\ round[n] \in J[i - 1]
  <2>1. /\ n \in I \cup {Null} /\ (k \in I => k \in At(B, n)) /\ Cardinality(At(B, n)) <= i
        /\ n \in RB!Place
    BY <1>1, <1>4
  <2>2. CASE n \in Done
    BY <1>2, <2>1, <2>2
  <2>3. CASE n \notin Done
    <3>1. n \in I /\ n \in Nat /\ n # k
      BY <1>1, <2>1, <2>3
    <3>2. PICK s \in RB!Sides : s = RB!Toward(k, n) /\ Before(s, k, n)
      BY <1>1, <3>1, TowardIs
    <3>3. PICK m : m = Child(t, s, n)
      OBVIOUS
    <3>4. round[n] = m
      BY <1>2, <2>1, <2>3, <3>2, <3>3
    <3>5. /\ m \in I \cup {Null} /\ At(B, m) \subseteq At(B, n)
          /\ n \in At(B, n) /\ n \notin At(B, m)
          /\ At(B, n) = {n} \cup At(B, m) \cup At(B, Child(t, RB!Other(s), n))
      BY <3>1, <3>3, Halves
    <3>6. k \in I => k \in At(B, m)
      <4>1. \A j \in At(B, Child(t, RB!Other(s), n)) : Before(RB!Other(s), j, n)
        BY <3>1, OtherSide DEF Tree, Below
      <4>2. k \notin At(B, Child(t, RB!Other(s), n))
        BY <1>1, <3>1, <3>2, <4>1, OtherSide DEF Before
      <4> QED BY <2>1, <3>1, <3>5, <4>2
    <3>7. At(B, n) \in SUBSET Keys /\ At(B, m) \in SUBSET Keys
      BY <1>1, <3>1, <3>5 DEF Nodes
    <3>8. Cardinality(At(B, m)) < Cardinality(At(B, n)) /\ Cardinality(At(B, m)) \in Nat
          /\ Cardinality(At(B, n)) \in Nat
      BY <3>5, <3>7, PartIsSmaller
    <3>9. i > 0 /\ i - 1 \in 0..N /\ Cardinality(At(B, m)) <= i - 1
      BY <2>1, <3>8, KeysFinite
    <3> QED BY <3>4, <3>5, <3>6, <3>9
  <2> QED BY <2>2, <2>3
<1>5. Root(t) \in J[N]
  <2>1. Root(t) \in I \cup {Null} /\ At(B, Root(t)) = I /\ I \in SUBSET Keys
    BY <1>1, RootHasAll DEF Nodes
  <2>2. Cardinality(I) <= N /\ N \in 0..N
    BY <2>1, NumberOfKeys, KeysFinite
  <2> QED BY <2>1, <2>2
<1>6. RB!Loop(round, Root(t)) \in Done /\ \E i \in 0..N : RB!Loop(round, Root(t)) \in J[i]
  <2> HIDE DEF round, J, Done
  <2> QED BY <1>3, <1>4, <1>5, LoopEnds
<1>7. PICK f : f = RB!Loop(round, Root(t)) /\ f \in {k, Null} /\ f \in I \cup {Null}
               /\ (k \in I => k \in At(B, f))
  BY <1>6
<1>8. RB!Find(t, k) = f
  BY <1>7 DEF RB!Find, Root
<1>9. f = IF k \in I THEN k ELSE Null
  BY <1>1, <1>7 DEF Nodes
<1> QED BY <1>8, <1>9

(* k may be put below n. *)
FitsBelow(t, I, B, k, n) ==
  n \in I /\ \A m \in I, s \in RB!Sides : n \in At(B, Child(t, s, m)) => Before(s, k, m)

(* The search for a key that is missing ends where it belongs. *)
LEMMA FindsPlace ==
  ASSUME NEW t, NEW I, NEW B, Tree(t, I, B), NEW k \in Keys, k \notin I, I # {}
  PROVE  \E n, s : /\ n = RB!LastBelow(t, k) /\ s = RB!Toward(k, n) /\ s \in RB!Sides
                   /\ FitsBelow(t, I, B, k, n) /\ Child(t, s, n) = Null /\ Before(s, k, n)
<1> DEFINE round == [n \in Keys |-> LET next == t.child[RB!Toward(k, n)][n]
                                    IN  IF next = Null THEN n ELSE next]
           J == [i \in 0..N |-> {n \in I :
                   FitsBelow(t, I, B, k, n) /\ Cardinality(At(B, n)) <= i}]
           Done == {n \in I : Child(t, RB!Toward(k, n), n) = Null}
<1>1. /\ Nodes(I, B) /\ k \in Nat
      /\ \A n \in I : n \in RB!Place /\ n # Null /\ n \in Nat /\ n \in Keys
  BY HasNodes, KeysFinite DEF Nodes
<1>2. \A n \in Keys : round[n] = IF Child(t, RB!Toward(k, n), n) = Null THEN n
                                 ELSE Child(t, RB!Toward(k, n), n)
  BY DEF Child
<1>3. \A i \in 0..N : J[i] \subseteq DOMAIN round
  BY <1>1
<1>4. ASSUME NEW i \in 0..N, NEW n \in J[i]
      PROVE  \/ n \in Done /\ round[n] = n
             \/ i > 0 /\ round[n] \in J[i - 1]
  <2>1. n \in I /\ n \in Keys /\ FitsBelow(t, I, B, k, n) /\ Cardinality(At(B, n)) <= i
    BY <1>1, <1>4
  <2>2. PICK s \in RB!Sides : s = RB!Toward(k, n) /\ Before(s, k, n)
    BY <1>1, <2>1, TowardIs
  <2>3. PICK m : m = Child(t, s, n)
    OBVIOUS
  <2>4. CASE m = Null
    BY <1>2, <2>1, <2>2, <2>3, <2>4
  <2>5. CASE m # Null
    <3>1. round[n] = m
      BY <1>2, <2>1, <2>2, <2>3, <2>5
    <3>2. /\ m \in I /\ Parent(t, m) = n /\ At(B, m) \subseteq At(B, n)
          /\ n \in At(B, n) /\ n \notin At(B, m) /\ m # n
      BY <2>1, <2>3, <2>5, ParentIsOne, Halves
    <3>3. FitsBelow(t, I, B, k, m)
      <4> SUFFICES ASSUME NEW j \in I, NEW x \in RB!Sides, NEW c, c = Child(t, x, j),
                          m \in At(B, c)
                   PROVE  Before(x, k, j)
        BY <3>2 DEF FitsBelow
      <4>1. c \in I /\ Parent(t, c) = j
        <5>1. c # Null
          BY <1>1 DEF Nodes
        <5> QED BY <5>1, ParentIsOne
      <4>2. CASE m = c
        <5>1. j = n
          BY <3>2, <4>1, <4>2
        <5>2. x = s
          <6>1. Child(t, s, n) # Child(t, RB!Other(s), n)
            BY <2>1, <2>3, <2>5, Halves
          <6> QED BY <2>3, <4>2, <5>1, <6>1, OtherSide
        <5> QED BY <2>2, <5>1, <5>2
      <4>3. CASE m # c
        <5>1. n \in At(B, c)
          BY <3>2, <4>1, <4>3, ParentInside
        <5> QED BY <2>1, <5>1 DEF FitsBelow
      <4> QED BY <4>2, <4>3
    <3>4. At(B, n) \in SUBSET Keys /\ At(B, m) \in SUBSET Keys
      BY <1>1, <2>1, <3>2 DEF Nodes
    <3>5. Cardinality(At(B, m)) < Cardinality(At(B, n)) /\ Cardinality(At(B, m)) \in Nat
          /\ Cardinality(At(B, n)) \in Nat
      BY <3>2, <3>4, PartIsSmaller
    <3>6. i > 0 /\ i - 1 \in 0..N /\ Cardinality(At(B, m)) <= i - 1
      BY <2>1, <3>5, KeysFinite
    <3> QED BY <3>1, <3>2, <3>3, <3>6
  <2> QED BY <2>4, <2>5
<1>5. Root(t) \in J[N]
  <2>1. /\ Root(t) \in I /\ At(B, Root(t)) = I /\ I \in SUBSET Keys /\ Null \notin I
        /\ Parent(t, Root(t)) = Null
    BY <1>1, RootHasAll DEF Nodes
  <2>2. Cardinality(I) <= N /\ N \in 0..N
    BY <2>1, NumberOfKeys, KeysFinite
  <2>3. FitsBelow(t, I, B, k, Root(t))
    <3> SUFFICES ASSUME NEW j \in I, NEW x \in RB!Sides, NEW c, c = Child(t, x, j),
                        Root(t) \in At(B, c)
                 PROVE  FALSE
      BY <2>1 DEF FitsBelow
    <3>1. c \in I /\ c # Root(t)
      <4>1. c # Null
        BY <1>1 DEF Nodes
      <4> QED BY <4>1, ParentIsOne
    <3>2. Null \in At(B, c)
      BY <2>1, <3>1, ParentInside
    <3> QED BY <1>1, <3>1, <3>2 DEF Nodes
  <2> QED BY <2>1, <2>2, <2>3
<1>6. RB!Loop(round, Root(t)) \in Done /\ \E i \in 0..N : RB!Loop(round, Root(t)) \in J[i]
  <2> HIDE DEF round, J, Done
  <2> QED BY <1>3, <1>4, <1>5, LoopEnds
<1>7. PICK n : n = RB!Loop(round, Root(t)) /\ n \in I /\ FitsBelow(t, I, B, k, n)
               /\ Child(t, RB!Toward(k, n), n) = Null
  BY <1>6
<1>8. RB!LastBelow(t, k) = n
  BY <1>7 DEF RB!LastBelow, Root
<1>9. RB!Toward(k, n) \in RB!Sides /\ Before(RB!Toward(k, n), k, n)
  BY <1>1, <1>7, TowardIs
<1> QED BY <1>7, <1>8, <1>9

(* RB_SET on a blank node only sets its parent. *)
LEMMA SetsLinks ==
  ASSUME NEW t \in RB!Trees, NEW k \in Keys, Bare(t, {k}), NEW p \in RB!Place
  PROVE  [t EXCEPT !.parent[k] = p, !.color[k] = "RED",
                   !.child["LEFT"][k] = Null, !.child["RIGHT"][k] = Null]
           = RB!SetParent(t, k, p)
<1>1. /\ t.color[k] = "RED" /\ t.child["LEFT"][k] = Null /\ t.child["RIGHT"][k] = Null
  BY DEF Bare, Child, RB!Sides
<1>2. k # Null
  BY KeysFinite
<1>3. [t.color EXCEPT ![k] = "RED"] = t.color
  BY <1>1, TypeOfTrees
<1>4. [[t.child EXCEPT !["LEFT"][k] = Null] EXCEPT !["RIGHT"][k] = Null] = t.child
  <2>1. /\ [t.child["LEFT"] EXCEPT ![k] = Null] = t.child["LEFT"]
        /\ [t.child["RIGHT"] EXCEPT ![k] = Null] = t.child["RIGHT"]
    BY <1>1, TypeOfTrees DEF RB!Sides
  <2>2. /\ [t.child EXCEPT !["LEFT"] = t.child["LEFT"]] = t.child
        /\ [t.child EXCEPT !["RIGHT"] = t.child["RIGHT"]] = t.child
    BY TypeOfTrees DEF RB!Sides
  <2>3. [t.child EXCEPT !["LEFT"][k] = Null] = t.child
    BY <2>1, <2>2
  <2>4. [t.child EXCEPT !["RIGHT"][k] = Null] = t.child
    BY <2>1, <2>2
  <2> QED BY <2>3, <2>4
<1>5. RB!SetParent(t, k, p) = [root |-> t.root, child |-> t.child,
                               parent |-> [t.parent EXCEPT ![k] = p], color |-> t.color]
  BY <1>2, TypeOfTrees DEF RB!SetParent
<1>6. PICK a : a = [t EXCEPT !.parent[k] = p]
  OBVIOUS
<1>7. PICK b : b = [a EXCEPT !.color[k] = "RED"]
  OBVIOUS
<1>8. PICK c : c = [b EXCEPT !.child["LEFT"][k] = Null]
  OBVIOUS
<1>9. PICK d : d = [c EXCEPT !.child["RIGHT"][k] = Null]
  OBVIOUS
<1>10. d = [t EXCEPT !.parent[k] = p, !.color[k] = "RED",
                     !.child["LEFT"][k] = Null, !.child["RIGHT"][k] = Null]
  BY <1>6, <1>7, <1>8, <1>9, Zenon
<1>11. a = [root |-> t.root, child |-> t.child, parent |-> [t.parent EXCEPT ![k] = p],
            color |-> t.color]
  BY <1>6, TypeOfTrees
<1>12. b = a
  BY <1>7, <1>11, <1>3
<1>13. c = a
  BY <1>8, <1>11, <1>12, <1>4
<1>14. d = a
  BY <1>9, <1>11, <1>13, <1>4
<1> QED BY <1>5, <1>10, <1>11, <1>14

(* u is t after k, a blank node, has been hung on the side s of p. *)
Hangs(t, u, I, k, p, s) ==
  /\ u \in RB!Trees /\ u.color = t.color /\ Root(u) = Root(t)
  /\ k \in Keys /\ k \notin I /\ p \in I /\ s \in RB!Sides
  /\ Child(t, s, p) = Null /\ \A x \in RB!Sides : Child(t, x, k) = Null
  /\ \A m \in Keys : Parent(u, m) = IF m = k THEN p ELSE Parent(t, m)
  /\ \A x \in RB!Sides, m \in Keys :
       Child(u, x, m) = IF m = p /\ x = s THEN k ELSE Child(t, x, m)

(* k is below what p is below. *)
Joined(I, B, C, k, p) ==
  /\ C \in [RB!Place -> SUBSET (I \cup {k})] /\ At(C, k) = {k} /\ At(C, Null) = {}
  /\ \A n \in I : /\ p \in At(B, n) => At(C, n) = At(B, n) \cup {k}
                  /\ p \notin At(B, n) => At(C, n) = At(B, n)

(* k is added to the nodes below each that p is below. *)
LEMMA JoinedExists ==
  ASSUME NEW t, NEW I, NEW B, Tree(t, I, B), NEW k \in Keys, k \notin I, NEW p \in I
  PROVE  \E C : Joined(I, B, C, k, p)
<1> DEFINE C == [n \in RB!Place |-> IF n = k THEN {k}
                                    ELSE IF p \in At(B, n) THEN At(B, n) \cup {k} ELSE At(B, n)]
<1>1. /\ I \subseteq Keys /\ Null \notin Keys /\ At(B, Null) = {}
      /\ \A n \in RB!Place : At(B, n) \subseteq I
  BY KeysFinite, SetsOfNodes DEF Tree, Linked, Below
<1>2. Joined(I, B, C, k, p)
  <2>1. C \in [RB!Place -> SUBSET (I \cup {k})]
    BY <1>1
  <2>2. At(C, k) = {k} /\ At(C, Null) = {}
    BY <1>1 DEF At, RB!Place
  <2>3. ASSUME NEW n \in I
        PROVE  At(C, n) = IF p \in At(B, n) THEN At(B, n) \cup {k} ELSE At(B, n)
    <3>1. n # k /\ n \in RB!Place
      BY <1>1 DEF RB!Place
    <3>2. C[n] = IF p \in At(B, n) THEN At(B, n) \cup {k} ELSE At(B, n)
      BY <3>1
    <3> QED BY <3>2 DEF At
  <2> QED BY <2>1, <2>2, <2>3 DEF Joined
<1> QED BY <1>2

(* A new leaf leaves the links sound, ... *)
LEMMA HangsLinked ==
  ASSUME NEW t, NEW u, NEW I, NEW B, Tree(t, I, B), NEW k, NEW p, NEW s,
         Hangs(t, u, I, k, p, s)
  PROVE  Linked(u, I \cup {k})
<1>1. Nodes(I, B) /\ Linked(t, I)
  BY HasNodes DEF Tree
<1>2. Root(t) # Null /\ Root(t) \in I
  BY <1>1, RootHasAll DEF Hangs
<1>3. u \in RB!Trees /\ I \cup {k} \in SUBSET Keys /\ Root(u) \in I /\ Parent(u, Root(u)) = Null
  BY <1>1, <1>2 DEF Hangs, Nodes, Linked
<1>4. ASSUME NEW n \in I \cup {k}, NEW x \in RB!Sides, NEW c, c = Child(u, x, n)
      PROVE  c \in I \cup {k, Null} /\ (c # Null => Parent(u, c) = n)
  <2>1. CASE n = p /\ x = s
    BY <1>1, <1>4, <2>1 DEF Hangs, Nodes
  <2>2. CASE ~(n = p /\ x = s)
    <3>1. c = Child(t, x, n)
      BY <1>1, <1>4, <2>2 DEF Hangs, Nodes
    <3>2. CASE n = k
      BY <3>1, <3>2 DEF Hangs
    <3>3. CASE n \in I
      <4>1. c \in I \cup {Null} /\ (c # Null => Parent(t, c) = n)
        BY <1>1, <3>1, <3>3 DEF Linked
      <4> QED BY <1>1, <4>1 DEF Hangs, Nodes
    <3> QED BY <3>2, <3>3
  <2> QED BY <2>1, <2>2
<1>5. ASSUME NEW n \in I \cup {k}, n # Root(u)
      PROVE  Parent(u, n) \in I \cup {k} /\ \E x \in RB!Sides : Child(u, x, Parent(u, n)) = n
  <2>1. CASE n = k
    BY <1>1, <2>1 DEF Hangs, Nodes
  <2>2. CASE n # k
    <3>1. n \in I /\ n # Root(t) /\ Parent(u, n) = Parent(t, n)
      BY <1>1, <1>5, <2>2 DEF Hangs, Nodes
    <3>2. PICK x \in RB!Sides, m \in I : m = Parent(t, n) /\ Child(t, x, m) = n
      BY <1>1, <3>1 DEF Linked
    <3>3. n # Null /\ m \in Keys
      BY <1>1, <3>1, <3>2 DEF Nodes
    <3>4. ~(m = p /\ x = s)
      BY <3>2, <3>3 DEF Hangs
    <3>5. Child(u, x, m) = n
      BY <3>2, <3>3, <3>4 DEF Hangs
    <3> QED BY <3>1, <3>2, <3>5
  <2> QED BY <2>1, <2>2
<1> QED BY <1>3, <1>4, <1>5 DEF Linked

(* ... and the nodes ordered. *)
LEMMA HangsTree ==
  ASSUME NEW t, NEW u, NEW I, NEW B, NEW C, Tree(t, I, B), NEW k, NEW p, NEW s,
         Hangs(t, u, I, k, p, s), Joined(I, B, C, k, p), FitsBelow(t, I, B, k, p),
         Before(s, k, p)
  PROVE  Tree(u, I \cup {k}, C)
<1>1. Nodes(I, B) /\ Linked(u, I \cup {k}) /\ k \notin I /\ p \in I /\ s \in RB!Sides
  BY HasNodes, HangsLinked DEF Hangs
<1>2. Root(u) = Root(t) /\ Root(t) \in I /\ At(B, Root(t)) = I
  BY <1>1, RootHasAll DEF Hangs
<1>3. At(C, Null) = {} /\ At(C, Root(u)) = I \cup {k}
  BY <1>1, <1>2 DEF Joined
(* What is below a child *)
<1>4. ASSUME NEW n \in I, NEW x \in RB!Sides, NEW c, c = Child(t, x, n), NEW d, d = Child(u, x, n)
      PROVE  /\ p \in At(B, c) => At(C, d) = At(B, c) \cup {k}
             /\ p \notin At(B, c) => At(C, d) = At(B, c) \cup IF n = p /\ x = s THEN {k} ELSE {}
  <2>1. n \in Keys /\ c \in I \cup {Null}
    BY <1>1, <1>4, Halves DEF Nodes
  <2>2. CASE n = p /\ x = s
    BY <1>1, <1>4, <2>1, <2>2 DEF Hangs, Nodes, Joined
  <2>3. CASE ~(n = p /\ x = s)
    <3>1. d = c
      BY <1>4, <2>1, <2>3 DEF Hangs
    <3> QED BY <1>1, <1>3, <2>1, <2>3, <3>1 DEF Nodes, Joined
  <2> QED BY <2>2, <2>3
<1>5. ASSUME NEW n \in I \cup {k}
      PROVE  At(C, n) = {n} \cup At(C, Child(u, "LEFT", n)) \cup At(C, Child(u, "RIGHT", n))
  <2>1. CASE n = k
    <3>1. Child(u, "LEFT", n) = Null /\ Child(u, "RIGHT", n) = Null
      BY <1>1, <2>1 DEF Hangs, RB!Sides
    <3> QED BY <1>3, <2>1, <3>1 DEF Joined
  <2>2. CASE n \in I
    <3>1. PICK l, r, v, w : /\ l = Child(t, "LEFT", n) /\ r = Child(t, "RIGHT", n)
                            /\ v = Child(u, "LEFT", n) /\ w = Child(u, "RIGHT", n)
      OBVIOUS
    <3>2. At(B, n) = {n} \cup At(B, l) \cup At(B, r)
      BY <2>2, <3>1 DEF Tree, Below
    <3>3. /\ p \in At(B, l) => At(C, v) = At(B, l) \cup {k}
          /\ p \notin At(B, l) => At(C, v) = At(B, l) \cup IF n = p /\ "LEFT" = s THEN {k} ELSE {}
      BY <1>4, <2>2, <3>1 DEF RB!Sides
    <3>4. /\ p \in At(B, r) => At(C, w) = At(B, r) \cup {k}
          /\ p \notin At(B, r) => At(C, w) = At(B, r) \cup IF n = p /\ "RIGHT" = s THEN {k} ELSE {}
      BY <1>4, <2>2, <3>1 DEF RB!Sides
    <3>5. /\ p \in At(B, n) => At(C, n) = At(B, n) \cup {k}
          /\ p \notin At(B, n) => At(C, n) = At(B, n)
      BY <2>2 DEF Joined
    <3>6. n = p => p \in At(B, n) /\ (s = "LEFT" \/ s = "RIGHT")
      BY <1>1, <2>2 DEF Nodes, RB!Sides
    <3>7. At(C, n) = {n} \cup At(C, v) \cup At(C, w)
      <4>1. CASE p \in At(B, l) \/ p \in At(B, r)
        BY <3>2, <3>3, <3>4, <3>5, <4>1
      <4>2. CASE p \notin At(B, l) /\ p \notin At(B, r) /\ n = p
        BY <3>2, <3>3, <3>4, <3>5, <3>6, <4>2
      <4>3. CASE p \notin At(B, l) /\ p \notin At(B, r) /\ n # p
        BY <3>2, <3>3, <3>4, <3>5, <4>3
      <4> QED BY <4>1, <4>2, <4>3
    <3> QED BY <3>1, <3>7
  <2> QED BY <2>1, <2>2
<1>6. ASSUME NEW n \in I \cup {k}, NEW x \in RB!Sides, NEW d, d = Child(u, x, n), NEW m \in At(C, d)
      PROVE  Before(x, m, n)
  <2>1. CASE n = k
    <3>1. d = Null
      BY <1>1, <1>6, <2>1 DEF Hangs
    <3> QED BY <1>3, <1>6, <3>1
  <2>2. CASE n \in I
    <3>1. PICK c : c = Child(t, x, n)
      OBVIOUS
    <3>2. /\ p \in At(B, c) => At(C, d) = At(B, c) \cup {k}
          /\ p \notin At(B, c) => At(C, d) = At(B, c) \cup IF n = p /\ x = s THEN {k} ELSE {}
      BY <1>4, <1>6, <2>2, <3>1
    <3>3. CASE m \in At(B, c)
      BY <2>2, <3>1, <3>3 DEF Tree, Below
    <3>4. CASE m \notin At(B, c) /\ p \in At(B, c)
      BY <1>6, <2>2, <3>1, <3>2, <3>4 DEF FitsBelow
    <3>5. CASE m \notin At(B, c) /\ p \notin At(B, c)
      BY <1>6, <3>2, <3>5
    <3> QED BY <3>3, <3>4, <3>5
  <2> QED BY <2>1, <2>2
<1>7. C \in [RB!Place -> SUBSET (I \cup {k})]
  BY DEF Joined
<1> QED BY <1>1, <1>3, <1>5, <1>6, <1>7 DEF Tree, Below

(* The heights of a tree in which k, which is red, hangs on no node or p *)
LEMMA HangsLevel ==
  ASSUME NEW t, NEW u, NEW I, NEW B, NEW H, Tree(t, I, B), Level(t, I, H), NEW k, NEW p, NEW s,
         Hangs(t, u, I, k, p, s), t.color[k] = "RED"
  PROVE  \E G : Level(u, I \cup {k}, G)
<1>1. Nodes(I, B) /\ k \in Keys /\ k \notin I /\ k # Null /\ k \in RB!Place
  BY HasNodes, KeysFinite DEF Hangs, RB!Place
<1>2. PICK G : Adjusted(H, G, k, 0, Null, 0)
  BY <1>1, TwoHeights DEF Level, Nodes
<1>3. /\ At(G, k) = 0 /\ At(G, Null) = 0 /\ At(H, Null) = 0 /\ G \in [RB!Place -> Nat]
      /\ \A n \in I \cup {Null} : At(G, n) = At(H, n)
  BY <1>1, <1>2 DEF Adjusted, Level, Nodes
<1>4. Black(u, k) = 0 /\ \A n : Black(u, n) = Black(t, n)
  BY <1>1 DEF Hangs, Black, RB!Red
<1>5. ASSUME NEW n \in I \cup {k}, NEW x \in RB!Sides, NEW d, d = Child(u, x, n)
      PROVE  At(G, n) = At(G, d) + Black(u, n)
  <2>1. CASE n = k
    <3>1. d = Null
      BY <1>1, <1>5, <2>1 DEF Hangs
    <3> QED BY <1>3, <1>4, <2>1, <3>1
  <2>2. CASE n \in I
    <3>1. PICK c : c = Child(t, x, n)
      OBVIOUS
    <3>2. c \in I \cup {Null} /\ n \in Keys
      BY <1>1, <2>2, <3>1, Halves
    <3>3. At(H, n) = At(H, c) + Black(t, n)
      BY <2>2, <3>1, LevelAt
    <3>4. At(G, d) = At(H, c)
      <4>1. CASE n = p /\ x = s
        BY <1>3, <1>5, <3>1, <3>2, <4>1 DEF Hangs
      <4>2. CASE ~(n = p /\ x = s)
        <5>1. d = c
          BY <1>5, <3>1, <3>2, <4>2 DEF Hangs
        <5> QED BY <1>3, <3>2, <5>1
      <4> QED BY <4>1, <4>2
    <3> QED BY <1>3, <1>4, <2>2, <3>3, <3>4
  <2> QED BY <2>1, <2>2
<1> QED BY <1>3, <1>5 DEF Level

(* What RB_INSERT gives to RB_INSERT_COLOR *)
LEMMA HangsInserting ==
  ASSUME NEW t, NEW u, NEW I, NEW B, NEW H, NEW S, Balance(t, I, B, H, S), NEW k \in S,
         NEW p, NEW s, Hangs(t, u, I, k, p, s), FitsBelow(t, I, B, k, p), Before(s, k, p)
  PROVE  \E C, G : Inserting(u, I \cup {k}, C, G, S \ {k}, k)
<1>1. /\ Tree(t, I, B) /\ S \in SUBSET (Keys \ I) /\ Bare(t, S) /\ Level(t, I, H)
      /\ Calm(t, I, {}, {}) /\ ~RB!Red(t, Root(t)) /\ Nodes(I, B)
  BY HasNodes DEF Balance, Whole
<1>2. k \in Keys /\ k \notin I /\ k # Null /\ t.color[k] = "RED"
  BY <1>1 DEF Bare, Nodes
<1>3. PICK C : Joined(I, B, C, k, p)
  BY <1>1, <1>2, JoinedExists DEF Hangs
<1>4. Tree(u, I \cup {k}, C)
  BY <1>1, <1>3, HangsTree
<1>5. PICK G : Level(u, I \cup {k}, G)
  BY <1>1, <1>2, HangsLevel
<1>6. RB!Red(u, k) /\ Root(u) = Root(t) /\ \A n : RB!Red(u, n) <=> RB!Red(t, n)
  BY <1>2 DEF Hangs, RB!Red
<1>7. Calm(u, I \cup {k}, {}, {k})
  <2> SUFFICES ASSUME NEW n \in I \cup {k}, NEW x \in RB!Sides, NEW c, c = Child(u, x, n),
                      RB!Red(u, n), RB!Red(u, c), c # k
               PROVE  FALSE
    BY DEF Calm
  <2>1. c = Child(t, x, n)
    BY <1>1, <1>2 DEF Hangs, Nodes
  <2>2. c # Null
    BY DEF RB!Red
  <2>3. n \in I
    BY <2>1, <2>2 DEF Hangs
  <2> QED BY <1>1, <1>6, <2>1, <2>3 DEF Calm
<1>8. Bare(u, S \ {k})
  <2> SUFFICES ASSUME NEW n \in S \ {k}
               PROVE  /\ Parent(u, n) = Null /\ u.color[n] = "RED"
                      /\ \A x \in RB!Sides : Child(u, x, n) = Null
    BY DEF Bare
  <2>1. n \in Keys /\ n # k /\ n # p
    BY <1>1 DEF Hangs
  <2>2. Parent(t, n) = Null /\ t.color[n] = "RED" /\ \A x \in RB!Sides : Child(t, x, n) = Null
    BY <1>1 DEF Bare
  <2> QED BY <2>1, <2>2 DEF Hangs
<1>9. Whole(u, I \cup {k}, C, S \ {k})
  BY <1>1, <1>4, <1>8 DEF Whole
<1> QED BY <1>1, <1>5, <1>6, <1>7, <1>9 DEF Inserting, RootBlack

(* u is t, which is empty, after k has become its root. *)
TakesRoot(t, u, k) ==
  /\ u \in RB!Trees /\ u.color = t.color /\ Root(u) = k /\ k \in Keys /\ Parent(u, k) = Null
  /\ u.child = t.child /\ \A m \in Keys \ {k} : Parent(u, m) = Parent(t, m)

(* The same for the first node *)
LEMMA RootInserting ==
  ASSUME NEW t, NEW u, NEW I, NEW B, NEW H, NEW S, Balance(t, I, B, H, S), NEW k \in S,
         I = {}, TakesRoot(t, u, k)
  PROVE  \E C, G : Inserting(u, {k}, C, G, S \ {k}, k)
<1>1. /\ S \in SUBSET Keys /\ Bare(t, S) /\ k \in Keys /\ k # Null /\ Null \in RB!Place
      /\ t.color[k] = "RED" /\ k \in RB!Place
  BY KeysFinite DEF Balance, Whole, Bare, RB!Place
<1>2. RB!Red(u, k) /\ Black(u, k) = 0
  BY <1>1 DEF TakesRoot, RB!Red, Black
<1>3. \A x, m : Child(u, x, m) = Child(t, x, m)
  BY DEF TakesRoot, Child
<1>4. \A x \in RB!Sides : Child(u, x, k) = Null
  BY <1>1, <1>3 DEF Bare
<1>5. PICK C : C = [n \in RB!Place |-> IF n = k THEN {k} ELSE {}]
  OBVIOUS
<1>6. C \in [RB!Place -> SUBSET {k}] /\ At(C, k) = {k} /\ At(C, Null) = {}
  BY <1>1, <1>5 DEF At
<1>7. Tree(u, {k}, C)
  <2>1. Linked(u, {k})
    BY <1>1, <1>4 DEF Linked, TakesRoot
  <2>2. Child(u, "LEFT", k) = Null /\ Child(u, "RIGHT", k) = Null
    BY <1>4 DEF RB!Sides
  <2>3. At(C, Root(u)) = {k}
    BY <1>6 DEF TakesRoot
  <2>4. At(C, k) = {k} \cup At(C, Child(u, "LEFT", k)) \cup At(C, Child(u, "RIGHT", k))
    BY <1>6, <2>2
  <2>5. \A x \in RB!Sides : At(C, Child(u, x, k)) = {}
    BY <1>4, <1>6
  <2> QED BY <1>6, <2>1, <2>3, <2>4, <2>5 DEF Tree, Below
<1>8. Bare(u, S \ {k})
  <2> SUFFICES ASSUME NEW n \in S \ {k}
               PROVE  /\ Parent(u, n) = Null /\ u.color[n] = "RED"
                      /\ \A x \in RB!Sides : Child(u, x, n) = Null
    BY DEF Bare
  <2>1. n \in Keys \ {k}
    BY <1>1
  <2>2. Parent(t, n) = Null /\ t.color[n] = "RED" /\ \A x \in RB!Sides : Child(t, x, n) = Null
    BY <1>1 DEF Bare
  <2> QED BY <1>3, <2>1, <2>2 DEF TakesRoot
<1>9. PICK G : G = [n \in RB!Place |-> 0]
  OBVIOUS
<1>10. G \in [RB!Place -> Nat] /\ At(G, k) = 0 /\ At(G, Null) = 0
  BY <1>1, <1>9 DEF At
<1>11. Level(u, {k}, G)
  BY <1>2, <1>4, <1>10 DEF Level
<1>12. Calm(u, {k}, {}, {k})
  BY <1>4 DEF Calm, RB!Red
<1>13. Whole(u, {k}, C, S \ {k})
  BY <1>1, <1>7, <1>8 DEF Whole
<1> QED BY <1>2, <1>11, <1>12, <1>13 DEF Inserting, RootBlack, TakesRoot

(* RB_INSERT keeps a red-black tree one, and adds the node that is new. *)
LEMMA Inserts ==
  ASSUME NEW t, NEW I, NEW B, NEW H, NEW S, Balance(t, I, B, H, S), NEW k \in S
  PROVE  \E C, G : Balance(RB!Insert(t, k), I \cup {k}, C, G, S \ {k})
<1>1. /\ Tree(t, I, B) /\ t \in RB!Trees /\ Nodes(I, B) /\ S \in SUBSET (Keys \ I)
      /\ Bare(t, {k}) /\ k \in Keys /\ k \notin I /\ k # Null
  BY HasNodes DEF Balance, Whole, Bare, Nodes
<1>2. RB!Find(t, k) = Null
  BY <1>1, FindsKey
<1>3. CASE I = {}
  <2>1. Root(t) = Null
    BY <1>1, <1>3, RootHasAll
  <2>2. PICK v : v = RB!SetParent(t, k, Null)
    OBVIOUS
  <2>3. ParentSet(t, v, k, Null)
    BY <1>1, <2>2, SetParentWrites DEF Nodes, RB!Place
  <2>4. PICK u : u = [v EXCEPT !.root = k]
    OBVIOUS
  <2>5. TakesRoot(t, u, k)
    <3>1. v \in RB!Trees
      BY <2>3 DEF ParentSet
    <3>2. /\ u.root = k /\ u.child = v.child /\ u.parent = v.parent /\ u.color = v.color
          /\ u \in RB!Trees
      BY <1>1, <2>4, <3>1 DEF RB!Trees, RB!Place
    <3>3. \A m : Parent(u, m) = Parent(v, m)
      BY <3>2 DEF Parent
    <3> QED BY <1>1, <2>3, <3>2, <3>3 DEF ParentSet, TakesRoot, Root
  <2>6. RB!Insert(t, k) = RB!InsertColor(u, k)
    <3>1. [t EXCEPT !.parent[k] = Null, !.color[k] = "RED",
                    !.child["LEFT"][k] = Null, !.child["RIGHT"][k] = Null] = v
      BY <1>1, <2>2, SetsLinks DEF Nodes
    <3>2. t.root = Null
      BY <2>1 DEF Root
    <3> QED BY <1>2, <2>4, <3>1, <3>2 DEF RB!Insert
  <2>7. \E C, G : Inserting(u, {k}, C, G, S \ {k}, k)
    BY <1>3, <2>5, RootInserting
  <2>8. I \cup {k} = {k} /\ u \in RB!Trees
    BY <1>3, <2>5 DEF TakesRoot
  <2> QED BY <2>6, <2>7, <2>8, InsertColors
<1>4. CASE I # {}
  <2>1. PICK p, s : /\ p = RB!LastBelow(t, k) /\ s = RB!Toward(k, p) /\ s \in RB!Sides
                    /\ FitsBelow(t, I, B, k, p) /\ Child(t, s, p) = Null /\ Before(s, k, p)
    BY <1>1, <1>4, FindsPlace
  <2>2. p \in I /\ p \in RB!Place /\ p \in Keys /\ p # Null /\ Root(t) # Null
    BY <1>1, <1>4, <2>1, RootHasAll DEF FitsBelow, Nodes
  <2>3. PICK v : v = RB!SetParent(t, k, p)
    OBVIOUS
  <2>4. ParentSet(t, v, k, p) /\ v \in RB!Trees
    <3>1. k \in RB!Place /\ t \in RB!Trees
      BY <1>1 DEF RB!Place
    <3>2. ParentSet(t, v, k, p)
      BY <2>2, <2>3, <3>1, SetParentWrites
    <3> QED BY <3>2 DEF ParentSet
  <2>5. PICK u : u = SetChild(v, s, p, k)
    OBVIOUS
  <2>6. ChildSet(v, u, s, p, k)
    BY <1>1, <2>1, <2>2, <2>4, <2>5, SetChildWrites DEF RB!Place
  <2>7. Hangs(t, u, I, k, p, s)
    <3>1. \A x, m : Child(v, x, m) = Child(t, x, m)
      BY <2>4 DEF ParentSet, Child
    <3>2. \A m : Parent(u, m) = Parent(v, m)
      BY <2>6 DEF ChildSet, Parent
    <3>3. \A x \in RB!Sides : Child(t, x, k) = Null
      BY <1>1 DEF Bare
    <3> QED BY <1>1, <2>1, <2>2, <2>4, <2>6, <3>1, <3>2, <3>3 DEF ChildSet, ParentSet, Hangs
  <2>8. RB!Insert(t, k) = RB!InsertColor(u, k)
    <3>1. [t EXCEPT !.parent[k] = p, !.color[k] = "RED",
                    !.child["LEFT"][k] = Null, !.child["RIGHT"][k] = Null] = v
      BY <1>1, <2>2, <2>3, SetsLinks
    <3>2. t.root # Null
      BY <2>2 DEF Root
    <3> QED BY <1>2, <2>1, <2>2, <2>5, <3>1, <3>2 DEF RB!Insert, SetChild
  <2>9. \E C, G : Inserting(u, I \cup {k}, C, G, S \ {k}, k)
    BY <2>1, <2>7, HangsInserting
  <2> QED BY <2>7, <2>8, <2>9, InsertColors DEF Hangs
<1> QED BY <1>3, <1>4

(* A key that has a node gets no other one. *)
LEMMA InsertsNothing ==
  ASSUME NEW t, NEW I, NEW B, Tree(t, I, B), NEW k \in I
  PROVE  RB!Insert(t, k) = t
<1>1. k \in Keys /\ k # Null
  BY HasNodes DEF Nodes
<1>2. RB!Find(t, k) # Null
  BY <1>1, FindsKey
<1> QED BY <1>2 DEF RB!Insert

------------------------------------------------------------------------------
(* Deletion: the paths that are one black node short *)

LEMMA LackingAt ==
  ASSUME NEW t, NEW I, NEW B, NEW H, NEW p, NEW s, Tree(t, I, B), Lacking(t, I, H, p, s),
         NEW n \in I, NEW x \in RB!Sides, NEW m, m = Child(t, x, n)
  PROVE  /\ At(H, n) \in Nat /\ At(H, m) \in Nat
         /\ n = p /\ x = s => At(H, n) = At(H, m) + 1 + Black(t, n)
         /\ ~(n = p /\ x = s) => At(H, n) = At(H, m) + Black(t, n)
<1>1. n \in RB!Place /\ m \in RB!Place
  BY HasNodes, Halves DEF Nodes
<1>2. At(H, n) \in Nat /\ At(H, m) \in Nat
  BY <1>1, HeightsAreNumbers DEF Lacking
<1>3. At(H, n) = At(H, m) + Short(n, x, p, s) + Black(t, n)
  BY DEF Lacking
<1>4. Black(t, n) \in Nat
  BY DEF Black
<1> QED BY <1>2, <1>3, <1>4 DEF Short

(* Only what is below a node can lack something. *)
LEMMA NothingLacks ==
  ASSUME NEW t, NEW I, NEW B, NEW H, NEW s, Tree(t, I, B), Lacking(t, I, H, Null, s)
  PROVE  Level(t, I, H)
<1>1. H \in [RB!Place -> Nat] /\ At(H, Null) = 0
  BY DEF Lacking
<1>2. ASSUME NEW n \in I, NEW x \in RB!Sides
      PROVE  At(H, n) = At(H, Child(t, x, n)) + Black(t, n)
  <2>1. n # Null
    BY HasNodes DEF Nodes
  <2> QED BY <2>1, LackingAt
<1> QED BY <1>1, <1>2 DEF Level

(* A rotation of v, which is t in other colors *)
LEMMA Turns ==
  ASSUME NEW t \in RB!Trees, NEW v, NEW I, NEW B, NEW S, Whole(v, I, B, S), SameLinks(t, v),
         NEW e \in I, NEW s \in RB!Sides, NEW o, o = RB!Other(s),
         NEW c, c = Child(t, o, e), c # Null, NEW d, d = Child(t, s, c),
         NEW l, l = Child(t, s, e), NEW r, r = Child(t, o, c), NEW u, u = RB!Rotate(v, e, s)
  PROVE  /\ Turning(t, v, u, I, B, e, s, o, c, d, l, r)
         /\ \E C : Whole(u, I, C, S) /\ Moved(B, C, e, c)
         /\ \A n : RB!Red(u, n) <=> RB!Red(v, n)
         /\ Root(u) = IF Root(t) = e THEN c ELSE Root(t)
         /\ u \in RB!Trees
<1>1. \A x, n : Child(v, x, n) = Child(t, x, n) /\ Root(v) = Root(t)
  BY SameLinksRead
<1>2. Tree(v, I, B)
  BY DEF Whole
<1>3. c = Child(v, RB!Other(s), e) /\ d = Child(v, s, c)
  BY <1>1
<1>4. TurnsTo(v, u, e, s, c, d)
  BY <1>2, <1>3, Rotated
<1>5. PICK w, y, z : Hung(v, u, I, B, e, s, w, c, d, y, z)
  BY <1>2, <1>4, TurnedLinks
<1>6. w = o /\ y = l /\ z = r
  <2>1. w = RB!Other(s) /\ y = Child(v, s, e) /\ z = Child(v, w, c)
    BY <1>5 DEF Hung
  <2> QED BY <1>1, <2>1
<1>7. \E C : Whole(u, I, C, S) /\ Moved(B, C, e, c)
  BY <1>4, TurnedWhole
<1>8. \A n : RB!Red(u, n) <=> RB!Red(v, n)
  BY <1>4, RedAfterTurn
<1>9. Root(u) = IF Root(t) = e THEN c ELSE Root(t)
  BY <1>1, <1>5 DEF Hung
<1>10. u \in RB!Trees
  BY <1>7, HasNodes DEF Whole
<1>11. Turning(t, v, u, I, B, e, s, o, c, d, l, r)
  BY <1>2, <1>5, <1>6 DEF Turning
<1> QED BY <1>7, <1>8, <1>9, <1>10, <1>11

(* What H says of all nodes but two, as they are colored in u *)
Elsewhere(t, u, I, H, p, z, e, c) ==
  /\ H \in [RB!Place -> Nat] /\ At(H, Null) = 0
  /\ \A n \in I, x \in RB!Sides : n \notin {e, c} =>
       At(H, n) = At(H, Child(t, x, n)) + Short(n, x, p, z) + Black(u, n)

(* Below p, the node e lacks w. *)
LackFits(u, H, k, h, e, c, l, d, r, p, w) ==
  /\ w = (IF p = e THEN 1 ELSE 0) /\ p # c
  /\ k = At(H, l) + w + Black(u, e) /\ k = At(H, d) + Black(u, e)
  /\ h = k + Black(u, c) /\ h = At(H, r) + Black(u, c)

(* A rotation with heights that fit keeps what lacks where it lacks. *)
LEMMA LackTurned ==
  ASSUME NEW t, NEW v, NEW u, NEW I, NEW B, NEW e, NEW s, NEW o, NEW c, NEW d, NEW l, NEW r,
         Turning(t, v, u, I, B, e, s, o, c, d, l, r),
         NEW H, NEW G, NEW k, NEW h, h = At(H, e), Adjusted(H, G, e, k, c, h), e \in I,
         NEW p, NEW z, p = e => z = s, Elsewhere(t, u, I, H, p, z, e, c),
         NEW w, LackFits(u, H, k, h, e, c, l, d, r, p, w)
  PROVE  Lacking(u, I, G, p, z)
<1>1. Tree(v, I, B) /\ SameLinks(t, v) /\ t \in RB!Trees /\ Hung(v, u, I, B, e, s, o, c, d, l, r)
  BY DEF Turning
<1>2. (\A m \in I \cup {Null} : m \in RB!Place) /\ Null \notin I
  BY <1>1, HasNodes DEF Nodes
<1>3. /\ G \in [RB!Place -> Nat] /\ At(G, e) = k /\ At(G, c) = h
      /\ \A n \in RB!Place : n \notin {e, c} => At(G, n) = At(H, n)
  BY DEF Adjusted
<1>4. /\ c \in I /\ l \in I \cup {Null} /\ d \in I \cup {Null} /\ r \in I \cup {Null} /\ c # e
      /\ l \notin {e, c} /\ d \notin {e, c} /\ r \notin {e, c} /\ o # s
      /\ \A x \in RB!Sides : x = s \/ x = o
  BY <1>1 DEF Hung
<1>5. /\ At(G, Null) = 0 /\ At(G, l) = At(H, l) /\ At(G, d) = At(H, d) /\ At(G, r) = At(H, r)
      /\ \A n \in I \cup {Null} : At(G, n) \in Nat
  <2>1. At(G, Null) = 0
    BY <1>2, <1>3, <1>4 DEF Elsewhere
  <2>2. \A n \in I \cup {Null} : At(G, n) \in Nat
    BY <1>2, <1>3, HeightsAreNumbers
  <2> QED BY <1>2, <1>3, <1>4, <2>1, <2>2
<1>6. ASSUME NEW n \in I, NEW x \in RB!Sides, NEW m, m = Child(u, x, n)
      PROVE  At(G, n) = At(G, m) + Short(n, x, p, z) + Black(u, n)
  <2>1. CASE n = e
    <3>1. m = IF x = s THEN l ELSE d
      BY <2>1, <1>1, <1>6, HungWhere
    <3>2. CASE x = s
      <4>1. Short(n, x, p, z) = w
        BY <2>1, <3>2 DEF Short, LackFits
      <4> QED BY <1>3, <1>5, <2>1, <3>1, <3>2, <4>1 DEF LackFits
    <3>3. CASE x # s
      <4>1. Short(n, x, p, z) = 0
        BY <2>1, <3>3 DEF Short
      <4>2. m = d /\ At(G, d) \in Nat
        BY <1>4, <1>5, <3>1, <3>3
      <4> QED BY <1>3, <1>5, <2>1, <4>1, <4>2 DEF LackFits
    <3> QED BY <3>2, <3>3
  <2>2. CASE n = c
    <3>1. m = IF x = s THEN e ELSE r
      BY <2>2, <1>1, <1>6, HungWhere
    <3>2. Short(n, x, p, z) = 0
      BY <2>2 DEF Short, LackFits
    <3>3. At(G, m) \in Nat /\ At(G, n) = h /\ h = At(G, m) + Black(u, n)
      BY <1>3, <1>4, <1>5, <2>2, <3>1 DEF LackFits
    <3> QED BY <3>2, <3>3
  <2>3. CASE n \notin {e, c}
    <3>1. PICK y : y = Child(t, x, n)
      OBVIOUS
    <3>2. At(H, n) = At(H, y) + Short(n, x, p, z) + Black(u, n)
      BY <2>3, <3>1 DEF Elsewhere
    <3>3. At(G, n) = At(H, n) /\ At(G, m) = At(H, y)
      BY <2>3, <3>1, <1>6, OthersStay
    <3> QED BY <3>2, <3>3
  <2> QED BY <2>1, <2>2, <2>3
<1> QED BY <1>3, <1>5, <1>6 DEF Lacking

(* The paths through e, on the side s below p, are one short. *)
OneShort(t, I, B, H, S, p, s, e) ==
  /\ Whole(t, I, B, S) /\ Lacking(t, I, H, p, s) /\ Calm(t, I, {e}, {e})
  /\ ~RB!Red(t, Root(t)) /\ p \in I /\ s \in RB!Sides /\ e = Child(t, s, p)

(* e is black, and a is its sibling. *)
BlackShort(t, I, B, H, S, p, s, e, o, a) ==
  /\ OneShort(t, I, B, H, S, p, s, e) /\ ~RB!Red(t, e)
  /\ o \in RB!Sides /\ o = RB!Other(s) /\ s = RB!Other(o) /\ o # s
  /\ a = Child(t, o, p)

(* The tree of a short path, and where its nodes are *)
ShortTree(t, I, B, H, S, p, s, e, o, a) ==
  /\ Tree(t, I, B) /\ t \in RB!Trees /\ Nodes(I, B) /\ Whole(t, I, B, S)
  /\ Lacking(t, I, H, p, s) /\ Calm(t, I, {}, {}) /\ H \in [RB!Place -> Nat]
  /\ p \in I /\ p # Null /\ e \in I \cup {Null} /\ e # p /\ a \in I \cup {Null} /\ a # p
  /\ Parts(I, B, p, e, a) /\ ~RB!Red(t, Root(t)) /\ ~RB!Red(t, e)
  /\ s \in RB!Sides /\ o \in RB!Sides /\ o # s /\ o = RB!Other(s) /\ s = RB!Other(o)
  /\ \A x \in RB!Sides : x = s \/ x = o
  /\ e = Child(t, s, p) /\ a = Child(t, o, p)

(* What is known of a short path *)
LEMMA ShortTreeThere ==
  ASSUME NEW t, NEW I, NEW B, NEW H, NEW S, NEW p, NEW s, NEW e, NEW o, NEW a,
         BlackShort(t, I, B, H, S, p, s, e, o, a)
  PROVE  ShortTree(t, I, B, H, S, p, s, e, o, a)
<1>1. /\ Whole(t, I, B, S) /\ Tree(t, I, B) /\ Lacking(t, I, H, p, s) /\ Calm(t, I, {e}, {e})
      /\ ~RB!Red(t, Root(t)) /\ ~RB!Red(t, e) /\ p \in I /\ s \in RB!Sides /\ o \in RB!Sides
      /\ o # s /\ o = RB!Other(s) /\ s = RB!Other(o) /\ e = Child(t, s, p) /\ a = Child(t, o, p)
  BY DEF BlackShort, OneShort, Whole
<1>2. Nodes(I, B) /\ t \in RB!Trees /\ p # Null
  BY <1>1, HasNodes DEF Nodes
<1>3. Parts(I, B, p, e, a)
  BY <1>1, HasParts
<1>4. Calm(t, I, {}, {})
  BY <1>1 DEF Calm
<1>5. \A x \in RB!Sides : x = s \/ x = o
  BY <1>1, OtherSide
<1>6. H \in [RB!Place -> Nat]
  BY <1>1 DEF Lacking
<1> QED BY <1>1, <1>2, <1>3, <1>4, <1>5, <1>6 DEF ShortTree, Parts

(* The sibling is there, and one black node taller. *)
LEMMA SiblingThere ==
  ASSUME NEW t, NEW I, NEW B, NEW H, NEW S, NEW p, NEW s, NEW e, NEW o, NEW a,
         BlackShort(t, I, B, H, S, p, s, e, o, a)
  PROVE  /\ a \in I /\ a # Null /\ RB!SideOf(t, p, e) = s
         /\ \E h \in Nat : /\ At(H, e) = h /\ At(H, a) = h + 1
                           /\ RB!Red(t, p) => At(H, p) = h + 1
                           /\ ~RB!Red(t, p) => At(H, p) = h + 2
<1>1. ShortTree(t, I, B, H, S, p, s, e, o, a)
  BY ShortTreeThere
<1>2. /\ At(H, p) = At(H, e) + 1 + Black(t, p) /\ At(H, p) \in Nat /\ At(H, e) \in Nat
  <2>1. /\ Tree(t, I, B) /\ Lacking(t, I, H, p, s) /\ p \in I /\ s \in RB!Sides
        /\ e = Child(t, s, p)
    BY <1>1 DEF ShortTree
  <2> QED BY <2>1, LackingAt
<1>3. /\ At(H, p) = At(H, a) + Black(t, p) /\ At(H, a) \in Nat
  <2>1. /\ Tree(t, I, B) /\ Lacking(t, I, H, p, s) /\ p \in I /\ o \in RB!Sides
        /\ a = Child(t, o, p) /\ o # s
    BY <1>1 DEF ShortTree
  <2> QED BY <2>1, LackingAt
<1>4. /\ RB!Red(t, p) => Black(t, p) = 0
      /\ ~RB!Red(t, p) => Black(t, p) = 1
  BY RedBlack
<1>5. PICK h \in Nat : /\ At(H, e) = h /\ At(H, a) = h + 1
                       /\ RB!Red(t, p) => At(H, p) = h + 1
                       /\ ~RB!Red(t, p) => At(H, p) = h + 2
  <2>1. CASE RB!Red(t, p)
    BY <1>2, <1>3, <1>4, <2>1
  <2>2. CASE ~RB!Red(t, p)
    BY <1>2, <1>3, <1>4, <2>2
  <2> QED BY <2>1, <2>2
<1>6. a # Null
  BY <1>1, <1>5 DEF ShortTree, Lacking
<1>7. a \in I /\ a # e
  BY <1>1, <1>5, <1>6 DEF ShortTree
<1>8. RB!SideOf(t, p, e) = s
  <2>1. /\ Child(t, s, p) = e /\ Child(t, o, p) # e
        /\ s \in {"LEFT", "RIGHT"} /\ o \in {"LEFT", "RIGHT"}
        /\ s # o
    BY <1>1, <1>7 DEF ShortTree, RB!Sides
  <2> QED BY <2>1 DEF RB!SideOf, Child
<1> QED BY <1>5, <1>6, <1>7, <1>8

(* Two nodes get heights that fit. *)
LEMMA LackFixed ==
  ASSUME NEW t, NEW v, NEW u, NEW I, NEW B, NEW e, NEW s, NEW o, NEW c, NEW d, NEW l, NEW r,
         Turning(t, v, u, I, B, e, s, o, c, d, l, r), NEW S, NEW C, Whole(u, I, C, S),
         NEW H, NEW k \in Nat, NEW h \in Nat, h = At(H, e), e \in I,
         NEW p, NEW z, p = e => z = s, Elsewhere(t, u, I, H, p, z, e, c),
         NEW w, LackFits(u, H, k, h, e, c, l, d, r, p, w)
  PROVE  \E G : Lacking(u, I, G, p, z)
<1>1. c \in I /\ c # e
  BY HungNodes DEF Turning
<1>2. H \in [RB!Place -> Nat] /\ c \in RB!Place /\ e \in RB!Place
  BY <1>1, HasNodes DEF Elsewhere, Nodes, Whole
<1>3. PICK G : Adjusted(H, G, e, k, c, h)
  BY <1>1, <1>2, TwoHeights
<1> QED BY <1>3, LackTurned

(* A red sibling gives its place to a black one. *)
LEMMA SiblingBlackens ==
  ASSUME NEW t, NEW I, NEW B, NEW H, NEW S, NEW p, NEW s, NEW e, NEW o, NEW a,
         BlackShort(t, I, B, H, S, p, s, e, o, a), RB!Red(t, a),
         NEW u, u = RB!BlackSibling(t, p, s)
  PROVE  \E C, G, b : /\ BlackShort(u, I, C, G, S, p, s, e, o, b) /\ ~RB!Red(u, b)
                      /\ At(C, e) = At(B, e)
<1>1. ShortTree(t, I, B, H, S, p, s, e, o, a)
  BY ShortTreeThere
<1>2. /\ a \in I /\ a # Null /\ e \in RB!Place /\ p \in I /\ p # Null /\ p # a /\ Nodes(I, B)
      /\ s \in RB!Sides /\ o \in RB!Sides /\ o = RB!Other(s) /\ a = Child(t, o, p)
      /\ e = Child(t, s, p) /\ t \in RB!Trees /\ e # p /\ e # a /\ e \in I \cup {Null}
      /\ Calm(t, I, {}, {}) /\ ~RB!Red(t, e) /\ ~RB!Red(t, Root(t)) /\ Tree(t, I, B)
      /\ Lacking(t, I, H, p, s) /\ H \in [RB!Place -> Nat] /\ Whole(t, I, B, S) /\ o # s
      /\ s = RB!Other(o)
  <2>1. a \in I /\ a # Null
    BY SiblingThere
  <2> QED BY <1>1, <2>1 DEF ShortTree, Nodes
<1>3. ~RB!Red(t, p)
  BY <1>2 DEF Calm
<1>4. PICK h \in Nat : At(H, e) = h /\ At(H, a) = h + 1 /\ At(H, p) = h + 2
  BY <1>3, SiblingThere
<1>5. PICK v : v = RB!SetBlackRed(t, a, p)
  OBVIOUS
<1>6. /\ Whole(v, I, B, S) /\ SameLinks(t, v) /\ RB!Red(v, p) /\ ~RB!Red(v, a)
      /\ \A n \in I \cup {Null} : n \notin {a, p} => (RB!Red(v, n) <=> RB!Red(t, n))
  <2>1. Whole(t, I, B, S) /\ a \in I /\ p \in I /\ a # p
    BY <1>2
  <2> QED BY <1>5, <2>1, RecoloredInside
<1>7. PICK d, r : d = Child(t, s, a) /\ r = Child(t, o, a)
  OBVIOUS
<1>8. u = RB!Rotate(v, p, s)
  BY <1>2, <1>5 DEF RB!BlackSibling, Child
<1>9. /\ Turning(t, v, u, I, B, p, s, o, a, d, e, r)
      /\ \E C : Whole(u, I, C, S) /\ Moved(B, C, p, a)
      /\ \A n : RB!Red(u, n) <=> RB!Red(v, n)
      /\ Root(u) = IF Root(t) = p THEN a ELSE Root(t)
      /\ u \in RB!Trees
  <2>1. /\ t \in RB!Trees /\ Whole(v, I, B, S) /\ SameLinks(t, v) /\ p \in I /\ s \in RB!Sides
        /\ o = RB!Other(s) /\ a = Child(t, o, p) /\ a # Null /\ d = Child(t, s, a)
        /\ e = Child(t, s, p) /\ r = Child(t, o, a)
    BY <1>2, <1>6, <1>7
  <2> QED BY <1>8, <2>1, Turns
<1>10. PICK C : Whole(u, I, C, S) /\ Moved(B, C, p, a)
  BY <1>9
<1>11. At(C, e) = At(B, e)
  BY <1>2, <1>10 DEF Moved
<1>12. Hung(v, u, I, B, p, s, o, a, d, e, r)
  BY <1>9 DEF Turning
<1>13. d \in I \cup {Null} /\ r \in I \cup {Null} /\ d \notin {a, p} /\ r \notin {a, p}
  BY <1>12, HungNodes
<1>14. Child(u, s, p) = e /\ Child(u, o, p) = d
  BY <1>2, <1>12, HungWhere
<1>15. ~RB!Red(t, d)
  BY <1>2, <1>7 DEF Calm
<1>16. /\ RB!Red(u, p) /\ ~RB!Red(u, a) /\ ~RB!Red(u, d) /\ ~RB!Red(u, e)
       /\ \A n \in I \cup {Null} : n \notin {p, a} => (RB!Red(u, n) <=> RB!Red(t, n))
  BY <1>2, <1>6, <1>9, <1>13, <1>15
<1>17. Calm(u, I, {}, {})
  BY <1>2, <1>9, <1>16, CalmTurned
<1>18. ~RB!Red(u, Root(u))
  <2>1. Root(t) \in I \cup {Null} /\ Root(t) # a
    BY <1>2, ParentIsOne DEF Tree, Linked
  <2> QED BY <1>2, <1>9, <1>16, <2>1
<1>19. \E G : Lacking(u, I, G, p, s)
  <2>1. Black(t, a) = 0 /\ Black(u, p) = 0 /\ Black(u, a) = 1
    BY <1>16, RedBlack
  <2>2. At(H, a) = At(H, d) + Black(t, a) /\ At(H, d) \in Nat
    <3>1. /\ Tree(t, I, B) /\ Lacking(t, I, H, p, s) /\ a \in I /\ s \in RB!Sides
          /\ d = Child(t, s, a) /\ a # p
      BY <1>2, <1>7
    <3> QED BY <3>1, LackingAt
  <2>3. At(H, a) = At(H, r) + Black(t, a) /\ At(H, r) \in Nat
    <3>1. /\ Tree(t, I, B) /\ Lacking(t, I, H, p, s) /\ a \in I /\ o \in RB!Sides
          /\ r = Child(t, o, a) /\ a # p
      BY <1>2, <1>7
    <3> QED BY <3>1, LackingAt
  <2>4. At(H, d) = h + 1 /\ At(H, r) = h + 1
    BY <1>4, <2>1, <2>2, <2>3
  <2>5. PICK k \in Nat, y \in Nat : k = h + 1 /\ y = h + 2
    OBVIOUS
  <2>6. PICK w : w = IF p = p THEN 1 ELSE 0
    OBVIOUS
  <2>7. LackFits(u, H, k, y, p, a, e, d, r, p, w)
    BY <1>2, <1>4, <2>1, <2>4, <2>5, <2>6 DEF LackFits
  <2>8. Elsewhere(t, u, I, H, p, s, p, a)
    <3>1. \A n \in I : n \notin {p, a} => Black(u, n) = Black(t, n)
      BY <1>16 DEF Black
    <3> QED BY <1>2, <3>1 DEF Elsewhere, Lacking
  <2>9. y = At(H, p)
    BY <1>4, <2>5
  <2> QED BY <1>2, <1>9, <1>10, <2>7, <2>8, <2>9, LackFixed
<1>20. PICK G : Lacking(u, I, G, p, s)
  BY <1>19
<1>21. Calm(u, I, {e}, {e})
  BY <1>17 DEF Calm
<1>22. OneShort(u, I, C, G, S, p, s, e)
  BY <1>2, <1>10, <1>14, <1>18, <1>20, <1>21 DEF OneShort
<1>23. BlackShort(u, I, C, G, S, p, s, e, o, d)
  BY <1>2, <1>14, <1>16, <1>22 DEF BlackShort
<1> QED BY <1>11, <1>16, <1>23

(* One node turns red. *)
LEMMA ReddenWrites ==
  ASSUME NEW t, NEW I, NEW B, NEW S, Whole(t, I, B, S), NEW a \in I,
         NEW u, u = [t EXCEPT !.color[a] = "RED"]
  PROVE  /\ Whole(u, I, B, S) /\ SameLinks(t, u) /\ RB!Red(u, a)
         /\ \A n \in I \cup {Null} : n # a => (RB!Red(u, n) <=> RB!Red(t, n))
<1>1. Nodes(I, B) /\ t \in RB!Trees /\ a \in Keys /\ a # Null
  BY HasNodes DEF Whole, Nodes
<1>2. u.color = [t.color EXCEPT ![a] = "RED"] /\ SameLinks(t, u)
  BY <1>1, TypeOfTrees DEF SameLinks, RB!Trees, Root
<1>3. \A n \in Keys : u.color[n] = IF n = a THEN "RED" ELSE t.color[n]
  BY <1>1, <1>2, TypeOfTrees
<1>4. Whole(u, I, B, S)
  <2>1. SameLinks(t, u) /\ \A n \in Keys : n \notin I => u.color[n] = t.color[n]
    BY <1>2, <1>3
  <2> QED BY <2>1, RecoloredWhole
<1>5. \A n \in I \cup {Null} : n # a => (RB!Red(u, n) <=> RB!Red(t, n))
  BY <1>1, <1>3 DEF RB!Red, Nodes
<1> QED BY <1>1, <1>2, <1>3, <1>4, <1>5 DEF RB!Red

(* Where p hangs: on the side z of q, if it is not the root *)
HungOn(t, I, p, q, z) ==
  /\ q = Parent(t, p) /\ z \in RB!Sides
  /\ p = Root(t) => q = Null
  /\ p # Root(t) => q \in I /\ Child(t, z, q) = p
  /\ \A n \in I, x \in RB!Sides : Child(t, x, n) = p => n = q /\ x = z

(* Every node hangs somewhere. *)
LEMMA HungSomewhere ==
  ASSUME NEW t, NEW I, NEW B, Tree(t, I, B), NEW p \in I
  PROVE  \E q, z : HungOn(t, I, p, q, z)
<1>1. PICK q : q = Parent(t, p)
  OBVIOUS
<1>2. p # Null
  BY HasNodes DEF Nodes
<1>3. \A n \in I, x \in RB!Sides : Child(t, x, n) = p => n = q /\ p # Root(t)
  BY <1>1, <1>2, ParentIsOne
<1>4. CASE p = Root(t)
  <2>1. q = Null
    BY <1>1, <1>2, <1>4, RootHasAll
  <2>2. "LEFT" \in RB!Sides
    BY DEF RB!Sides
  <2> QED BY <1>1, <1>3, <1>4, <2>1, <2>2 DEF HungOn
<1>5. CASE p # Root(t)
  <2>1. PICK z \in RB!Sides : q \in I /\ Child(t, z, q) = p
    BY <1>1, <1>5 DEF Tree, Linked
  <2>2. ASSUME NEW x \in RB!Sides, Child(t, x, q) = p
        PROVE  x = z
    <3>1. Child(t, z, q) # Child(t, RB!Other(z), q)
      BY <1>2, <2>1, Halves
    <3>2. x = z \/ x = RB!Other(z)
      BY <2>1, OtherSide
    <3> QED BY <2>1, <2>2, <3>1, <3>2
  <2> QED BY <1>1, <1>3, <1>5, <2>1, <2>2 DEF HungOn
<1> QED BY <1>4, <1>5

(* A black sibling without red children turns red, and the fault moves up. *)
LEMMA SiblingReddens ==
  ASSUME NEW t, NEW I, NEW B, NEW H, NEW S, NEW p, NEW s, NEW e, NEW o, NEW a,
         BlackShort(t, I, B, H, S, p, s, e, o, a), ~RB!Red(t, a),
         \A x \in RB!Sides : ~RB!Red(t, Child(t, x, a)),
         NEW u, u = [t EXCEPT !.color[a] = "RED"], NEW q, NEW z, HungOn(t, I, p, q, z)
  PROVE  /\ \E G : Lacking(u, I, G, q, z)
         /\ Whole(u, I, B, S) /\ Calm(u, I, {p}, {}) /\ Root(u) = Root(t)
         /\ ~RB!Red(u, Root(u)) /\ \A x, n : Child(u, x, n) = Child(t, x, n)
<1>1. ShortTree(t, I, B, H, S, p, s, e, o, a)
  BY ShortTreeThere
<1>2. /\ a \in I /\ a # Null /\ e \in RB!Place /\ p \in I /\ p # Null /\ p # a /\ Nodes(I, B)
      /\ s \in RB!Sides /\ o \in RB!Sides /\ a = Child(t, o, p) /\ o # s
      /\ e = Child(t, s, p) /\ e # p /\ e # a /\ e \in I \cup {Null} /\ a \in RB!Place
      /\ Calm(t, I, {}, {}) /\ ~RB!Red(t, Root(t)) /\ Tree(t, I, B) /\ p \in RB!Place
      /\ Lacking(t, I, H, p, s) /\ H \in [RB!Place -> Nat] /\ Whole(t, I, B, S)
      /\ \A x \in RB!Sides : x = s \/ x = o
  <2>1. a \in I /\ a # Null
    BY SiblingThere
  <2>2. \E h \in Nat : At(H, e) = h /\ At(H, a) = h + 1
    BY SiblingThere
  <2>3. e # a
    BY <2>2
  <2> QED BY <1>1, <2>1, <2>3 DEF ShortTree, Nodes
<1>3. /\ Whole(u, I, B, S) /\ SameLinks(t, u) /\ RB!Red(u, a)
      /\ \A n \in I \cup {Null} : n # a => (RB!Red(u, n) <=> RB!Red(t, n))
  BY <1>2, ReddenWrites
<1>4. Root(u) = Root(t) /\ \A x, n : Child(u, x, n) = Child(t, x, n)
  BY <1>3, SameLinksRead
<1>5. \A n \in I, x \in RB!Sides : Child(t, x, n) = a => n = p /\ x = o /\ a # Root(t)
  <2>1. PICK y, w : HungOn(t, I, a, y, w)
    BY <1>2, HungSomewhere
  <2>2. y = p /\ w = o
    BY <1>2, <2>1 DEF HungOn
  <2> QED BY <1>2, <2>1, <2>2, ParentIsOne DEF HungOn
<1>6. Calm(u, I, {p}, {})
  <2> SUFFICES ASSUME NEW n \in I, NEW x \in RB!Sides, NEW m, m = Child(t, x, n),
                      RB!Red(u, n), RB!Red(u, m), n # p
               PROVE  FALSE
    BY <1>4 DEF Calm
  <2>1. m # a
    BY <1>5
  <2>2. m \in I \cup {Null}
    BY <1>2, Halves
  <2>3. RB!Red(t, m)
    BY <1>3, <2>1, <2>2
  <2>4. n # a
    BY <2>3
  <2> QED BY <1>2, <1>3, <2>3, <2>4 DEF Calm
<1>7. ~RB!Red(u, Root(u))
  <2>1. Root(t) \in I \cup {Null} /\ Root(t) # a
    BY <1>2, <1>5 DEF Tree, Linked
  <2> QED BY <1>2, <1>3, <1>4, <2>1
<1>8. PICK h \in Nat : /\ At(H, e) = h /\ At(H, a) = h + 1
                       /\ RB!Red(t, p) => At(H, p) = h + 1
                       /\ ~RB!Red(t, p) => At(H, p) = h + 2
  BY SiblingThere
<1>9. PICK k \in Nat : At(H, p) = k + 1 /\ k = h + Black(u, p)
  <2>1. CASE RB!Red(t, p)
    BY <1>2, <1>3, <1>8, <2>1, RedBlack
  <2>2. CASE ~RB!Red(t, p)
    BY <1>2, <1>3, <1>8, <2>2, RedBlack
  <2> QED BY <2>1, <2>2
<1>10. PICK G : Adjusted(H, G, p, k, a, h)
  BY <1>2, TwoHeights
<1>11. /\ G \in [RB!Place -> Nat] /\ At(G, p) = k /\ At(G, a) = h /\ At(G, Null) = 0 /\ At(G, e) = h
       /\ \A n \in I \cup {Null} : n \notin {p, a} => At(G, n) = At(H, n)
  BY <1>2, <1>8, <1>10 DEF Adjusted, Lacking, Nodes
<1>12. ASSUME NEW n \in I, NEW x \in RB!Sides, NEW m, m = Child(u, x, n)
       PROVE  At(G, n) = At(G, m) + Short(n, x, q, z) + Black(u, n)
  <2>1. m = Child(t, x, n) /\ m \in I \cup {Null} /\ m # n
    BY <1>2, <1>4, <1>12, Halves
  <2>2. /\ At(H, n) \in Nat /\ At(H, m) \in Nat
        /\ n = p /\ x = s => At(H, n) = At(H, m) + 1 + Black(t, n)
        /\ ~(n = p /\ x = s) => At(H, n) = At(H, m) + Black(t, n)
    BY <1>2, <2>1, LackingAt
  <2>3. CASE n = p
    <3>1. ~(n = q /\ x = z)
      BY <1>2, <2>3 DEF HungOn
    <3>2. m = e \/ m = a
      BY <1>2, <2>1, <2>3
    <3>3. At(G, m) = h /\ Short(n, x, q, z) = 0
      BY <1>11, <3>1, <3>2 DEF Short
    <3> QED BY <1>9, <1>11, <2>3, <3>3
  <2>4. CASE n = a
    <3>1. m # p
      <4>1. CASE m = p
        <5>1. p \in At(B, a)
          <6>1. Tree(t, I, B) /\ a \in I /\ x \in RB!Sides /\ p = Child(t, x, a) /\ p \in I
            BY <1>2, <2>1, <2>4, <4>1
          <6>2. At(B, p) \subseteq At(B, a) /\ p \in At(B, p)
            BY <6>1, Halves
          <6> QED BY <6>2
        <5> QED BY <1>1, <5>1 DEF ShortTree, Parts
      <4> QED BY <4>1
    <3>2. At(G, m) = At(H, m)
      BY <1>11, <2>1, <2>4, <3>1
    <3>3. n # q \/ x # z
      BY <2>1, <2>4, <3>1, <1>2, <1>5 DEF HungOn
    <3>4. Black(t, a) = 1 /\ Black(u, a) = 0
      BY <1>3, RedBlack
    <3>5. Short(n, x, q, z) = 0
      BY <3>3 DEF Short
    <3>6. At(H, m) = h
      BY <1>2, <1>8, <2>2, <2>4, <3>4
    <3> QED BY <1>11, <2>4, <3>2, <3>4, <3>5, <3>6
  <2>5. CASE n \notin {p, a}
    <3>1. Black(u, n) = Black(t, n) /\ At(G, n) = At(H, n)
      BY <1>3, <1>11, <2>5 DEF Black
    <3>2. CASE m = p
      <4>1. n = q /\ x = z
        BY <2>1, <3>2 DEF HungOn
      <4>2. Short(n, x, q, z) = 1
        BY <4>1 DEF Short
      <4> QED BY <1>9, <1>11, <2>2, <2>5, <3>1, <3>2, <4>2
    <3>3. CASE m # p
      <4>1. m # a
        BY <1>5, <2>1, <2>5
      <4>2. ~(n = q /\ x = z)
        BY <1>2, <2>1, <2>5, <3>3 DEF HungOn, Nodes, Tree, Linked
      <4>3. Short(n, x, q, z) = 0 /\ At(G, m) = At(H, m)
        BY <1>11, <2>1, <3>3, <4>1, <4>2 DEF Short
      <4> QED BY <2>2, <2>5, <3>1, <4>3
    <3> QED BY <3>2, <3>3
  <2> QED BY <2>3, <2>4, <2>5
<1>13. Lacking(u, I, G, q, z)
  BY <1>11, <1>12 DEF Lacking
<1> QED BY <1>3, <1>4, <1>6, <1>7, <1>13

(* A black sibling with a red child gets one on the far side. *)
LEMMA FarReddens ==
  ASSUME NEW t, NEW I, NEW B, NEW H, NEW S, NEW p, NEW s, NEW e, NEW o, NEW a,
         BlackShort(t, I, B, H, S, p, s, e, o, a), ~RB!Red(t, a),
         \E x \in RB!Sides : RB!Red(t, Child(t, x, a)),
         NEW u, u = RB!RedFar(t, p, s)
  PROVE  \E C, G, b : /\ BlackShort(u, I, C, G, S, p, s, e, o, b) /\ ~RB!Red(u, b)
                      /\ RB!Red(u, Child(u, o, b))
<1>1. ShortTree(t, I, B, H, S, p, s, e, o, a)
  BY ShortTreeThere
<1>2. /\ a \in I /\ a # Null /\ p \in I /\ p # Null /\ p # a /\ Nodes(I, B)
      /\ s \in RB!Sides /\ o \in RB!Sides /\ o = RB!Other(s) /\ a = Child(t, o, p)
      /\ e = Child(t, s, p) /\ t \in RB!Trees /\ e # p /\ e # a /\ e \in I \cup {Null}
      /\ Calm(t, I, {}, {}) /\ ~RB!Red(t, e) /\ ~RB!Red(t, Root(t)) /\ Tree(t, I, B)
      /\ Lacking(t, I, H, p, s) /\ H \in [RB!Place -> Nat] /\ Whole(t, I, B, S) /\ o # s
      /\ s = RB!Other(o) /\ \A x \in RB!Sides : x = s \/ x = o
  <2>1. a \in I /\ a # Null
    BY SiblingThere
  <2>2. \E h \in Nat : At(H, e) = h /\ At(H, a) = h + 1
    BY SiblingThere
  <2>3. e # a
    BY <2>2
  <2> QED BY <1>1, <2>1, <2>3 DEF ShortTree, Nodes
<1>3. PICK c, f : c = Child(t, s, a) /\ f = Child(t, o, a)
  OBVIOUS
<1>4. CASE RB!Red(t, f)
  <2>1. u = t
    BY <1>2, <1>3, <1>4 DEF RB!RedFar, Child
  <2> QED BY <1>3, <1>4, <2>1
<1>5. CASE ~RB!Red(t, f)
  <2>1. RB!Red(t, c)
    BY <1>2, <1>3, <1>5
  <2>2. c # Null /\ c \in I /\ c # a /\ c # Root(t) /\ Parent(t, c) = a
    <3>1. c # Null
      BY <2>1 DEF RB!Red
    <3>2. Tree(t, I, B) /\ a \in I /\ s \in RB!Sides /\ c = Child(t, s, a) /\ c # Null
      BY <1>2, <1>3, <3>1
    <3> QED BY <3>2, ParentIsOne
  <2>3. c # p
    <3>1. Parent(t, a) = p /\ a # Root(t)
      BY <1>2, ParentIsOne
    <3>2. CASE c = p
      <4>1. p \in At(B, a)
        <5>1. Tree(t, I, B) /\ a \in I /\ s \in RB!Sides /\ p = Child(t, s, a) /\ p \in I
          BY <1>2, <1>3, <3>2
        <5>2. At(B, p) \subseteq At(B, a) /\ p \in At(B, p)
          BY <5>1, Halves
        <5> QED BY <5>2
      <4> QED BY <1>1, <4>1 DEF ShortTree, Parts
    <3> QED BY <3>2
  <2>4. PICK v : v = RB!SetBlackRed(t, c, a)
    OBVIOUS
  <2>5. /\ Whole(v, I, B, S) /\ SameLinks(t, v) /\ RB!Red(v, a) /\ ~RB!Red(v, c)
        /\ \A n \in I \cup {Null} : n \notin {c, a} => (RB!Red(v, n) <=> RB!Red(t, n))
    <3>1. Whole(t, I, B, S) /\ c \in I /\ a \in I /\ c # a
      BY <1>2, <2>2
    <3> QED BY <2>4, <3>1, RecoloredInside
  <2>6. PICK d, r : d = Child(t, o, c) /\ r = Child(t, s, c)
    OBVIOUS
  <2>7. u = RB!Rotate(v, a, o)
    BY <1>2, <1>3, <1>5, <2>4 DEF RB!RedFar, Child
  <2>8. /\ Turning(t, v, u, I, B, a, o, s, c, d, f, r)
        /\ \E C : Whole(u, I, C, S) /\ Moved(B, C, a, c)
        /\ \A n : RB!Red(u, n) <=> RB!Red(v, n)
        /\ Root(u) = IF Root(t) = a THEN c ELSE Root(t)
        /\ u \in RB!Trees
    <3>1. /\ t \in RB!Trees /\ Whole(v, I, B, S) /\ SameLinks(t, v) /\ a \in I /\ o \in RB!Sides
          /\ s = RB!Other(o) /\ c = Child(t, s, a) /\ c # Null /\ d = Child(t, o, c)
          /\ f = Child(t, o, a) /\ r = Child(t, s, c)
      BY <1>2, <1>3, <2>2, <2>5, <2>6
    <3> QED BY <2>7, <3>1, Turns
  <2>9. PICK C : Whole(u, I, C, S)
    BY <2>8
  <2>10. Hung(v, u, I, B, a, o, s, c, d, f, r)
    BY <2>8 DEF Turning
  <2>11. /\ d \in I \cup {Null} /\ r \in I \cup {Null} /\ f \in I \cup {Null}
         /\ d \notin {a, c} /\ r \notin {a, c} /\ f \notin {a, c}
    BY <2>10, HungNodes
  <2>12. Child(u, o, c) = a
    BY <1>2, <2>10, HungWhere
  <2>13. Child(v, s, p) = e /\ Child(v, o, p) = a
    BY <1>2, <2>5, SameLinksRead
  <2>14. Child(u, o, p) = c
    BY <1>2, <2>3, <2>10, <2>13, HungAbove
  <2>15. Child(u, s, p) = e
    BY <1>2, <2>3, <2>10, <2>13, HungAbove
  <2>16. ~RB!Red(t, d)
    BY <1>2, <2>1, <2>2, <2>6 DEF Calm
  <2>17. /\ RB!Red(u, a) /\ ~RB!Red(u, c) /\ ~RB!Red(u, d) /\ ~RB!Red(u, f)
         /\ \A n \in I \cup {Null} : n \notin {a, c} => (RB!Red(u, n) <=> RB!Red(t, n))
    BY <1>5, <2>5, <2>8, <2>11, <2>16
  <2>18. Calm(u, I, {}, {})
    BY <1>2, <2>8, <2>17, CalmTurned
  <2>19. Root(u) = Root(t) /\ ~RB!Red(u, Root(u))
    <3>1. Root(t) \in I \cup {Null} /\ Root(t) # a
      BY <1>2, ParentIsOne DEF Tree, Linked
    <3> QED BY <1>2, <2>2, <2>8, <2>17, <3>1
  <2>20. ~RB!Red(u, e)
    <3>1. e # c
      BY <1>2, <2>1
    <3> QED BY <1>2, <2>17, <3>1
  <2>21. \E G : Lacking(u, I, G, p, s)
    <3>1. /\ Black(t, a) = 1 /\ Black(u, a) = 0 /\ Black(t, c) = 0 /\ Black(u, c) = 1
      BY <2>1, <2>17, RedBlack
    <3>2. PICK h \in Nat : At(H, e) = h /\ At(H, a) = h + 1
      BY SiblingThere
    <3>3. At(H, a) = At(H, c) + Black(t, a) /\ At(H, c) \in Nat
      <4>1. /\ Tree(t, I, B) /\ Lacking(t, I, H, p, s) /\ a \in I /\ s \in RB!Sides
            /\ c = Child(t, s, a) /\ a # p
        BY <1>2, <1>3
      <4> QED BY <4>1, LackingAt
    <3>4. At(H, a) = At(H, f) + Black(t, a) /\ At(H, f) \in Nat
      <4>1. /\ Tree(t, I, B) /\ Lacking(t, I, H, p, s) /\ a \in I /\ o \in RB!Sides
            /\ f = Child(t, o, a) /\ a # p
        BY <1>2, <1>3
      <4> QED BY <4>1, LackingAt
    <3>5. At(H, c) = At(H, d) + Black(t, c) /\ At(H, d) \in Nat
      <4>1. /\ Tree(t, I, B) /\ Lacking(t, I, H, p, s) /\ c \in I /\ o \in RB!Sides
            /\ d = Child(t, o, c) /\ c # p
        BY <1>2, <2>2, <2>3, <2>6
      <4> QED BY <4>1, LackingAt
    <3>6. At(H, c) = At(H, r) + Black(t, c) /\ At(H, r) \in Nat
      BY <1>2, <2>2, <2>3, <2>6, LackingAt
    <3>7. At(H, c) = h /\ At(H, f) = h
      BY <3>1, <3>2, <3>3, <3>4
    <3>8. At(H, d) = h /\ At(H, r) = h
      BY <3>1, <3>5, <3>6, <3>7
    <3>9. PICK y \in Nat : y = h + 1
      OBVIOUS
    <3>10. PICK w : w = IF p = a THEN 1 ELSE 0
      OBVIOUS
    <3>11. LackFits(u, H, h, y, a, c, f, d, r, p, w)
      <4>1. p # a /\ p # c /\ w = 0
        BY <1>2, <2>3, <3>10
      <4>2. h \in Nat /\ Black(u, a) = 0 /\ Black(u, c) = 1
        BY <3>1
      <4> QED BY <3>7, <3>8, <3>9, <4>1, <4>2 DEF LackFits
    <3>12. Elsewhere(t, u, I, H, p, s, a, c)
      <4>1. \A n \in I : n \notin {a, c} => Black(u, n) = Black(t, n)
        BY <2>17 DEF Black
      <4> QED BY <1>2, <4>1 DEF Elsewhere, Lacking
    <3>13. y = At(H, a)
      BY <3>2, <3>9
    <3>14. /\ Turning(t, v, u, I, B, a, o, s, c, d, f, r) /\ Whole(u, I, C, S) /\ a \in I
           /\ p = a => s = o
      BY <1>2, <2>8, <2>9
    <3>15. h \in Nat /\ y \in Nat
      OBVIOUS
    <3> QED BY <3>11, <3>12, <3>13, <3>14, <3>15, LackFixed
  <2>22. PICK G : Lacking(u, I, G, p, s)
    BY <2>21
  <2>23. Calm(u, I, {e}, {e})
    BY <2>18 DEF Calm
  <2>24. OneShort(u, I, C, G, S, p, s, e)
    BY <1>2, <2>9, <2>15, <2>19, <2>22, <2>23 DEF OneShort
  <2>25. BlackShort(u, I, C, G, S, p, s, e, o, c)
    BY <1>2, <2>14, <2>20, <2>24 DEF BlackShort
  <2> QED BY <2>12, <2>17, <2>25
<1> QED BY <1>4, <1>5

(* v is t in the colors in which p goes down and a takes its place. *)
LEMMA EvenedColors ==
  ASSUME NEW t, NEW I, NEW B, NEW S, Whole(t, I, B, S), NEW p \in I, NEW a \in I, p # a,
         NEW f \in I, f \notin {p, a}, NEW w,
         w = [t EXCEPT !.color = [@ EXCEPT ![a] = t.color[p], ![p] = "BLACK"]],
         NEW v, v = RB!Blacken(w, f)
  PROVE  /\ Whole(v, I, B, S) /\ SameLinks(t, v) /\ ~RB!Red(v, p) /\ ~RB!Red(v, f)
         /\ RB!Red(v, a) <=> RB!Red(t, p)
         /\ \A n \in I \cup {Null} : n \notin {p, a, f} => (RB!Red(v, n) <=> RB!Red(t, n))
<1>1. /\ Nodes(I, B) /\ t \in RB!Trees /\ p \in Keys /\ a \in Keys /\ f \in Keys
      /\ a # Null /\ p # Null /\ f # Null
  BY HasNodes DEF Whole, Nodes
<1>2. w.color = [t.color EXCEPT ![a] = t.color[p], ![p] = "BLACK"] /\ SameLinks(t, w)
  BY <1>1, TypeOfTrees DEF SameLinks, RB!Trees, Root
<1>3. \A n \in Keys : w.color[n] = IF n = p THEN "BLACK" ELSE IF n = a THEN t.color[p]
                                   ELSE t.color[n]
  BY <1>1, <1>2, TypeOfTrees
<1>4. Blackened(w, v, f)
  BY <1>1, <1>2, BlackenWrites DEF SameLinks, RB!Place
<1>5. /\ SameLinks(t, v)
      /\ \A n \in Keys : v.color[n] = IF n \in {p, f} THEN "BLACK" ELSE IF n = a THEN t.color[p]
                                      ELSE t.color[n]
  BY <1>2, <1>3, <1>4 DEF Blackened, SameLinks
<1>6. Whole(v, I, B, S)
  BY <1>5, RecoloredWhole
<1>7. \A n \in I \cup {Null} : n \notin {p, a, f} => (RB!Red(v, n) <=> RB!Red(t, n))
  BY <1>1, <1>5 DEF RB!Red, Nodes
<1> QED BY <1>1, <1>5, <1>6, <1>7 DEF RB!Red

(* With a red child on its far side, the sibling takes the place of p. *)
LEMMA Evens ==
  ASSUME NEW t, NEW I, NEW B, NEW H, NEW S, NEW p, NEW s, NEW e, NEW o, NEW a,
         BlackShort(t, I, B, H, S, p, s, e, o, a), ~RB!Red(t, a), RB!Red(t, Child(t, o, a)),
         NEW u, u = RB!Evened(t, p, s)
  PROVE  \E C, G : Balance(u, I, C, G, S)
<1>1. ShortTree(t, I, B, H, S, p, s, e, o, a)
  BY ShortTreeThere
<1>2. /\ a \in I /\ a # Null /\ p \in I /\ p # Null /\ p # a /\ Nodes(I, B)
      /\ s \in RB!Sides /\ o \in RB!Sides /\ o = RB!Other(s) /\ a = Child(t, o, p)
      /\ e = Child(t, s, p) /\ t \in RB!Trees /\ e # p /\ e \in I \cup {Null}
      /\ Calm(t, I, {}, {}) /\ ~RB!Red(t, e) /\ ~RB!Red(t, Root(t)) /\ Tree(t, I, B)
      /\ Lacking(t, I, H, p, s) /\ H \in [RB!Place -> Nat] /\ Whole(t, I, B, S) /\ o # s
      /\ s = RB!Other(o) /\ \A x \in RB!Sides : x = s \/ x = o
  <2>1. a \in I /\ a # Null
    BY SiblingThere
  <2> QED BY <1>1, <2>1 DEF ShortTree, Nodes
<1>3. PICK d, f : d = Child(t, s, a) /\ f = Child(t, o, a)
  OBVIOUS
<1>4. /\ RB!Red(t, f) /\ f # Null /\ f \in I /\ f # a /\ f # Root(t) /\ Parent(t, f) = a
      /\ f # e
  <2>1. RB!Red(t, f) /\ f # Null
    BY <1>3 DEF RB!Red
  <2>2. Tree(t, I, B) /\ a \in I /\ o \in RB!Sides /\ f = Child(t, o, a) /\ ~RB!Red(t, e)
    BY <1>2, <1>3
  <2>3. f \in I /\ f # a /\ f # Root(t) /\ Parent(t, f) = a
    BY <2>1, <2>2, ParentIsOne
  <2> QED BY <2>1, <2>2, <2>3
<1>5. f # p /\ d # p
  <2>1. ASSUME NEW x \in RB!Sides
        PROVE  Child(t, x, a) # p
    <3>1. Child(t, x, a) # Null => Child(t, x, a) \in At(B, a)
      BY <1>2, Halves DEF Nodes
    <3>2. p \notin At(B, a)
      BY <1>1 DEF ShortTree, Parts
    <3> QED BY <1>2, <3>1, <3>2
  <2> QED BY <1>2, <1>3, <2>1
<1>6. PICK y : y = RB!Blacken(t, f)
  OBVIOUS
<1>7. /\ SameLinks(t, y) /\ y \in RB!Trees /\ ~RB!Red(y, f)
      /\ \A n \in I \cup {Null} : n # f => (RB!Red(y, n) <=> RB!Red(t, n))
  <2>1. Blackened(t, y, f) /\ f \in RB!Place /\ \A n \in I \cup {Null} : n \in RB!Place
    BY <1>2, <1>4, <1>6, BlackenWrites DEF Nodes
  <2>2. SameLinks(t, y) /\ y \in RB!Trees
    BY <2>1 DEF Blackened, SameLinks
  <2> QED BY <2>1, <2>2, RedAfterBlackening
<1>8. \A x, n : Child(y, x, n) = Child(t, x, n) /\ Root(y) = Root(t)
  BY <1>7, SameLinksRead
<1>9. PICK v, w : /\ w = [t EXCEPT !.color = [@ EXCEPT ![a] = t.color[p], ![p] = "BLACK"]]
                  /\ v = RB!Blacken(w, f) /\ u = RB!Rotate(v, p, s)
  BY <1>2, <1>3 DEF RB!Evened, Child
<1>10. /\ Whole(v, I, B, S) /\ SameLinks(t, v) /\ ~RB!Red(v, p) /\ ~RB!Red(v, f)
       /\ RB!Red(v, a) <=> RB!Red(t, p)
       /\ \A n \in I \cup {Null} : n \notin {p, a, f} => (RB!Red(v, n) <=> RB!Red(t, n))
  <2>1. Whole(t, I, B, S) /\ p \in I /\ a \in I /\ p # a /\ f \in I /\ f \notin {p, a}
    BY <1>2, <1>4, <1>5
  <2> QED BY <1>9, <2>1, EvenedColors
<1>11. SameLinks(y, v)
  BY <1>7, <1>10 DEF SameLinks
<1>12. /\ Turning(y, v, u, I, B, p, s, o, a, d, e, f)
       /\ \E C : Whole(u, I, C, S) /\ Moved(B, C, p, a)
       /\ \A n : RB!Red(u, n) <=> RB!Red(v, n)
       /\ Root(u) = IF Root(y) = p THEN a ELSE Root(y)
       /\ u \in RB!Trees
  <2>1. a = Child(y, o, p) /\ d = Child(y, s, a) /\ e = Child(y, s, p) /\ f = Child(y, o, a)
    BY <1>2, <1>3, <1>8
  <2>2. /\ y \in RB!Trees /\ Whole(v, I, B, S) /\ SameLinks(y, v) /\ p \in I /\ s \in RB!Sides
        /\ o = RB!Other(s) /\ a # Null
    BY <1>2, <1>7, <1>10, <1>11
  <2> QED BY <1>9, <2>1, <2>2, Turns
<1>13. PICK C : Whole(u, I, C, S)
  BY <1>12
<1>14. d \in I \cup {Null} /\ (d # Null => d # f) /\ d \notin {a, p} /\ e \notin {a, p}
  BY <1>12, HungNodes DEF Turning
<1>15. /\ ~RB!Red(u, p) /\ ~RB!Red(u, f) /\ (RB!Red(u, a) <=> RB!Red(t, p))
       /\ \A n \in I \cup {Null} : n \notin {p, a} => (RB!Red(u, n) <=> RB!Red(y, n))
  BY <1>7, <1>10, <1>12
<1>16. Calm(y, I, {}, {})
  <2> SUFFICES ASSUME NEW n \in I, NEW x \in RB!Sides, NEW m, m = Child(t, x, n),
                      RB!Red(y, n), RB!Red(y, m)
               PROVE  FALSE
    BY <1>8 DEF Calm
  <2>1. m \in I \cup {Null}
    BY <1>2, Halves
  <2> QED BY <1>2, <1>7, <2>1 DEF Calm
<1>17. RB!Red(y, p) <=> RB!Red(t, p)
  BY <1>2, <1>5, <1>7
<1>18. Calm(u, I, {}, {})
  BY <1>12, <1>15, <1>16, <1>17, CalmTurned
<1>19. ~RB!Red(u, Root(u))
  <2>1. Root(t) \in I \cup {Null} /\ Root(t) # a
    BY <1>2, ParentIsOne DEF Tree, Linked
  <2> QED BY <1>2, <1>4, <1>7, <1>8, <1>12, <1>15, <2>1
<1>20. \E G : Lacking(u, I, G, Null, s)
  <2>1. /\ Black(t, a) = 1 /\ Black(t, f) = 0 /\ Black(u, f) = 1 /\ Black(u, p) = 1
    BY <1>4, <1>15, RedBlack
  <2>2. PICK h \in Nat : /\ At(H, e) = h /\ At(H, a) = h + 1
                         /\ RB!Red(t, p) => At(H, p) = h + 1
                         /\ ~RB!Red(t, p) => At(H, p) = h + 2
    BY SiblingThere
  <2>3. PICK k \in Nat : k = h + 1
    OBVIOUS
  <2>4. PICK j \in Nat : j = At(H, p) /\ j = k + Black(u, a)
    <3>1. CASE RB!Red(t, p)
      BY <1>15, <2>2, <2>3, <3>1, RedBlack
    <3>2. CASE ~RB!Red(t, p)
      <4>1. Black(u, a) = 1
        BY <1>15, <3>2, RedBlack
      <4> QED BY <2>2, <2>3, <3>2, <4>1
    <3> QED BY <3>1, <3>2
  <2>5. At(H, d) = h
    <3>1. At(H, a) = At(H, d) + Black(t, a) /\ At(H, d) \in Nat
      <4>1. /\ Tree(t, I, B) /\ Lacking(t, I, H, p, s) /\ a \in I /\ s \in RB!Sides
            /\ d = Child(t, s, a) /\ a # p
        BY <1>2, <1>3
      <4> QED BY <4>1, LackingAt
    <3> QED BY <2>1, <2>2, <3>1
  <2>6. At(H, f) = h
    <3>1. At(H, a) = At(H, f) + Black(t, a) /\ At(H, f) \in Nat
      <4>1. /\ Tree(t, I, B) /\ Lacking(t, I, H, p, s) /\ a \in I /\ o \in RB!Sides
            /\ f = Child(t, o, a) /\ a # p
        BY <1>2, <1>3
      <4> QED BY <4>1, LackingAt
    <3> QED BY <2>1, <2>2, <3>1
  <2>7. PICK K : Adjusted(H, K, f, k, Null, 0)
    BY <1>2, <1>4, TwoHeights DEF Nodes
  <2>8. /\ K \in [RB!Place -> Nat] /\ At(K, f) = k /\ At(K, Null) = 0
        /\ \A n \in I \cup {Null} : n # f => At(K, n) = At(H, n)
    BY <1>2, <1>4, <2>7 DEF Adjusted, Nodes, Lacking
  <2>9. At(K, e) = h /\ At(K, d) = h /\ At(K, p) = j
    BY <1>2, <1>4, <1>5, <1>14, <2>2, <2>4, <2>5, <2>8
  <2>10. LackFits(u, K, k, j, p, a, e, d, f, Null, 0)
    BY <1>2, <2>1, <2>3, <2>4, <2>8, <2>9 DEF LackFits
  <2>11. ASSUME NEW n \in I, NEW x \in RB!Sides, n \notin {p, a}, NEW m, m = Child(t, x, n)
         PROVE  At(K, n) = At(K, m) + Short(n, x, Null, s) + Black(u, n)
    <3>1. m \in I \cup {Null} /\ n # Null /\ m # n
      BY <1>2, <2>11, Halves
    <3>2. Short(n, x, Null, s) = 0
      BY <3>1 DEF Short
    <3>3. m # f
      BY <1>2, <1>4, <2>11, ParentIsOne
    <3>4. At(K, m) = At(H, m)
      BY <2>8, <3>1, <3>3
    <3>5. At(H, n) = At(H, m) + Black(t, n) /\ At(H, m) \in Nat
      BY <1>2, <2>11, LackingAt
    <3>6. CASE n = f
      BY <2>1, <2>3, <2>6, <2>8, <3>2, <3>4, <3>5, <3>6
    <3>7. CASE n # f
      <4>1. Black(u, n) = Black(t, n)
        BY <1>7, <1>15, <2>11, <3>7 DEF Black
      <4> QED BY <2>8, <3>2, <3>4, <3>5, <3>7, <4>1
    <3> QED BY <3>6, <3>7
  <2>12. Elsewhere(y, u, I, K, Null, s, p, a)
    BY <1>8, <2>8, <2>11 DEF Elsewhere
  <2>13. j = At(K, p) /\ Null # p
    BY <1>2, <2>9
  <2> QED BY <1>2, <1>12, <1>13, <2>10, <2>12, <2>13, LackFixed
<1>21. \E G : Level(u, I, G)
  BY <1>13, <1>20, NothingLacks DEF Whole
<1> QED BY <1>13, <1>18, <1>19, <1>21 DEF Balance

(* A red node below the short paths makes up for the black one. *)
LEMMA BlackensShort ==
  ASSUME NEW t, NEW I, NEW B, NEW H, NEW S, NEW p, NEW s, NEW e,
         OneShort(t, I, B, H, S, p, s, e), RB!Red(t, e), NEW u, u = RB!Blacken(t, e)
  PROVE  \E G : Balance(u, I, B, G, S)
<1>1. /\ Whole(t, I, B, S) /\ Tree(t, I, B) /\ Lacking(t, I, H, p, s) /\ Calm(t, I, {e}, {e})
      /\ ~RB!Red(t, Root(t)) /\ p \in I /\ s \in RB!Sides /\ e = Child(t, s, p)
      /\ H \in [RB!Place -> Nat]
  BY DEF OneShort, Whole, Lacking
<1>2. Nodes(I, B) /\ t \in RB!Trees
  BY <1>1, HasNodes
<1>3. e # Null
  BY DEF RB!Red
<1>4. e \in I /\ Parent(t, e) = p /\ e # p /\ e # Root(t) /\ e \in RB!Place
  <2>1. e \in I /\ Parent(t, e) = p /\ e # p /\ e # Root(t)
    BY <1>1, <1>3, ParentIsOne
  <2> QED BY <1>2, <2>1 DEF Nodes
<1>5. Blackened(t, u, e)
  BY <1>2, <1>4, BlackenWrites
<1>6. /\ SameLinks(t, u) /\ ~RB!Red(u, e)
      /\ \A n \in I \cup {Null} : n # e => (RB!Red(u, n) <=> RB!Red(t, n))
  <2>1. SameLinks(t, u)
    BY <1>5 DEF Blackened
  <2>2. ~RB!Red(u, e) /\ \A n \in RB!Place : n # e => (RB!Red(u, n) <=> RB!Red(t, n))
    BY <1>4, <1>5, RedAfterBlackening
  <2>3. \A n \in I \cup {Null} : n \in RB!Place
    BY <1>2 DEF Nodes
  <2> QED BY <2>1, <2>2, <2>3
<1>7. \A x, n : Child(u, x, n) = Child(t, x, n) /\ Root(u) = Root(t)
  BY <1>6, SameLinksRead
<1>8. Whole(u, I, B, S)
  <2>1. \A n \in Keys : n \notin I => u.color[n] = t.color[n]
    BY <1>4, <1>5 DEF Blackened
  <2> QED BY <1>1, <1>6, <2>1, RecoloredWhole
<1>9. Calm(u, I, {}, {})
  <2> SUFFICES ASSUME NEW n \in I, NEW x \in RB!Sides, NEW m, m = Child(t, x, n),
                      RB!Red(u, n), RB!Red(u, m)
               PROVE  FALSE
    BY <1>7 DEF Calm
  <2>1. m \in I \cup {Null} /\ n # e /\ m # e
    BY <1>1, <1>6, Halves
  <2> QED BY <1>1, <1>6, <2>1 DEF Calm
<1>10. ~RB!Red(u, Root(u))
  <2>1. Root(t) \in I \cup {Null}
    BY <1>1 DEF Tree, Linked
  <2> QED BY <1>1, <1>4, <1>6, <1>7, <2>1
<1>11. PICK h \in Nat : h = At(H, e)
  BY <1>1, <1>4, HeightsAreNumbers
<1>12. PICK k \in Nat : k = h + 1
  OBVIOUS
<1>13. PICK G : Adjusted(H, G, e, k, Null, 0)
  BY <1>1, <1>2, <1>3, <1>4, TwoHeights DEF Nodes
<1>14. /\ G \in [RB!Place -> Nat] /\ At(G, e) = k /\ At(G, Null) = 0
       /\ \A n \in I \cup {Null} : n # e => At(G, n) = At(H, n)
  BY <1>1, <1>2, <1>3, <1>13 DEF Adjusted, Nodes, Lacking
<1>15. ASSUME NEW n \in I, NEW x \in RB!Sides, NEW m, m = Child(t, x, n)
       PROVE  At(G, n) = At(G, m) + Black(u, n)
  <2>1. m \in I \cup {Null} /\ m # n
    BY <1>1, <1>15, Halves
  <2>2. /\ At(H, n) \in Nat /\ At(H, m) \in Nat
        /\ n = p /\ x = s => At(H, n) = At(H, m) + 1 + Black(t, n)
        /\ ~(n = p /\ x = s) => At(H, n) = At(H, m) + Black(t, n)
    BY <1>1, <1>15, LackingAt
  <2>3. CASE n = e
    <3>1. Black(t, e) = 0 /\ Black(u, e) = 1 /\ At(G, m) = At(H, m)
      BY <1>6, <1>14, <2>1, <2>3, RedBlack
    <3>2. At(H, e) = At(H, m)
      BY <1>4, <2>2, <2>3, <3>1
    <3> QED BY <1>11, <1>12, <1>14, <2>2, <2>3, <3>1, <3>2
  <2>4. CASE n # e /\ m = e
    <3>1. n = p
      <4>1. Parent(t, e) = n
        <5>1. Tree(t, I, B) /\ n \in I /\ x \in RB!Sides /\ e = Child(t, x, n) /\ e # Null
          BY <1>1, <1>3, <1>15, <2>4
        <5> QED BY <5>1, ParentIsOne
      <4> QED BY <1>4, <4>1
    <3>2. x = s
      <4>1. e # Child(t, RB!Other(s), p) /\ (x = s \/ x = RB!Other(s))
        BY <1>1, <1>3, Halves, OtherSide
      <4> QED BY <1>15, <2>4, <3>1, <4>1
    <3>3. Black(u, n) = Black(t, n) /\ Black(t, n) \in Nat
      BY <1>6, <2>4 DEF Black
    <3> QED BY <1>11, <1>12, <1>14, <2>2, <2>4, <3>1, <3>2, <3>3
  <2>5. CASE n # e /\ m # e
    <3>1. ~(n = p /\ x = s)
      BY <1>1, <1>15, <2>5
    <3>2. Black(u, n) = Black(t, n)
      BY <1>6, <2>5 DEF Black
    <3> QED BY <1>14, <2>1, <2>2, <2>5, <3>1, <3>2
  <2> QED BY <2>3, <2>4, <2>5
<1>16. Level(u, I, G)
  BY <1>7, <1>14, <1>15 DEF Level
<1> QED BY <1>8, <1>9, <1>10, <1>16 DEF Balance

RemoveStates == [tree : RB!Trees, parent : RB!Place, elm : RB!Place]

(* Nothing is short any more. *)
AtRoot(t, I, B, H, S, e) ==
  Whole(t, I, B, S) /\ Level(t, I, H) /\ Calm(t, I, {e}, {}) /\ e = Root(t)

(* A short path is met at most N - i rounds from the leaves. *)
RemovesIn(x, I, B, H, S, s, i) ==
  \/ AtRoot(x.tree, I, B, H, S, x.elm)
  \/ OneShort(x.tree, I, B, H, S, x.parent, s, x.elm) /\ Cardinality(At(B, x.elm)) + i >= N

(* The sibling is black, at once or after a rotation. *)
LEMMA SiblingIsBlack ==
  ASSUME NEW t, NEW I, NEW B, NEW H, NEW S, NEW p, NEW s, NEW e,
         OneShort(t, I, B, H, S, p, s, e), ~RB!Red(t, e), NEW u, u = RB!BlackSibling(t, p, s)
  PROVE  \E C, G, b : /\ BlackShort(u, I, C, G, S, p, s, e, RB!Other(s), b) /\ ~RB!Red(u, b)
                      /\ At(C, e) = At(B, e)
<1>1. PICK o, a : o = RB!Other(s) /\ a = Child(t, o, p)
  OBVIOUS
<1>2. BlackShort(t, I, B, H, S, p, s, e, o, a)
  BY <1>1, OtherSide DEF BlackShort, OneShort
<1>3. CASE RB!Red(t, a)
  BY <1>1, <1>2, <1>3, SiblingBlackens
<1>4. CASE ~RB!Red(t, a)
  <2>1. u = t
    BY <1>1, <1>4 DEF RB!BlackSibling, Child
  <2> QED BY <1>1, <1>2, <1>4, <2>1
<1> QED BY <1>3, <1>4

(* A round of RB_REMOVE_COLOR ends it or comes closer to the root. *)
LEMMA RemoveRounds ==
  ASSUME NEW x \in RemoveStates, NEW I, NEW B, NEW H, NEW S, NEW s, NEW i \in 0..N,
         RemovesIn(x, I, B, H, S, s, i), NEW y, y = RB!RemoveRound(x)
  PROVE  \/ (RB!Red(x.tree, x.elm) \/ x.elm = Root(x.tree)) /\ y = x
         \/ i > 0 /\ y \in RemoveStates /\ \E C, G, z : RemovesIn(y, I, C, G, S, z, i - 1)
<1>1. PICK t \in RB!Trees, p \in RB!Place, e \in RB!Place : t = x.tree /\ p = x.parent /\ e = x.elm
  BY DEF RemoveStates
<1>2. CASE RB!Red(t, e) \/ e = Root(t)
  BY <1>1, <1>2 DEF RB!RemoveRound, Root
<1>3. CASE ~RB!Red(t, e) /\ e # Root(t)
  <2>1. OneShort(t, I, B, H, S, p, s, e) /\ Cardinality(At(B, e)) + i >= N
    BY <1>1, <1>3 DEF RemovesIn, AtRoot
  <2>2. PICK v, o : v = RB!BlackSibling(t, p, s) /\ o = RB!Other(s)
    OBVIOUS
  <2>3. PICK C, G, a : /\ BlackShort(v, I, C, G, S, p, s, e, o, a) /\ ~RB!Red(v, a)
                       /\ At(C, e) = At(B, e)
    BY <1>3, <2>1, <2>2, SiblingIsBlack
  <2>4. RB!SideOf(t, p, e) = s
    <3>1. PICK b : b = Child(t, o, p)
      OBVIOUS
    <3>2. BlackShort(t, I, B, H, S, p, s, e, o, b)
      BY <1>3, <2>1, <2>2, <3>1, OtherSide DEF BlackShort, OneShort
    <3> QED BY <3>2, SiblingThere
  <2>5. /\ ShortTree(v, I, C, G, S, p, s, e, o, a) /\ a \in I
    BY <2>3, ShortTreeThere, SiblingThere
  <2>6. /\ Tree(v, I, C) /\ Nodes(I, C) /\ p \in I /\ a = Child(v, o, p) /\ p \in RB!Place
        /\ p \in At(C, p) /\ p \notin At(C, e) /\ At(C, e) \subseteq At(C, p)
        /\ At(C, p) \in SUBSET Keys
    <3>1. /\ Tree(v, I, C) /\ Nodes(I, C) /\ p \in I /\ a = Child(v, o, p)
          /\ e = Child(v, s, p) /\ s \in RB!Sides
      BY <2>5 DEF ShortTree
    <3> QED BY <3>1, Halves DEF Nodes
  <2>7. /\ Cardinality(At(C, e)) < Cardinality(At(C, p)) /\ i > 0
        /\ Cardinality(At(C, p)) + (i - 1) >= N
    <3>1. /\ Cardinality(At(C, e)) \in Nat /\ Cardinality(At(C, p)) \in Nat
          /\ Cardinality(At(C, e)) < Cardinality(At(C, p)) /\ Cardinality(At(C, p)) <= N
      BY <2>6, PartIsSmaller
    <3>2. Cardinality(At(C, e)) + i >= N /\ N \in Nat
      BY <2>1, <2>3, KeysFinite
    <3> QED BY <3>1, <3>2
  <2>8. CASE \A z \in RB!Sides : ~RB!Red(v, Child(v, z, a))
    <3>1. PICK u : u = [v EXCEPT !.color[a] = "RED"]
      OBVIOUS
    <3>2. PICK q, z : HungOn(v, I, p, q, z)
      BY <2>6, HungSomewhere
    <3>3. y = [tree |-> u, parent |-> q, elm |-> p]
      <4>1. \A w \in RB!Sides : ~RB!Red(v, v.child[w][a])
        BY <2>8 DEF Child
      <4>2. a = v.child[o][p] /\ q = v.parent[p]
        BY <2>6, <3>2 DEF Child, Parent, HungOn
      <4>3. ~(RB!Red(t, e) \/ e = t.root)
        BY <1>3 DEF Root
      <4> QED BY <1>1, <2>2, <2>4, <3>1, <4>1, <4>2, <4>3 DEF RB!RemoveRound
    <3>4. /\ \E F : Lacking(u, I, F, q, z)
          /\ Whole(u, I, C, S) /\ Calm(u, I, {p}, {}) /\ Root(u) = Root(v)
          /\ ~RB!Red(u, Root(u)) /\ \A w, n : Child(u, w, n) = Child(v, w, n)
      <4>1. BlackShort(v, I, C, G, S, p, s, e, o, a) /\ ~RB!Red(v, a)
        BY <2>3
      <4> QED BY <2>8, <3>1, <3>2, <4>1, SiblingReddens
    <3>5. PICK F : Lacking(u, I, F, q, z)
      BY <3>4
    <3>6. u \in RB!Trees /\ Tree(u, I, C)
      BY <3>4, HasNodes DEF Whole
    <3>7. q \in RB!Place
      BY <2>6, <3>2 DEF HungOn, Nodes
    <3>8. y \in RemoveStates /\ y.tree = u /\ y.parent = q /\ y.elm = p
      BY <2>6, <3>3, <3>6, <3>7 DEF RemoveStates
    <3>9. CASE p = Root(v)
      <4>1. q = Null
        BY <3>2, <3>9 DEF HungOn
      <4>2. Level(u, I, F)
        BY <3>5, <3>6, <4>1, NothingLacks
      <4>3. AtRoot(u, I, C, F, S, p)
        BY <3>4, <3>9, <4>2 DEF AtRoot
      <4> QED BY <2>7, <3>8, <4>3 DEF RemovesIn
    <3>10. CASE p # Root(v)
      <4>1. q \in I /\ Child(v, z, q) = p /\ z \in RB!Sides
        BY <3>2, <3>10 DEF HungOn
      <4>2. Calm(u, I, {p}, {p})
        BY <3>4 DEF Calm
      <4>3. OneShort(u, I, C, F, S, q, z, p)
        BY <3>4, <3>5, <4>1, <4>2 DEF OneShort
      <4> QED BY <2>7, <3>8, <4>3 DEF RemovesIn
    <3> QED BY <3>9, <3>10
  <2>9. CASE \E z \in RB!Sides : RB!Red(v, Child(v, z, a))
    <3>1. PICK w : w = RB!RedFar(v, p, s)
      OBVIOUS
    <3>2. PICK D, F, b : /\ BlackShort(w, I, D, F, S, p, s, e, o, b) /\ ~RB!Red(w, b)
                         /\ RB!Red(w, Child(w, o, b))
      BY <2>3, <2>9, <3>1, FarReddens
    <3>3. PICK u : u = RB!Evened(w, p, s)
      OBVIOUS
    <3>4. PICK E, K : Balance(u, I, E, K, S)
      BY <3>2, <3>3, Evens
    <3>5. y = [tree |-> u, parent |-> p, elm |-> Root(u)]
      <4>1. ~\A z \in RB!Sides : ~RB!Red(v, v.child[z][a])
        BY <2>9 DEF Child
      <4>2. a = v.child[o][p]
        BY <2>6 DEF Child
      <4>3. ~(RB!Red(t, e) \/ e = t.root)
        BY <1>3 DEF Root
      <4> QED BY <1>1, <2>2, <2>4, <3>1, <3>3, <4>1, <4>2, <4>3 DEF RB!RemoveRound, Root
    <3>6. /\ u \in RB!Trees /\ Root(u) \in RB!Place /\ Whole(u, I, E, S) /\ Level(u, I, K)
          /\ Calm(u, I, {}, {})
      <4>1. Whole(u, I, E, S) /\ Level(u, I, K) /\ Calm(u, I, {}, {}) /\ Tree(u, I, E)
        BY <3>4 DEF Balance, Whole
      <4> QED BY <4>1, HasNodes DEF Tree, Linked, Nodes
    <3>7. y \in RemoveStates /\ y.tree = u /\ y.elm = Root(u)
      BY <3>5, <3>6 DEF RemoveStates
    <3>8. AtRoot(u, I, E, K, S, Root(u))
      BY <3>6 DEF AtRoot, Calm
    <3> QED BY <2>7, <3>7, <3>8 DEF RemovesIn
  <2> QED BY <2>8, <2>9
<1> QED BY <1>2, <1>3

(* RB_REMOVE_COLOR makes a red-black tree of one with a short path. *)
LEMMA RemoveColors ==
  ASSUME NEW t \in RB!Trees, NEW I, NEW B, NEW H, NEW S, NEW p \in RB!Place, NEW s,
         NEW e \in RB!Place,
         AtRoot(t, I, B, H, S, e) \/ OneShort(t, I, B, H, S, p, s, e)
  PROVE  \E C, G : Balance(RB!RemoveColor(t, p, e), I, C, G, S)
<1> DEFINE round == [x \in [tree : RB!Trees, parent : RB!Place, elm : RB!Place] |->
                       RB!RemoveRound(x)]
           J == [i \in 0..N |->
                   {x \in RemoveStates : \E C, G, z : RemovesIn(x, I, C, G, S, z, i)}]
           Done == {x \in RemoveStates : RB!Red(x.tree, x.elm) \/ x.elm = Root(x.tree)}
           start == [tree |-> t, parent |-> p, elm |-> e]
<1>1. DOMAIN round = RemoveStates /\ \A x \in RemoveStates : round[x] = RB!RemoveRound(x)
  BY DEF RemoveStates
<1>2. \A i \in 0..N : J[i] \subseteq DOMAIN round
  BY <1>1
<1>3. ASSUME NEW i \in 0..N, NEW y \in J[i]
      PROVE  \/ y \in Done /\ round[y] = y
             \/ i > 0 /\ round[y] \in J[i - 1]
  <2>1. PICK C, G, z : y \in RemoveStates /\ RemovesIn(y, I, C, G, S, z, i)
    BY <1>3
  <2>2. \/ (RB!Red(y.tree, y.elm) \/ y.elm = Root(y.tree)) /\ RB!RemoveRound(y) = y
        \/ i > 0 /\ RB!RemoveRound(y) \in RemoveStates
           /\ \E D, F, w : RemovesIn(RB!RemoveRound(y), I, D, F, S, w, i - 1)
    BY <2>1, RemoveRounds
  <2>3. i > 0 => i - 1 \in 0..N
    BY KeysFinite
  <2> QED BY <1>1, <2>1, <2>2, <2>3
<1>4. start \in J[N]
  <2>1. start \in RemoveStates /\ start.tree = t /\ start.parent = p /\ start.elm = e
    BY DEF RemoveStates
  <2>2. CASE AtRoot(t, I, B, H, S, e)
    BY <2>1, <2>2, KeysFinite DEF RemovesIn
  <2>3. CASE OneShort(t, I, B, H, S, p, s, e)
    <3>1. At(B, e) \in SUBSET Keys
      <4>1. Tree(t, I, B)
        BY <2>3 DEF OneShort, Whole
      <4> QED BY <4>1, HasNodes, SetsOfNodes DEF Tree, Below, Nodes
    <3>2. Cardinality(At(B, e)) + N >= N /\ N \in 0..N
      BY <3>1, NumberOfKeys, KeysFinite
    <3> QED BY <2>1, <2>3, <3>2 DEF RemovesIn
  <2> QED BY <2>2, <2>3
<1>5. RB!Loop(round, start) \in Done /\ \E i \in 0..N : RB!Loop(round, start) \in J[i]
  <2> HIDE DEF round, J, Done, start
  <2> QED BY <1>2, <1>3, <1>4, LoopEnds
<1>6. PICK x : x = RB!Loop(round, start)
  OBVIOUS
<1>7. PICK i, C, G, z : /\ i \in 0..N /\ x \in RemoveStates /\ RemovesIn(x, I, C, G, S, z, i)
                        /\ RB!Red(x.tree, x.elm) \/ x.elm = Root(x.tree)
  BY <1>5, <1>6
<1>8. PICK v, q, f : v = x.tree /\ q = x.parent /\ f = x.elm
  OBVIOUS
<1>9. RB!RemoveColor(t, p, e) = RB!Blacken(v, f)
  BY <1>6, <1>8 DEF RB!RemoveColor
<1>10. CASE AtRoot(v, I, C, G, S, f)
  BY <1>9, <1>10, BlackensRoot DEF AtRoot
<1>11. CASE OneShort(v, I, C, G, S, q, z, f)
  <2>1. f # Root(v)
    <3>1. /\ Tree(v, I, C) /\ q \in I /\ z \in RB!Sides /\ f = Child(v, z, q)
          /\ ~RB!Red(v, Root(v))
      BY <1>11 DEF OneShort, Whole
    <3>2. f # Null => f # Root(v)
      BY <3>1, ParentIsOne
    <3>3. Root(v) # Null
      BY <3>1, RootHasAll
    <3> QED BY <3>2, <3>3
  <2>2. RB!Red(v, f)
    BY <1>7, <1>8, <2>1
  <2> QED BY <1>9, <1>11, <2>2, BlackensShort
<1> QED BY <1>7, <1>8, <1>10, <1>11 DEF RemovesIn

------------------------------------------------------------------------------
(* Neighbours *)

(* Some node of T has no other one of T below it. *)
LEMMA LowestOf ==
  ASSUME NEW t, NEW I, NEW B, Tree(t, I, B), NEW T \in SUBSET I, T # {}
  PROVE  \E y \in T : \A z \in T : ~(At(B, z) \subseteq At(B, y) /\ y \notin At(B, z))
<1>1. Nodes(I, B)
  BY HasNodes
<1> DEFINE C == {i \in 0..N : \E y \in T : Cardinality(At(B, y)) = i}
<1>2. \A y \in T : At(B, y) \in SUBSET Keys /\ y \in At(B, y) /\ Cardinality(At(B, y)) \in 0..N
  BY <1>1, NumberOfKeys DEF Nodes
<1>3. C # {} /\ C \in SUBSET Nat
  BY <1>2, KeysFinite
<1>4. PICK i \in C : \A j \in C : i <= j
  <2> HIDE DEF C
  <2> QED BY <1>3, LeastNumber
<1>5. PICK y \in T : Cardinality(At(B, y)) = i
  BY <1>4
<1>6. ASSUME NEW z \in T, At(B, z) \subseteq At(B, y), y \notin At(B, z)
      PROVE  FALSE
  <2>1. /\ At(B, y) \in SUBSET Keys /\ At(B, z) \in SUBSET Keys /\ y \in At(B, y)
        /\ Cardinality(At(B, z)) \in 0..N
    BY <1>2
  <2>2. Cardinality(At(B, z)) < i
    BY <1>5, <1>6, <2>1, PartIsSmaller
  <2>3. Cardinality(At(B, z)) \in C
    BY <2>1
  <2>4. i <= Cardinality(At(B, z)) /\ i \in Nat
    <3> HIDE DEF C
    <3> QED BY <1>3, <1>4, <2>3
  <2> QED BY <2>1, <2>2, <2>4
<1> QED BY <1>6

(* What is below a node below y is below y. *)
LEMMA BelowBelow ==
  ASSUME NEW t, NEW I, NEW B, Tree(t, I, B), NEW y \in I, NEW x \in At(B, y)
  PROVE  x \in I /\ At(B, x) \subseteq At(B, y)
<1>1. Nodes(I, B) /\ x \in I
  BY HasNodes DEF Nodes
<1> DEFINE T == {z \in I : x \in At(B, z) /\ ~(At(B, x) \subseteq At(B, z))}
<1>2. T = {}
  <2> SUFFICES ASSUME T # {} PROVE FALSE
    OBVIOUS
  <2>1. PICK z \in T : \A w \in T : ~(At(B, w) \subseteq At(B, z) /\ z \notin At(B, w))
    <3>1. T \in SUBSET I
      OBVIOUS
    <3> HIDE DEF T
    <3> QED BY <3>1, LowestOf
  <2>2. z \in I /\ x \in At(B, z) /\ x # z
    BY <2>1
  <2>3. PICK s \in RB!Sides : x \in At(B, Child(t, s, z))
    BY <2>2 DEF Tree, Below, RB!Sides
  <2>4. PICK w : w = Child(t, s, z)
    OBVIOUS
  <2>5. w \in I /\ At(B, w) \subseteq At(B, z) /\ z \notin At(B, w)
    <3>1. w # Null
      BY <1>1, <2>3, <2>4 DEF Nodes
    <3> QED BY <2>2, <2>4, <3>1, Halves
  <2>6. w \in T
    BY <2>1, <2>3, <2>4, <2>5
  <2> QED BY <2>1, <2>5, <2>6
<1> QED BY <1>1, <1>2

(* All nodes below x lie on the same side of a node that does not. *)
LEMMA LiesApart ==
  ASSUME NEW t, NEW I, NEW B, Tree(t, I, B), NEW x \in I, NEW m \in I, m \notin At(B, x)
  PROVE  \E s \in RB!Sides : \A k \in At(B, x) : Before(s, k, m)
<1>1. Nodes(I, B)
  BY HasNodes
<1> DEFINE T == {z \in I : x \in At(B, z) /\ m \in At(B, z)}
<1>2. T # {} /\ T \in SUBSET I
  <2>1. Root(t) \in I /\ At(B, Root(t)) = I
    BY RootHasAll
  <2> QED BY <2>1
<1>3. PICK z \in T : \A w \in T : ~(At(B, w) \subseteq At(B, z) /\ z \notin At(B, w))
  <2> HIDE DEF T
  <2> QED BY <1>2, LowestOf
<1>4. z \in I /\ x \in At(B, z) /\ m \in At(B, z) /\ x # z
  BY <1>3
<1>5. PICK s \in RB!Sides : x \in At(B, Child(t, s, z))
  BY <1>4 DEF Tree, Below, RB!Sides
<1>6. PICK w : w = Child(t, s, z)
  OBVIOUS
<1>7. w \in I /\ At(B, w) \subseteq At(B, z) /\ z \notin At(B, w)
  <2>1. w # Null
    BY <1>1, <1>5, <1>6 DEF Nodes
  <2> QED BY <1>4, <1>6, <2>1, Halves
<1>8. m \notin At(B, w)
  BY <1>3, <1>4, <1>5, <1>6, <1>7
<1>9. At(B, x) \subseteq At(B, w)
  BY <1>5, <1>6, <1>7, BelowBelow
<1>10. \A k \in At(B, x) : Before(s, k, z) /\ k \in Nat
  BY <1>1, <1>4, <1>6, <1>7, <1>9 DEF Tree, Below, Nodes
<1>11. CASE m = z
  BY <1>10, <1>11
<1>12. CASE m # z
  <2>1. PICK o : o = RB!Other(s)
    OBVIOUS
  <2>2. m \in At(B, Child(t, o, z)) /\ o \in RB!Sides
    <3>1. At(B, z) = {z} \cup At(B, Child(t, s, z)) \cup At(B, Child(t, o, z))
      BY <1>4, <1>5, <2>1, Halves
    <3>2. o \in RB!Sides
      BY <2>1, OtherSide
    <3> QED BY <1>4, <1>6, <1>8, <1>12, <3>1, <3>2
  <2>3. Before(o, m, z)
    BY <1>4, <2>2 DEF Tree, Below
  <2>4. Before(s, z, m)
    BY <2>1, <2>3, OtherSide
  <2>5. z \in Nat /\ m \in Nat
    BY <1>1, <1>4 DEF Nodes
  <2>6. \A k \in At(B, x) : Before(s, k, m)
    BY <1>10, <2>4, <2>5 DEF Before
  <2> QED BY <2>6
<1> QED BY <1>11, <1>12

(* What lies between two nodes below x is below x. *)
LEMMA LiesBetween ==
  ASSUME NEW t, NEW I, NEW B, Tree(t, I, B), NEW x \in I, NEW m \in I,
         NEW a \in At(B, x), NEW b \in At(B, x), NEW s \in RB!Sides,
         Before(s, a, m), Before(s, m, b)
  PROVE  m \in At(B, x)
<1> SUFFICES ASSUME m \notin At(B, x) PROVE FALSE
  OBVIOUS
<1>1. PICK z \in RB!Sides : Before(z, a, m) /\ Before(z, b, m)
  BY LiesApart
<1>2. a \in Nat /\ b \in Nat /\ m \in Nat
  BY HasNodes DEF Nodes
<1> QED BY <1>1, <1>2 DEF Before, RB!Sides

(* m comes before all others of T. *)
Extreme(T, s, m) == m \in T /\ \A j \in T : j = m \/ Before(s, m, j)

(* Down one side, a search comes to the outermost node. *)
LEMMA OutermostIs ==
  ASSUME NEW t, NEW I, NEW B, Tree(t, I, B), NEW n \in I, NEW s \in RB!Sides
  PROVE  \E m \in I : /\ m = RB!Outermost(t, n, s) /\ Child(t, s, m) = Null
                      /\ Extreme(At(B, n), s, m)
<1> DEFINE round == [m \in Keys |-> IF t.child[s][m] = Null THEN m ELSE t.child[s][m]]
           J == [i \in 0..N |-> {m \in I :
                   /\ m \in At(B, n) /\ Cardinality(At(B, m)) <= i
                   /\ \A j \in At(B, n) : j \in At(B, m) \/ \A k \in At(B, m) : Before(s, k, j)}]
           Done == {m \in I : Child(t, s, m) = Null}
<1>1. Nodes(I, B)
  BY HasNodes
<1>2. \A m \in I : m \in Keys /\ round[m] = IF Child(t, s, m) = Null THEN m ELSE Child(t, s, m)
  BY <1>1 DEF Child, Nodes
<1>3. \A i \in 0..N : J[i] \subseteq DOMAIN round
  BY <1>2
<1>4. ASSUME NEW i \in 0..N, NEW m \in J[i]
      PROVE  \/ m \in Done /\ round[m] = m
             \/ i > 0 /\ round[m] \in J[i - 1]
  <2>1. m \in I /\ m \in At(B, n) /\ Cardinality(At(B, m)) <= i
        /\ \A j \in At(B, n) : j \in At(B, m) \/ \A k \in At(B, m) : Before(s, k, j)
    BY <1>4
  <2>2. CASE Child(t, s, m) = Null
    BY <1>2, <2>1, <2>2
  <2>3. CASE Child(t, s, m) # Null
    <3>1. PICK c, d : c = Child(t, s, m) /\ d = Child(t, RB!Other(s), m)
      OBVIOUS
    <3>2. /\ c \in I /\ m \in At(B, m) /\ m \notin At(B, c) /\ At(B, c) \subseteq At(B, m)
          /\ At(B, m) = {m} \cup At(B, c) \cup At(B, d) /\ c \in At(B, c)
      BY <1>1, <2>1, <2>3, <3>1, Halves DEF Nodes
    <3>3. At(B, m) \subseteq At(B, n)
      BY <2>1, BelowBelow
    <3>4. ASSUME NEW j \in At(B, n), j \notin At(B, c), NEW k \in At(B, c)
          PROVE  Before(s, k, j)
      <4>1. Before(s, k, m)
        BY <2>1, <3>1 DEF Tree, Below
      <4>2. j \in Nat /\ k \in Nat /\ m \in Nat
        BY <1>1, <2>1, <3>2 DEF Nodes
      <4>3. CASE j \in At(B, d)
        <5>1. Before(RB!Other(s), j, m)
          BY <2>1, <3>1, <4>3, OtherSide DEF Tree, Below
        <5>2. Before(s, m, j)
          BY <5>1, OtherSide
        <5> QED BY <4>1, <4>2, <5>2 DEF Before
      <4> QED BY <2>1, <3>2, <3>4, <4>1, <4>3
    <3>5. Cardinality(At(B, c)) < Cardinality(At(B, m)) /\ Cardinality(At(B, c)) \in Nat
          /\ Cardinality(At(B, m)) \in Nat
      <4>1. At(B, c) \in SUBSET Keys /\ At(B, m) \in SUBSET Keys
        BY <1>1, <2>1, <3>2 DEF Nodes
      <4> QED BY <3>2, <4>1, PartIsSmaller
    <3>6. i > 0 /\ i - 1 \in 0..N /\ Cardinality(At(B, c)) <= i - 1
      BY <2>1, <3>5, KeysFinite
    <3>7. round[m] = c
      BY <1>2, <2>1, <2>3, <3>1
    <3> QED BY <3>2, <3>3, <3>4, <3>6, <3>7
  <2> QED BY <2>2, <2>3
<1>5. n \in J[N]
  <2>1. At(B, n) \in SUBSET Keys /\ n \in At(B, n)
    BY <1>1 DEF Nodes
  <2>2. Cardinality(At(B, n)) <= N /\ N \in 0..N
    BY <2>1, NumberOfKeys, KeysFinite
  <2> QED BY <2>1, <2>2
<1>6. RB!Loop(round, n) \in Done /\ \E i \in 0..N : RB!Loop(round, n) \in J[i]
  <2> HIDE DEF round, J, Done
  <2> QED BY <1>3, <1>4, <1>5, LoopEnds
<1>7. PICK m : m = RB!Loop(round, n)
  OBVIOUS
<1>8. /\ m \in I /\ Child(t, s, m) = Null /\ m \in At(B, n)
      /\ \A j \in At(B, n) : j \in At(B, m) \/ \A k \in At(B, m) : Before(s, k, j)
  BY <1>6, <1>7
<1>9. m = RB!Outermost(t, n, s)
  BY <1>7 DEF RB!Outermost
<1>10. ASSUME NEW j \in At(B, n), j # m
       PROVE  Before(s, m, j)
  <2>1. m \in At(B, m) /\ At(B, Null) = {}
    BY <1>1, <1>8 DEF Nodes
  <2>2. CASE j \in At(B, m)
    <3>1. At(B, m) = {m} \cup At(B, Child(t, s, m)) \cup At(B, Child(t, RB!Other(s), m))
      BY <1>8, Halves
    <3>2. j \in At(B, Child(t, RB!Other(s), m))
      BY <1>8, <1>10, <2>1, <2>2, <3>1
    <3>3. Before(RB!Other(s), j, m)
      BY <1>8, <3>2, OtherSide DEF Tree, Below
    <3> QED BY <3>3, OtherSide
  <2> QED BY <1>8, <2>1, <2>2
<1> QED BY <1>8, <1>9, <1>10 DEF Extreme

(* r follows n among the nodes I, if one does. *)
IsNext(I, n, r) ==
  \/ r = Null /\ \A j \in I : j <= n
  \/ r \in I /\ n < r /\ \A j \in I : j <= n \/ r <= j

(* From a node without a child on the right *)
LEMMA AboveIs ==
  ASSUME NEW t, NEW I, NEW B, Tree(t, I, B), NEW n \in I, Child(t, "RIGHT", n) = Null
  PROVE  IsNext(I, n, RB!Above(t, n, "RIGHT"))
<1> DEFINE round == [m \in Keys |-> LET p == t.parent[m]
                                    IN  IF p = Null THEN m
                                        ELSE IF t.child["RIGHT"][p] = m THEN p ELSE m]
           J == [i \in 0..N |-> {m \in I :
                   /\ n \in At(B, m) /\ Cardinality(At(B, m)) + i > N
                   /\ \A j \in At(B, m) : j <= n}]
           Done == {m \in I : Parent(t, m) = Null \/ Child(t, "RIGHT", Parent(t, m)) # m}
<1>1. Nodes(I, B) /\ "LEFT" \in RB!Sides /\ "RIGHT" \in RB!Sides
  BY HasNodes DEF RB!Sides
<1>2. \A m \in I : /\ m \in Keys
                   /\ round[m] = IF m \in Done THEN m ELSE Parent(t, m)
  BY <1>1 DEF Child, Parent, Nodes
<1>3. \A i \in 0..N : J[i] \subseteq DOMAIN round
  BY <1>2
<1>4. ASSUME NEW i \in 0..N, NEW m \in J[i]
      PROVE  \/ m \in Done /\ round[m] = m
             \/ i > 0 /\ round[m] \in J[i - 1]
  <2>1. m \in I /\ n \in At(B, m) /\ Cardinality(At(B, m)) + i > N /\ \A j \in At(B, m) : j <= n
    BY <1>4
  <2>2. CASE m \in Done
    BY <1>2, <2>1, <2>2
  <2>3. CASE m \notin Done
    <3>1. PICK p, l : p = Parent(t, m) /\ l = Child(t, "LEFT", p)
      OBVIOUS
    <3>2. p # Null /\ Child(t, "RIGHT", p) = m /\ m # Root(t)
      BY <2>1, <2>3, <3>1, RootHasAll
    <3>3. p \in I
      BY <2>1, <3>1, <3>2 DEF Tree, Linked
    <3>4. /\ At(B, m) \subseteq At(B, p) /\ p \notin At(B, m) /\ p \in At(B, p)
          /\ At(B, p) = {p} \cup At(B, l) \cup At(B, m)
      <4>1. At(B, p) = {p} \cup At(B, l) \cup At(B, m)
        BY <3>1, <3>2, <3>3 DEF Tree, Below
      <4> QED BY <1>1, <3>2, <3>3, <4>1, Halves
    <3>5. \A j \in At(B, p) : j <= n
      <4>1. /\ \A j \in At(B, l) : j < p
            /\ p < n /\ p \in Nat /\ n \in Nat /\ At(B, l) \subseteq Nat
        <5>1. l \in I \cup {Null}
          BY <1>1, <3>1, <3>3, Halves
        <5>2. Before("RIGHT", n, p) /\ \A j \in At(B, l) : Before("LEFT", j, p)
          BY <1>1, <2>1, <3>1, <3>2, <3>3 DEF Tree, Below
        <5>3. p \in Nat /\ n \in Nat /\ At(B, l) \subseteq Nat
          BY <1>1, <3>3, <5>1 DEF Nodes
        <5> QED BY <5>2, <5>3 DEF Before
      <4>2. \A j \in At(B, l) : j <= n
        BY <4>1
      <4> QED BY <2>1, <3>4, <4>1, <4>2
    <3>6. /\ Cardinality(At(B, m)) < Cardinality(At(B, p)) /\ Cardinality(At(B, m)) \in Nat
          /\ Cardinality(At(B, p)) \in Nat /\ Cardinality(At(B, p)) <= N
      <4>1. At(B, m) \in SUBSET Keys /\ At(B, p) \in SUBSET Keys
        BY <1>1, <2>1, <3>3 DEF Nodes
      <4> QED BY <3>4, <4>1, PartIsSmaller
    <3>7. i > 0 /\ i - 1 \in 0..N /\ Cardinality(At(B, p)) + (i - 1) > N
      BY <2>1, <3>6, KeysFinite
    <3>8. round[m] = p
      BY <1>2, <2>1, <2>3, <3>1
    <3>9. n \in At(B, p)
      BY <2>1, <3>4
    <3>10. p \in J[i - 1]
      BY <3>3, <3>5, <3>7, <3>9
    <3> QED
      <4> HIDE DEF J, round
      <4> QED BY <3>7, <3>8, <3>10
  <2> QED BY <2>2, <2>3
<1>5. n \in J[N]
  <2>1. PICK l : l = Child(t, "LEFT", n)
    OBVIOUS
  <2>2. At(B, n) = {n} \cup At(B, l) /\ l \in I \cup {Null}
    <3>1. At(B, n) = {n} \cup At(B, l) \cup At(B, Child(t, "RIGHT", n))
      BY <2>1 DEF Tree, Below
    <3>2. At(B, Child(t, "RIGHT", n)) = {}
      BY <1>1 DEF Nodes
    <3>3. l \in I \cup {Null}
      BY <1>1, <2>1, Halves
    <3> QED BY <3>1, <3>2, <3>3
  <2>3. \A j \in At(B, l) : Before("LEFT", j, n)
    BY <1>1, <2>1 DEF Tree, Below
  <2>4. n \in Nat /\ At(B, l) \subseteq Nat /\ n \in At(B, n) /\ At(B, n) \in SUBSET Keys
    BY <1>1, <2>2 DEF Nodes
  <2>5. \A j \in At(B, n) : j <= n
    BY <2>2, <2>3, <2>4 DEF Before
  <2>6. Cardinality(At(B, n)) \in Nat /\ Cardinality({}) \in Nat
        /\ Cardinality({}) < Cardinality(At(B, n))
    BY <2>4, PartIsSmaller
  <2>7. Cardinality(At(B, n)) + N > N /\ N \in 0..N
    BY <2>6, KeysFinite
  <2> QED BY <2>4, <2>5, <2>7
<1>6. RB!Loop(round, n) \in Done /\ \E i \in 0..N : RB!Loop(round, n) \in J[i]
  <2> HIDE DEF round, J, Done
  <2> QED BY <1>3, <1>4, <1>5, LoopEnds
<1>7. PICK m : m = RB!Loop(round, n)
  OBVIOUS
<1>8. /\ m \in I /\ n \in At(B, m) /\ \A j \in At(B, m) : j <= n
      /\ Parent(t, m) = Null \/ Child(t, "RIGHT", Parent(t, m)) # m
  BY <1>6, <1>7
<1>9. PICK r : r = Parent(t, m)
  OBVIOUS
<1>10. RB!Above(t, n, "RIGHT") = r
  BY <1>7, <1>9 DEF RB!Above, Parent
<1>11. CASE m = Root(t)
  <2>1. r = Null /\ At(B, m) = I
    BY <1>8, <1>9, <1>11, RootHasAll, <1>1 DEF Nodes
  <2> QED BY <1>8, <1>10, <2>1 DEF IsNext
<1>12. CASE m # Root(t)
  <2>1. r \in I /\ \E s \in RB!Sides : Child(t, s, r) = m
    BY <1>8, <1>9, <1>12 DEF Tree, Linked
  <2>2. Child(t, "LEFT", r) = m
    <3>1. r # Null
      BY <1>1, <2>1 DEF Nodes
    <3> QED BY <1>8, <1>9, <2>1, <3>1 DEF RB!Sides
  <2>3. r \in Nat /\ n \in Nat /\ I \subseteq Nat /\ n \in At(B, r) /\ r \in At(B, r)
    BY <1>1, <1>8, <2>1, <2>2, Halves DEF Nodes
  <2>4. n < r
    BY <1>1, <1>8, <2>1, <2>2 DEF Tree, Below, Before
  <2>5. ASSUME NEW j \in I, n < j, j < r
        PROVE  FALSE
    <3>1. j \in At(B, r)
      BY <1>1, <2>1, <2>3, <2>5, LiesBetween DEF Before
    <3>2. At(B, r) = {r} \cup At(B, m) \cup At(B, Child(t, "RIGHT", r))
      BY <2>1, <2>2 DEF Tree, Below
    <3>3. \A k \in At(B, Child(t, "RIGHT", r)) : r < k
      BY <1>1, <2>1 DEF Tree, Below, Before
    <3>4. j \in At(B, m) \/ r < j \/ j = r
      BY <3>1, <3>2, <3>3
    <3> QED BY <1>8, <2>3, <2>5, <3>4
  <2>6. \A j \in I : j <= n \/ r <= j
    BY <2>3, <2>5
  <2> QED BY <1>10, <2>1, <2>4, <2>6 DEF IsNext
<1> QED BY <1>11, <1>12

(* The one whose left child is missing follows n. *)
LEMMA SuccessorBelow ==
  ASSUME NEW t, NEW I, NEW B, Tree(t, I, B), NEW n \in I,
         NEW c, c = Child(t, "RIGHT", n), c # Null, NEW r, r = RB!Outermost(t, c, "LEFT")
  PROVE  /\ r \in At(B, c) /\ Child(t, "LEFT", r) = Null /\ IsNext(I, n, r)
         /\ r # Null
<1>1. Nodes(I, B) /\ "LEFT" \in RB!Sides /\ "RIGHT" \in RB!Sides
  BY HasNodes DEF RB!Sides
<1>2. c \in I /\ At(B, c) \subseteq At(B, n) /\ n \in At(B, n)
  BY <1>1, Halves
<1>3. r \in I /\ Child(t, "LEFT", r) = Null /\ Extreme(At(B, c), "LEFT", r)
  BY <1>1, <1>2, OutermostIs
<1>4. r \in At(B, c) /\ r \in At(B, n) /\ r # Null
  BY <1>1, <1>2, <1>3 DEF Extreme, Nodes
<1>5. n < r /\ n \in Nat /\ r \in Nat /\ I \subseteq Nat
  BY <1>1, <1>3, <1>4 DEF Tree, Below, Before, Nodes
<1>6. ASSUME NEW j \in I, n < j, j < r
      PROVE  FALSE
  <2>1. j \in At(B, n)
    BY <1>1, <1>2, <1>4, <1>6, LiesBetween DEF Before
  <2>2. At(B, n) = {n} \cup At(B, Child(t, "LEFT", n)) \cup At(B, c)
    BY DEF Tree, Below
  <2>3. \A k \in At(B, Child(t, "LEFT", n)) : k < n
    BY <1>1 DEF Tree, Below, Before
  <2>4. j \in At(B, c) \/ j < n \/ j = n
    BY <2>1, <2>2, <2>3
  <2>5. \A k \in At(B, c) : k = r \/ r < k
    BY <1>3 DEF Extreme, Before
  <2> QED BY <1>5, <1>6, <2>4, <2>5
<1>7. \A j \in I : j <= n \/ r <= j
  BY <1>5, <1>6
<1> QED BY <1>3, <1>4, <1>5, <1>7 DEF IsNext

(* RB_NEXT *)
LEMMA NextIs ==
  ASSUME NEW t, NEW I, NEW B, Tree(t, I, B), NEW n \in I
  PROVE  IsNext(I, n, RB!Next(t, n))
<1>1. PICK c : c = Child(t, "RIGHT", n)
  OBVIOUS
<1>2. CASE c = Null
  <2>1. RB!Next(t, n) = RB!Above(t, n, "RIGHT")
    BY <1>1, <1>2 DEF RB!Next, RB!Neighbour, Child
  <2> QED BY <1>1, <1>2, <2>1, AboveIs
<1>3. CASE c # Null
  <2>1. RB!Next(t, n) = RB!Outermost(t, c, "LEFT")
    BY <1>1, <1>3 DEF RB!Next, RB!Neighbour, RB!Other, Child
  <2> QED BY <1>1, <1>3, <2>1, SuccessorBelow
<1> QED BY <1>2, <1>3

(* RB_MIN *)
LEMMA MinIs ==
  ASSUME NEW t, NEW I, NEW B, Tree(t, I, B)
  PROVE  \/ RB!Min(t) = Null /\ I = {}
         \/ RB!Min(t) \in I /\ \A j \in I : RB!Min(t) <= j
<1>1. /\ Root(t) \in I \cup {Null} /\ At(B, Root(t)) = I /\ (Root(t) = Null <=> I = {})
      /\ "LEFT" \in RB!Sides /\ I \subseteq Nat
  BY RootHasAll, HasNodes DEF Nodes, RB!Sides
<1>2. CASE Root(t) = Null
  BY <1>1, <1>2 DEF RB!Min, Root
<1>3. CASE Root(t) # Null
  <2>1. PICK m \in I : m = RB!Outermost(t, Root(t), "LEFT") /\ Extreme(I, "LEFT", m)
    BY <1>1, <1>3, OutermostIs
  <2>2. RB!Min(t) = m
    BY <1>3, <2>1 DEF RB!Min, Root
  <2>3. \A j \in I : m <= j
    BY <1>1, <2>1 DEF Extreme, Before
  <2> QED BY <2>2, <2>3
<1> QED BY <1>2, <1>3

------------------------------------------------------------------------------
(* A node leaves the tree *)

(* In u, c hangs where x hung, on the side z of q. *)
Unlinked(t, u, I, B, x, c, q, z) ==
  /\ u \in RB!Trees /\ u.color = t.color
  /\ x \in I /\ HungOn(t, I, x, q, z) /\ c \in I \cup {Null} /\ c # x
  /\ q \in I \cup {Null} /\ q # x /\ (q # Null => c # q)
  /\ At(B, x) = {x} \cup At(B, c) /\ x \notin At(B, c)
  /\ \E y \in RB!Sides : Child(t, y, x) = c
  /\ \A y \in RB!Sides : Child(t, y, x) \in {c, Null}
  /\ Root(u) = IF q = Null THEN c ELSE Root(t)
  /\ \A m \in Keys : Parent(u, m) = IF m = c THEN q ELSE Parent(t, m)
  /\ \A y \in RB!Sides, m \in Keys :
       Child(u, y, m) = IF m = q /\ y = z THEN c ELSE Child(t, y, m)

(* What RB_REMOVE writes where a node leaves *)
LEMMA UnlinkWrites ==
  ASSUME NEW t, NEW I, NEW B, Tree(t, I, B), NEW x \in I, NEW y \in RB!Sides,
         Child(t, y, x) = Null, NEW c, c = RB!OnlyChild(t, x), NEW u, u = RB!Unlink(t, x)
  PROVE  \E q, z : Unlinked(t, u, I, B, x, c, q, z)
<1>1. Nodes(I, B) /\ t \in RB!Trees /\ "LEFT" \in RB!Sides /\ "RIGHT" \in RB!Sides
  BY HasNodes DEF RB!Sides
<1>2. PICK q, z : HungOn(t, I, x, q, z)
  BY HungSomewhere
<1>3. PICK l, r : l = Child(t, "LEFT", x) /\ r = Child(t, "RIGHT", x)
  OBVIOUS
<1>4. /\ c = IF l = Null THEN r ELSE l
      /\ l = Null \/ r = Null
  BY <1>3 DEF RB!OnlyChild, Child, RB!Sides
<1>5. /\ l \in I \cup {Null} /\ r \in I \cup {Null} /\ l # x /\ r # x /\ x # Null
      /\ x \notin At(B, l) /\ x \notin At(B, r) /\ At(B, x) = {x} \cup At(B, l) \cup At(B, r)
      /\ At(B, Null) = {}
  <2>1. l \in I \cup {Null} /\ l # x /\ x # Null /\ x \notin At(B, l)
    BY <1>1, <1>3, Halves
  <2>2. r \in I \cup {Null} /\ r # x /\ x \notin At(B, r)
    BY <1>1, <1>3, Halves
  <2> QED BY <1>1, <1>3, <2>1, <2>2 DEF Tree, Below, Nodes
<1>6. c \in I \cup {Null} /\ c # x /\ At(B, x) = {x} \cup At(B, c) /\ x \notin At(B, c)
  BY <1>4, <1>5
<1>7. /\ \E w \in RB!Sides : Child(t, w, x) = c
      /\ \A w \in RB!Sides : Child(t, w, x) \in {c, Null}
  <2>1. \A w \in RB!Sides : w = "LEFT" \/ w = "RIGHT"
    BY DEF RB!Sides
  <2> QED BY <1>1, <1>3, <1>4, <2>1
<1>8. q \in I \cup {Null} /\ q # x /\ q \in RB!Place /\ c \in RB!Place /\ q = Parent(t, x)
  <2>1. q # Null => q \in I /\ Child(t, z, q) = x /\ z \in RB!Sides
    BY <1>2 DEF HungOn
  <2>2. q # Null => q # x
    BY <1>5, <2>1, Halves
  <2> QED BY <1>1, <1>2, <1>5, <1>6, <2>1, <2>2 DEF HungOn, Nodes
<1>9. q # Null => c # q
  <2>1. SUFFICES ASSUME q # Null, c = q PROVE FALSE
    OBVIOUS
  <2>2. q \in I /\ Child(t, z, q) = x /\ z \in RB!Sides
    BY <1>2, <2>1 DEF HungOn
  <2>3. q \in At(B, c)
    BY <1>1, <2>1, <2>2 DEF Nodes
  <2>4. At(B, x) \subseteq At(B, q) /\ q \notin At(B, x)
    BY <2>2, Halves
  <2> QED BY <1>6, <2>3, <2>4
<1>10. PICK v : v = RB!SetParent(t, c, q)
  OBVIOUS
<1>11. ParentSet(t, v, c, q) /\ v \in RB!Trees
  BY <1>1, <1>8, <1>10, SetParentWrites DEF ParentSet
<1>12. u = RB!Replace(v, q, x, c)
  BY <1>8, <1>10, Zenon DEF RB!Unlink, Parent
<1>13. Replaced(v, u, q, RB!SideOf(v, q, x), c)
  BY <1>8, <1>11, <1>12, ReplaceWrites
<1>14. q # Null => RB!SideOf(v, q, x) = z
  <2>1. SUFFICES ASSUME q # Null PROVE RB!SideOf(v, q, x) = z
    OBVIOUS
  <2>2. x # Root(t)
    BY <1>2, <2>1 DEF HungOn
  <2>3. RB!SideOf(t, q, x) \in RB!Sides /\ Child(t, RB!SideOf(t, q, x), q) = x /\ q \in I
    BY <1>8, <2>2, SideIsFound
  <2>4. RB!SideOf(t, q, x) = z
    BY <1>2, <2>3 DEF HungOn
  <2>5. RB!SideOf(v, q, x) = RB!SideOf(t, q, x)
    BY <1>11 DEF RB!SideOf, ParentSet
  <2> QED BY <2>4, <2>5
<1>15. /\ u \in RB!Trees /\ u.color = t.color
       /\ Root(u) = IF q = Null THEN c ELSE Root(t)
       /\ \A m \in Keys : Parent(u, m) = IF m = c THEN q ELSE Parent(t, m)
       /\ \A w \in RB!Sides, m \in Keys :
            Child(u, w, m) = IF m = q /\ w = z THEN c ELSE Child(t, w, m)
  <2>1. \A w, m : Child(v, w, m) = Child(t, w, m)
    BY <1>11 DEF ParentSet, Child
  <2>2. \A m : Parent(u, m) = Parent(v, m)
    BY <1>13 DEF Replaced, Parent
  <2>3. \A m \in Keys : m # Null
    BY KeysFinite
  <2> QED BY <1>11, <1>13, <1>14, <2>1, <2>2, <2>3 DEF Replaced, ParentSet
<1> QED BY <1>2, <1>6, <1>7, <1>8, <1>9, <1>15 DEF Unlinked

(* The links are sound without the node, ... *)
LEMMA UnlinkedLinks ==
  ASSUME NEW t, NEW u, NEW I, NEW B, Tree(t, I, B), NEW x, NEW c, NEW q, NEW z,
         Unlinked(t, u, I, B, x, c, q, z)
  PROVE  Linked(u, I \ {x})
<1>1. /\ Nodes(I, B) /\ Linked(t, I) /\ x \in I /\ HungOn(t, I, x, q, z)
      /\ c \in (I \ {x}) \cup {Null} /\ q \in (I \ {x}) \cup {Null} /\ (q # Null => c # q)
      /\ x # Null
  BY HasNodes DEF Unlinked, Tree, Nodes
<1>2. u \in RB!Trees /\ I \ {x} \in SUBSET Keys
  BY <1>1 DEF Unlinked, Nodes
<1>3. /\ Root(u) = IF q = Null THEN c ELSE Root(t)
      /\ \A m \in I : Parent(u, m) = IF m = c THEN q ELSE Parent(t, m)
      /\ \A y \in RB!Sides, m \in I :
           Child(u, y, m) = IF m = q /\ y = z THEN c ELSE Child(t, y, m)
  BY <1>1 DEF Unlinked, Nodes
<1>4. (q = Null <=> x = Root(t)) /\ (q # Null => z \in RB!Sides /\ Child(t, z, q) = x)
  BY <1>1 DEF HungOn, Nodes
<1>5. PICK w \in RB!Sides : Child(t, w, x) = c
  BY DEF Unlinked
<1>6. c # Null => Parent(t, c) = x /\ c # Root(t)
  BY <1>1, <1>5, ParentIsOne
<1>7. /\ Root(u) \in (I \ {x}) \cup {Null}
      /\ Root(u) # Null => Parent(u, Root(u)) = Null
  BY <1>1, <1>3, <1>4, <1>6 DEF Linked
<1>8. ASSUME NEW n \in I \ {x}, NEW y \in RB!Sides, NEW m, m = Child(u, y, n)
      PROVE  m \in (I \ {x}) \cup {Null} /\ (m # Null => Parent(u, m) = n)
  <2>1. CASE n = q /\ y = z
    BY <1>1, <1>3, <1>8, <2>1
  <2>2. CASE ~(n = q /\ y = z)
    <3>1. m = Child(t, y, n) /\ m # x
      BY <1>1, <1>3, <1>8, <2>2 DEF HungOn
    <3>2. m \in I \cup {Null} /\ (m # Null => Parent(t, m) = n)
      BY <1>1, <3>1 DEF Linked
    <3>3. m # Null => m # c
      BY <1>6, <3>2
    <3> QED BY <1>3, <3>1, <3>2, <3>3
  <2> QED BY <2>1, <2>2
<1>9. ASSUME NEW n \in I \ {x}, n # Root(u)
      PROVE  Parent(u, n) \in I \ {x} /\ \E y \in RB!Sides : Child(u, y, Parent(u, n)) = n
  <2>1. CASE n = c
    <3>1. q # Null
      BY <1>3, <1>9, <2>1
    <3>2. q \in I \ {x} /\ z \in RB!Sides /\ Parent(u, n) = q
      BY <1>1, <1>3, <1>4, <2>1, <3>1
    <3>3. Child(u, z, q) = n
      BY <1>3, <2>1, <3>2
    <3> QED BY <3>2, <3>3
  <2>2. CASE n # c
    <3>1. n # Root(t)
      BY <1>3, <1>4, <1>9
    <3>2. PICK y \in RB!Sides, m \in I : m = Parent(t, n) /\ Child(t, y, m) = n
      <4>1. n \in I /\ n # Root(t)
        BY <3>1
      <4> QED BY <1>1, <4>1 DEF Linked
    <3>3. Parent(u, n) = m
      BY <1>3, <2>2, <3>2
    <3>4. m # x
      <4>1. Child(t, y, x) \in {c, Null} /\ n # Null
        BY <1>1 DEF Unlinked, Nodes
      <4> QED BY <2>2, <3>2, <4>1
    <3>5. ~(m = q /\ y = z)
      BY <1>4, <3>2, <1>1 DEF Nodes
    <3>6. Child(u, y, m) = n
      BY <1>3, <3>2, <3>5
    <3> QED BY <3>2, <3>3, <3>4, <3>6
  <2> QED BY <2>1, <2>2
<1> QED BY <1>2, <1>7, <1>8, <1>9 DEF Linked

(* x is missing, below all nodes. *)
Parted(I, B, C, x) ==
  /\ C \in [RB!Place -> SUBSET (I \ {x})] /\ At(C, Null) = {}
  /\ \A n \in I : At(C, n) = At(B, n) \ {x}

(* The node is taken from all sets it is in. *)
LEMMA PartedExists ==
  ASSUME NEW I, NEW B, Nodes(I, B), NEW x \in I
  PROVE  \E C : Parted(I, B, C, x)
<1> DEFINE C == [n \in RB!Place |-> IF n \in I THEN At(B, n) \ {x} ELSE {}]
<1>1. C \in [RB!Place -> SUBSET (I \ {x})]
  BY DEF Nodes
<1>2. At(C, Null) = {} /\ \A n \in I : At(C, n) = At(B, n) \ {x}
  BY DEF Nodes, At
<1> QED BY <1>1, <1>2 DEF Parted

(* ... and the others ordered as before. *)
LEMMA UnlinkedTree ==
  ASSUME NEW t, NEW u, NEW I, NEW B, Tree(t, I, B), NEW x, NEW c, NEW q, NEW z,
         Unlinked(t, u, I, B, x, c, q, z), NEW C, Parted(I, B, C, x)
  PROVE  Tree(u, I \ {x}, C)
<1>1. /\ Nodes(I, B) /\ x \in I /\ HungOn(t, I, x, q, z)
      /\ c \in (I \ {x}) \cup {Null} /\ q \in (I \ {x}) \cup {Null}
      /\ x # Null /\ At(B, x) = {x} \cup At(B, c) /\ x \notin At(B, c)
  BY HasNodes DEF Unlinked, Nodes
<1>2. /\ Root(u) = IF q = Null THEN c ELSE Root(t)
      /\ \A y \in RB!Sides, m \in I :
           Child(u, y, m) = IF m = q /\ y = z THEN c ELSE Child(t, y, m)
  BY <1>1 DEF Unlinked, Nodes
<1>3. /\ C \in [RB!Place -> SUBSET (I \ {x})] /\ At(C, Null) = {} /\ At(B, Null) = {}
      /\ \A n \in I \cup {Null} : At(C, n) = At(B, n) \ {x}
  BY <1>1 DEF Parted, Nodes
<1>4. Linked(u, I \ {x})
  BY UnlinkedLinks
<1>5. At(C, Root(u)) = I \ {x}
  <2>1. Root(t) \in I \cup {Null} /\ At(B, Root(t)) = I
    BY RootHasAll
  <2>2. CASE q = Null
    <3>1. x = Root(t)
      BY <1>1, <2>2 DEF HungOn, Nodes
    <3> QED BY <1>1, <1>2, <1>3, <2>1, <2>2, <3>1
  <2>3. CASE q # Null
    BY <1>2, <1>3, <2>1, <2>3
  <2> QED BY <2>2, <2>3
<1>6. ASSUME NEW n \in I \ {x}, NEW y \in RB!Sides, NEW k, k = Child(t, y, n),
             NEW m, m = Child(u, y, n)
      PROVE  At(C, m) = At(B, k) \ {x}
  <2>1. k \in I \cup {Null}
    BY <1>6, Halves
  <2>2. CASE n = q /\ y = z
    <3>1. k = x /\ m = c
      BY <1>1, <1>2, <1>6, <2>2 DEF HungOn, Nodes
    <3> QED BY <1>1, <1>3, <3>1
  <2>3. CASE ~(n = q /\ y = z)
    BY <1>2, <1>3, <1>6, <2>1, <2>3
  <2> QED BY <2>2, <2>3
<1>7. ASSUME NEW n \in I \ {x}
      PROVE  At(C, n) = {n} \cup At(C, Child(u, "LEFT", n)) \cup At(C, Child(u, "RIGHT", n))
  <2>1. PICK l, r, v, w : /\ l = Child(t, "LEFT", n) /\ r = Child(t, "RIGHT", n)
                          /\ v = Child(u, "LEFT", n) /\ w = Child(u, "RIGHT", n)
    OBVIOUS
  <2>2. At(B, n) = {n} \cup At(B, l) \cup At(B, r)
    BY <2>1 DEF Tree, Below
  <2>3. At(C, v) = At(B, l) \ {x}
    BY <1>6, <2>1 DEF RB!Sides
  <2>4. At(C, w) = At(B, r) \ {x}
    BY <1>6, <2>1 DEF RB!Sides
  <2>5. At(C, n) = {n} \cup At(C, v) \cup At(C, w)
    BY <1>3, <2>2, <2>3, <2>4
  <2> QED BY <2>1, <2>5
<1>8. ASSUME NEW n \in I \ {x}, NEW y \in RB!Sides, NEW j \in At(C, Child(u, y, n))
      PROVE  Before(y, j, n)
  <2>1. j \in At(B, Child(t, y, n))
    BY <1>6, <1>8
  <2> QED BY <2>1 DEF Tree, Below
<1> QED BY <1>3, <1>4, <1>5, <1>7, <1>8 DEF Tree, Below

(* The blank nodes stay blank. *)
LEMMA UnlinkedWhole ==
  ASSUME NEW t, NEW u, NEW I, NEW B, NEW S, Whole(t, I, B, S), NEW x, NEW c, NEW q, NEW z,
         Unlinked(t, u, I, B, x, c, q, z)
  PROVE  \E C : Whole(u, I \ {x}, C, S)
<1>1. Tree(t, I, B) /\ Nodes(I, B) /\ S \in SUBSET (Keys \ I) /\ Bare(t, S)
  BY HasNodes DEF Whole
<1>2. PICK C : Parted(I, B, C, x)
  BY <1>1, PartedExists DEF Unlinked
<1>3. Tree(u, I \ {x}, C)
  BY <1>1, <1>2, UnlinkedTree
<1>4. ASSUME NEW n \in S
      PROVE  /\ Parent(u, n) = Null /\ u.color[n] = "RED"
             /\ \A y \in RB!Sides : Child(u, y, n) = Null
  <2>1. n \in Keys /\ n # c /\ n # q
    BY <1>1 DEF Unlinked, Nodes
  <2>2. Parent(t, n) = Null /\ t.color[n] = "RED" /\ \A y \in RB!Sides : Child(t, y, n) = Null
    BY <1>1 DEF Bare
  <2> QED BY <2>1, <2>2 DEF Unlinked
<1>5. Bare(u, S)
  BY <1>4 DEF Bare
<1> QED BY <1>1, <1>3, <1>5 DEF Whole

(* A path lacks the node that left if it was black. *)
LEMMA UnlinkedColors ==
  ASSUME NEW t, NEW u, NEW I, NEW B, NEW H, NEW S, Balance(t, I, B, H, S),
         NEW x, NEW c, NEW q, NEW z, Unlinked(t, u, I, B, x, c, q, z),
         NEW C, Whole(u, I \ {x}, C, S)
  PROVE  /\ t.color[x] # "BLACK" => Balance(u, I \ {x}, C, H, S)
         /\ t.color[x] = "BLACK" /\ q = Null => AtRoot(u, I \ {x}, C, H, S, c)
         /\ t.color[x] = "BLACK" /\ q # Null => OneShort(u, I \ {x}, C, H, S, q, z, c)
<1>1. /\ Tree(t, I, B) /\ Nodes(I, B) /\ Level(t, I, H) /\ Calm(t, I, {}, {})
      /\ ~RB!Red(t, Root(t)) /\ t \in RB!Trees
  BY HasNodes DEF Balance, Whole
<1>2. /\ x \in I /\ HungOn(t, I, x, q, z)
      /\ c \in (I \ {x}) \cup {Null} /\ q \in (I \ {x}) \cup {Null} /\ x # Null
  BY <1>1 DEF Unlinked, Nodes
<1>3. /\ Root(u) = IF q = Null THEN c ELSE Root(t)
      /\ \A y \in RB!Sides, m \in I :
           Child(u, y, m) = IF m = q /\ y = z THEN c ELSE Child(t, y, m)
  BY <1>1 DEF Unlinked, Nodes
<1>4. (q = Null <=> x = Root(t)) /\ (q # Null => z \in RB!Sides /\ Child(t, z, q) = x)
  BY <1>1, <1>2 DEF HungOn, Nodes
<1>5. PICK w \in RB!Sides : Child(t, w, x) = c
  BY DEF Unlinked
<1>6. \A n : (RB!Red(u, n) <=> RB!Red(t, n)) /\ Black(u, n) = Black(t, n)
  BY DEF Unlinked, RB!Red, Black
<1>7. RB!Red(t, x) <=> t.color[x] # "BLACK"
  <2>1. t.color[x] \in {"RED", "BLACK"}
    BY <1>1, <1>2, TypeOfTrees DEF Nodes
  <2> QED BY <1>2, <2>1 DEF RB!Red
<1>8. At(H, x) = At(H, c) + Black(t, x) /\ At(H, x) \in Nat /\ At(H, c) \in Nat
  BY <1>1, <1>2, <1>5, LevelAt
<1>9. ASSUME NEW n \in I \ {x}, NEW y \in RB!Sides, NEW m, m = Child(u, y, n)
      PROVE  /\ ~(n = q /\ y = z) => /\ m = Child(t, y, n)
                                     /\ At(H, n) = At(H, m) + Black(u, n)
             /\ n = q /\ y = z => /\ m = c
                                  /\ At(H, n) = At(H, c) + Black(t, x) + Black(u, n)
             /\ At(H, n) \in Nat /\ At(H, m) \in Nat
  <2>1. CASE n = q /\ y = z
    <3>1. m = c /\ Child(t, y, n) = x
      BY <1>2, <1>3, <1>4, <1>9, <2>1, <1>1 DEF Nodes
    <3>2. At(H, n) = At(H, x) + Black(t, n) /\ At(H, n) \in Nat
      BY <1>1, <1>9, <3>1, LevelAt
    <3> QED BY <1>6, <1>8, <2>1, <3>1, <3>2
  <2>2. CASE ~(n = q /\ y = z)
    <3>1. m = Child(t, y, n)
      BY <1>3, <1>9, <2>2
    <3>2. At(H, n) = At(H, m) + Black(t, n) /\ At(H, n) \in Nat /\ At(H, m) \in Nat
      BY <1>1, <1>9, <3>1, LevelAt
    <3> QED BY <1>6, <2>2, <3>1, <3>2
  <2> QED BY <2>1, <2>2
<1>10. H \in [RB!Place -> Nat] /\ At(H, Null) = 0
  BY <1>1 DEF Level
<1>11. Calm(u, I \ {x}, {}, {c})
  <2> SUFFICES ASSUME NEW n \in I \ {x}, NEW y \in RB!Sides, NEW m, m = Child(u, y, n),
                      RB!Red(u, n), RB!Red(u, m), m # c
               PROVE  FALSE
    BY DEF Calm
  <2>1. m = Child(t, y, n)
    BY <1>9
  <2> QED BY <1>1, <1>6, <2>1 DEF Calm
<1>12. CASE t.color[x] # "BLACK"
  <2>1. RB!Red(t, x) /\ Black(t, x) = 0
    BY <1>7, <1>12, RedBlack
  <2>2. q # Null /\ ~RB!Red(t, q) /\ ~RB!Red(t, c)
    BY <1>1, <1>2, <1>4, <1>5, <2>1 DEF Calm
  <2>3. ASSUME NEW n \in I \ {x}, NEW y \in RB!Sides
        PROVE  At(H, n) = At(H, Child(u, y, n)) + Black(u, n)
    <3>1. PICK m : m = Child(u, y, n)
      OBVIOUS
    <3> QED BY <1>8, <1>9, <2>1, <3>1
  <2>4. Level(u, I \ {x}, H)
    BY <1>10, <2>3 DEF Level
  <2>5. Calm(u, I \ {x}, {}, {})
    BY <1>6, <1>11, <2>2 DEF Calm
  <2>6. ~RB!Red(u, Root(u))
    BY <1>1, <1>3, <1>6, <2>2
  <2> QED BY <1>12, <2>4, <2>5, <2>6 DEF Balance
<1>13. CASE t.color[x] = "BLACK" /\ q = Null
  <2>1. \A n \in I \ {x} : n # q
    BY <1>1, <1>13 DEF Nodes
  <2>2. ASSUME NEW n \in I \ {x}, NEW y \in RB!Sides
        PROVE  At(H, n) = At(H, Child(u, y, n)) + Black(u, n)
    <3>1. PICK m : m = Child(u, y, n)
      OBVIOUS
    <3> QED BY <1>9, <2>1, <3>1
  <2>3. Level(u, I \ {x}, H)
    BY <1>10, <2>2 DEF Level
  <2>4. Calm(u, I \ {x}, {c}, {})
    <3> SUFFICES ASSUME NEW n \in I \ {x}, NEW y \in RB!Sides, NEW m, m = Child(u, y, n),
                        RB!Red(u, n), RB!Red(u, m)
                 PROVE  FALSE
      BY DEF Calm
    <3>1. m = Child(t, y, n)
      BY <1>9, <2>1
    <3> QED BY <1>1, <1>6, <3>1 DEF Calm
  <2> QED BY <1>3, <1>13, <2>3, <2>4 DEF AtRoot
<1>14. CASE t.color[x] = "BLACK" /\ q # Null
  <2>1. Black(t, x) = 1
    BY <1>7, <1>14, RedBlack
  <2>2. ASSUME NEW n \in I \ {x}, NEW y \in RB!Sides
        PROVE  At(H, n) = At(H, Child(u, y, n)) + Short(n, y, q, z) + Black(u, n)
    <3>1. PICK m : m = Child(u, y, n)
      OBVIOUS
    <3>2. CASE n = q /\ y = z
      <4>1. Short(n, y, q, z) = 1
        BY <3>2 DEF Short
      <4> QED BY <1>9, <2>1, <3>1, <3>2, <4>1
    <3>3. CASE ~(n = q /\ y = z)
      <4>1. Short(n, y, q, z) = 0
        BY <3>3 DEF Short
      <4> QED BY <1>9, <3>1, <3>3, <4>1
    <3> QED BY <3>2, <3>3
  <2>3. Lacking(u, I \ {x}, H, q, z)
    BY <1>10, <2>2 DEF Lacking
  <2>4. Calm(u, I \ {x}, {c}, {c})
    BY <1>11 DEF Calm
  <2>5. ~RB!Red(u, Root(u))
    BY <1>1, <1>3, <1>6, <1>14
  <2>6. q \in I \ {x} /\ z \in RB!Sides /\ c = Child(u, z, q)
    BY <1>2, <1>3, <1>4, <1>14
  <2> QED BY <1>14, <2>3, <2>4, <2>5, <2>6 DEF OneShort
<1> QED BY <1>12, <1>13, <1>14

------------------------------------------------------------------------------
(* A node takes the place of another one *)

Renamed(d, e, n) == IF n = d THEN e ELSE n

(* v is t with e, which was in no place, in that of d. *)
Substituted(t, v, J, d, e) ==
  /\ v \in RB!Trees /\ d \in J /\ e \in Keys /\ e \notin J
  /\ Root(v) = Renamed(d, e, Root(t))
  /\ \A n \in J : /\ Parent(v, Renamed(d, e, n)) = Renamed(d, e, Parent(t, n))
                  /\ v.color[Renamed(d, e, n)] = t.color[n]
                  /\ \A x \in RB!Sides :
                       Child(v, x, Renamed(d, e, n)) = Renamed(d, e, Child(t, x, n))
  /\ \A n \in Keys \ (J \cup {e}) : /\ Parent(v, n) = Parent(t, n)
                                    /\ v.color[n] = t.color[n]
                                    /\ \A x \in RB!Sides : Child(v, x, n) = Child(t, x, n)

(* What is written in e *)
Filled(t, v, e, a, b, c, k) ==
  /\ v \in RB!Trees /\ Root(v) = Root(t)
  /\ \A n \in Keys : /\ Parent(v, n) = IF n = e THEN c ELSE Parent(t, n)
                     /\ v.color[n] = IF n = e THEN k ELSE t.color[n]
  /\ \A n \in Keys, x \in RB!Sides :
       Child(v, x, n) = IF n = e THEN IF x = "LEFT" THEN a ELSE b ELSE Child(t, x, n)

Fill(t, e, a, b, c, k) ==
  [t EXCEPT !.child["LEFT"][e] = a, !.child["RIGHT"][e] = b, !.parent[e] = c, !.color[e] = k]

(* All fields of one node are written. *)
LEMMA FilledWrites ==
  ASSUME NEW t \in RB!Trees, NEW e \in Keys, NEW a \in RB!Place, NEW b \in RB!Place,
         NEW c \in RB!Place, NEW k \in {"RED", "BLACK"}, NEW v, v = Fill(t, e, a, b, c, k)
  PROVE  Filled(t, v, e, a, b, c, k)
<1>1. e # Null /\ "LEFT" \in RB!Sides /\ "RIGHT" \in RB!Sides /\ "LEFT" # "RIGHT"
      /\ \A x \in RB!Sides : x = "LEFT" \/ x = "RIGHT"
  BY KeysFinite DEF RB!Sides
<1>2. PICK f : f = SetChild(t, "LEFT", e, a)
  OBVIOUS
<1>3. PICK g : g = SetChild(f, "RIGHT", e, b)
  OBVIOUS
<1>4. PICK h : h = [g EXCEPT !.parent[e] = c]
  OBVIOUS
<1>5. v = [h EXCEPT !.color[e] = k]
  BY <1>2, <1>3, <1>4, Zenon DEF Fill, SetChild
<1>6. ChildSet(t, f, "LEFT", e, a) /\ f \in RB!Trees
  <2>1. ChildSet(t, f, "LEFT", e, a)
    BY <1>1, <1>2, SetChildWrites
  <2> QED BY <2>1 DEF ChildSet
<1>7. ChildSet(f, g, "RIGHT", e, b) /\ g \in RB!Trees
  <2>1. ChildSet(f, g, "RIGHT", e, b)
    BY <1>1, <1>3, <1>6, SetChildWrites
  <2> QED BY <2>1 DEF ChildSet
<1>8. h = RB!SetParent(g, e, c)
  BY <1>1, <1>4 DEF RB!SetParent
<1>9. ParentSet(g, h, e, c) /\ h \in RB!Trees
  <2>1. e \in RB!Place
    BY DEF RB!Place
  <2>2. ParentSet(g, h, e, c)
    BY <1>7, <1>8, <2>1, SetParentWrites
  <2> QED BY <2>2 DEF ParentSet
<1>10. /\ v.root = h.root /\ v.child = h.child /\ v.parent = h.parent
       /\ v.color = [h.color EXCEPT ![e] = k] /\ v \in RB!Trees
  <2>1. h = [root |-> h.root, child |-> h.child, parent |-> h.parent, color |-> h.color]
    BY <1>9, TypeOfTrees
  <2>2. PICK m : m = [h.color EXCEPT ![e] = k]
    OBVIOUS
  <2>3. m \in [Keys -> {"RED", "BLACK"}]
    BY <1>9, <2>2, TypeOfTrees
  <2>4. /\ h.root \in RB!Place /\ h.parent \in [Keys -> RB!Place]
        /\ h.child \in [RB!Sides -> [Keys -> RB!Place]]
    BY <1>9, TypeOfTrees
  <2>5. v = [root |-> h.root, child |-> h.child, parent |-> h.parent, color |-> m]
    BY <1>5, <2>1, <2>2
  <2>6. v.root = h.root /\ v.child = h.child /\ v.parent = h.parent /\ v.color = m
    BY <2>5
  <2>7. v \in RB!Trees
    BY <2>3, <2>4, <2>5 DEF RB!Trees
  <2> QED BY <2>2, <2>6, <2>7
<1>11. \A n \in Keys : v.color[n] = IF n = e THEN k ELSE h.color[n]
  BY <1>9, <1>10, TypeOfTrees
<1>12. \A x, n : Child(v, x, n) = Child(g, x, n) /\ Parent(v, n) = Parent(h, n) /\ Root(v) = Root(h)
  BY <1>9, <1>10 DEF Child, Parent, Root, ParentSet
<1>13. Root(v) = Root(t)
  BY <1>6, <1>7, <1>9, <1>12 DEF ChildSet, ParentSet
<1>14. \A n \in Keys : v.color[n] = IF n = e THEN k ELSE t.color[n]
  BY <1>6, <1>7, <1>9, <1>11 DEF ChildSet, ParentSet
<1>15. \A n : Parent(g, n) = Parent(t, n)
  BY <1>6, <1>7 DEF ChildSet, Parent
<1>16. \A n \in Keys : Parent(v, n) = IF n = e THEN c ELSE Parent(t, n)
  BY <1>9, <1>12, <1>15 DEF ParentSet
<1>17. ASSUME NEW n \in Keys, NEW x \in RB!Sides
       PROVE  Child(v, x, n) = IF n = e THEN IF x = "LEFT" THEN a ELSE b ELSE Child(t, x, n)
  <2>1. Child(g, x, n) = IF n = e /\ x = "RIGHT" THEN b ELSE Child(f, x, n)
    BY <1>7 DEF ChildSet
  <2>2. Child(f, x, n) = IF n = e /\ x = "LEFT" THEN a ELSE Child(t, x, n)
    BY <1>6 DEF ChildSet
  <2> QED BY <1>1, <1>12, <2>1, <2>2
<1> QED BY <1>10, <1>13, <1>14, <1>16, <1>17 DEF Filled

(* What RB_REMOVE writes where the successor takes its new place *)
LEMMA SubstituteWrites ==
  ASSUME NEW t, NEW J, NEW B, Tree(t, J, B), NEW d \in J, NEW e \in Keys, e \notin J,
         NEW v, v = RB!Substitute(t, d, e)
  PROVE  Substituted(t, v, J, d, e)
<1>1. /\ Nodes(J, B) /\ t \in RB!Trees /\ d \in Keys /\ d # Null /\ e # Null
      /\ "LEFT" \in RB!Sides /\ "RIGHT" \in RB!Sides /\ J \subseteq RB!Place
      /\ \A x \in RB!Sides : x = "LEFT" \/ x = "RIGHT"
  BY HasNodes, KeysFinite DEF Nodes, RB!Sides, RB!Place
<1>2. PICK q, z : HungOn(t, J, d, q, z)
  BY HungSomewhere
<1>3. PICK l, r : l = Child(t, "LEFT", d) /\ r = Child(t, "RIGHT", d)
  OBVIOUS
<1>4. l \in J \cup {Null} /\ r \in J \cup {Null} /\ l # d /\ r # d
      /\ l \in RB!Place /\ r \in RB!Place
  <2>1. l \in J \cup {Null} /\ l # d
    BY <1>1, <1>3, Halves
  <2>2. r \in J \cup {Null} /\ r # d
    BY <1>1, <1>3, Halves
  <2> QED BY <1>1, <2>1, <2>2 DEF Nodes
<1>5. /\ q = Parent(t, d) /\ q \in J \cup {Null} /\ q # d /\ q # e /\ q \in RB!Place
      /\ (q = Null <=> d = Root(t)) /\ (q # Null => z \in RB!Sides /\ Child(t, z, q) = d)
  <2>1. /\ q = Parent(t, d) /\ z \in RB!Sides /\ (q = Null <=> d = Root(t))
        /\ (q # Null => q \in J /\ Child(t, z, q) = d)
    BY <1>1, <1>2 DEF HungOn, Nodes
  <2>2. q # Null => q # d
    BY <1>1, <2>1, Halves
  <2> QED BY <1>1, <2>1, <2>2 DEF Nodes
<1>6. t.color[d] \in {"RED", "BLACK"}
  BY <1>1, TypeOfTrees
<1>7. PICK f : f = [t EXCEPT !.child["LEFT"][e] = t.child["LEFT"][d],
                             !.child["RIGHT"][e] = t.child["RIGHT"][d],
                             !.parent[e] = t.parent[d], !.color[e] = t.color[d]]
  OBVIOUS
<1>8. f = Fill(t, e, l, r, q, t.color[d])
  BY <1>3, <1>5, <1>7, Zenon DEF Fill, Child, Parent
<1>9. Filled(t, f, e, l, r, q, t.color[d])
  <2>1. PICK k \in {"RED", "BLACK"} : k = t.color[d]
    BY <1>6
  <2>2. f = Fill(t, e, l, r, q, k)
    BY <1>8, <2>1
  <2>3. t \in RB!Trees /\ l \in RB!Place /\ r \in RB!Place /\ q \in RB!Place
    BY <1>1, <1>4, <1>5
  <2>4. Filled(t, f, e, l, r, q, k)
    BY <2>2, <2>3, FilledWrites
  <2> QED BY <2>1, <2>4
<1>10. PICK g : g = RB!Replace(f, q, d, e)
  OBVIOUS
<1>11. Replaced(f, g, q, RB!SideOf(f, q, d), e)
  BY <1>5, <1>9, <1>10, ReplaceWrites DEF Filled, RB!Place
<1>12. q # Null => RB!SideOf(f, q, d) = z
  <2>1. SUFFICES ASSUME q # Null PROVE RB!SideOf(f, q, d) = z
    OBVIOUS
  <2>2. RB!SideOf(t, q, d) \in RB!Sides /\ Child(t, RB!SideOf(t, q, d), q) = d /\ q \in J
    BY <1>5, <2>1, SideIsFound
  <2>3. RB!SideOf(t, q, d) = z
    BY <1>2, <2>2 DEF HungOn
  <2>4. Child(f, "LEFT", q) = Child(t, "LEFT", q)
    BY <1>1, <1>5, <2>2, <1>9 DEF Filled, Nodes
  <2>5. RB!SideOf(f, q, d) = RB!SideOf(t, q, d)
    BY <2>4 DEF RB!SideOf, Child
  <2> QED BY <2>3, <2>5
<1>13. PICK h : h = RB!SetParent(g, l, e)
  OBVIOUS
<1>14. ParentSet(g, h, l, e) /\ h \in RB!Trees
  <2>1. g \in RB!Trees /\ e \in RB!Place
    BY <1>11 DEF Replaced, RB!Place
  <2>2. ParentSet(g, h, l, e)
    BY <1>4, <1>13, <2>1, SetParentWrites
  <2> QED BY <2>2 DEF ParentSet
<1>15. v = RB!SetParent(h, r, e)
  BY <1>3, <1>5, <1>7, <1>10, <1>13, Zenon DEF RB!Substitute, Child, Parent
<1>16. ParentSet(h, v, r, e) /\ v \in RB!Trees
  <2>1. e \in RB!Place
    BY DEF RB!Place
  <2>2. ParentSet(h, v, r, e)
    BY <1>4, <1>14, <1>15, <2>1, SetParentWrites
  <2> QED BY <2>2 DEF ParentSet
<1>17. /\ Root(v) = Root(g) /\ \A x, n : Child(v, x, n) = Child(g, x, n)
       /\ v.color = f.color
  BY <1>11, <1>14, <1>16 DEF ParentSet, Replaced, Child
<1>18. \A n \in Keys : Parent(v, n) = IF n = r \/ n = l THEN e ELSE Parent(f, n)
  <2>1. \A n : Parent(g, n) = Parent(f, n)
    BY <1>11 DEF Replaced, Parent
  <2> QED BY <1>14, <1>16, <2>1 DEF ParentSet
<1>19. Root(v) = Renamed(d, e, Root(t))
  BY <1>5, <1>9, <1>11, <1>17 DEF Renamed, Replaced, Filled
<1>20. \A n \in Keys : v.color[n] = IF n = e THEN t.color[d] ELSE t.color[n]
  BY <1>9, <1>17 DEF Filled
<1>21. \A n \in Keys, x \in RB!Sides :
         Child(v, x, n) = IF n = q /\ x = z THEN e
                          ELSE IF n = e THEN IF x = "LEFT" THEN l ELSE r ELSE Child(t, x, n)
  <2>1. \A n \in Keys, x \in RB!Sides :
          Child(g, x, n) = IF n = q /\ x = z THEN e ELSE Child(f, x, n)
    BY <1>1, <1>11, <1>12, KeysFinite DEF Replaced
  <2>2. \A n \in Keys, x \in RB!Sides :
          Child(f, x, n) = IF n = e THEN IF x = "LEFT" THEN l ELSE r ELSE Child(t, x, n)
    BY <1>9 DEF Filled
  <2> QED BY <1>17, <2>1, <2>2
<1>22. \A n \in Keys : Parent(v, n) = IF n = r \/ n = l THEN e
                                      ELSE IF n = e THEN q ELSE Parent(t, n)
  BY <1>9, <1>18 DEF Filled
<1>23. ASSUME NEW n \in J
       PROVE  /\ Parent(v, Renamed(d, e, n)) = Renamed(d, e, Parent(t, n))
              /\ v.color[Renamed(d, e, n)] = t.color[n]
              /\ \A x \in RB!Sides :
                   Child(v, x, Renamed(d, e, n)) = Renamed(d, e, Child(t, x, n))
  <2>1. n \in Keys /\ n # e /\ n # Null
    BY <1>1 DEF Nodes
  <2>2. CASE n = d
    <3>1. Renamed(d, e, n) = e /\ e \notin {l, r}
      BY <1>1, <1>4, <2>2 DEF Renamed
    <3>2. Parent(v, e) = q /\ Renamed(d, e, Parent(t, n)) = q
      BY <1>5, <1>22, <2>2, <3>1 DEF Renamed
    <3>3. v.color[e] = t.color[n]
      BY <1>20, <2>2
    <3>4. ASSUME NEW x \in RB!Sides
          PROVE  Child(v, x, e) = Renamed(d, e, Child(t, x, n))
      <4>1. Child(v, x, e) = IF x = "LEFT" THEN l ELSE r
        BY <1>5, <1>21
      <4>2. Child(v, x, e) = Child(t, x, n) /\ Child(t, x, n) # d
        BY <1>1, <1>3, <1>4, <2>2, <4>1
      <4> QED BY <4>2 DEF Renamed
    <3> QED BY <3>1, <3>2, <3>3, <3>4
  <2>3. CASE n # d
    <3>1. Renamed(d, e, n) = n
      BY <2>3 DEF Renamed
    <3>2. v.color[n] = t.color[n]
      BY <1>20, <2>1
    <3>3. Parent(t, n) = d <=> n = l \/ n = r
      <4>1. ASSUME Parent(t, n) = d
            PROVE  n = l \/ n = r
        <5>1. n # Root(t)
          BY <1>1, <4>1, RootHasAll
        <5>2. \E x \in RB!Sides : Child(t, x, d) = n
          BY <4>1, <5>1 DEF Tree, Linked
        <5> QED BY <1>1, <1>3, <5>2
      <4>2. (n = l => Parent(t, n) = d) /\ (n = r => Parent(t, n) = d)
        BY <1>1, <1>3, <2>1, ParentIsOne
      <4> QED BY <4>1, <4>2
    <3>4. Parent(v, n) = Renamed(d, e, Parent(t, n))
      BY <1>22, <2>1, <3>3 DEF Renamed
    <3>5. ASSUME NEW x \in RB!Sides
          PROVE  Child(v, x, n) = Renamed(d, e, Child(t, x, n))
      <4>1. Child(t, x, n) = d <=> n = q /\ x = z
        BY <1>2, <1>5, <2>1 DEF HungOn
      <4> QED BY <1>21, <2>1, <4>1 DEF Renamed
    <3> QED BY <3>1, <3>2, <3>4, <3>5
  <2> QED BY <2>2, <2>3
<1>24. ASSUME NEW n \in Keys \ (J \cup {e})
       PROVE  /\ Parent(v, n) = Parent(t, n) /\ v.color[n] = t.color[n]
              /\ \A x \in RB!Sides : Child(v, x, n) = Child(t, x, n)
  <2>1. n \notin {e, l, r, q}
    BY <1>1, <1>4, <1>5, KeysFinite
  <2> QED BY <1>20, <1>21, <1>22, <2>1
<1> QED BY <1>16, <1>19, <1>23, <1>24 DEF Substituted

(* The other nodes lie on the same side of e as of d. *)
TakesPlace(J, d, e) ==
  \A m \in J : m # d => (m < d => m < e) /\ (d < m => e < m)

WithNew(T, d, e) == IF d \in T THEN (T \ {d}) \cup {e} ELSE T

Renaming(J, B, C, d, e) ==
  /\ C \in [RB!Place -> SUBSET WithNew(J, d, e)] /\ At(C, Null) = {}
  /\ \A n \in J : At(C, Renamed(d, e, n)) = WithNew(At(B, n), d, e)

(* The sets of nodes, by the new names *)
LEMMA RenamingExists ==
  ASSUME NEW J, NEW B, Nodes(J, B), NEW d \in J, NEW e \in Keys, e \notin J
  PROVE  \E C : Renaming(J, B, C, d, e)
<1> DEFINE F(n) == WithNew(At(B, n), d, e)
           C == [m \in RB!Place |-> IF m = e THEN F(d) ELSE IF m \in J /\ m # d THEN F(m) ELSE {}]
<1>1. /\ \A n \in J : At(B, n) \subseteq J /\ n \in RB!Place
      /\ Null \notin J /\ e # Null /\ e \in RB!Place /\ Null \in RB!Place
  BY KeysFinite DEF Nodes, RB!Place
<1>2. \A n \in J : F(n) \in SUBSET WithNew(J, d, e)
  BY <1>1 DEF WithNew
<1>3. C \in [RB!Place -> SUBSET WithNew(J, d, e)]
  <2> HIDE DEF F
  <2> QED BY <1>2
<1>4. At(C, Null) = {}
  BY <1>1 DEF At
<1>5. ASSUME NEW n \in J
      PROVE  At(C, Renamed(d, e, n)) = F(n)
  <2> HIDE DEF F
  <2> QED BY <1>1 DEF At, Renamed
<1> QED BY <1>3, <1>4, <1>5 DEF Renaming

(* Every node of v is the new name of one of t. *)
LEMMA NewNames ==
  ASSUME NEW J, Null \notin J, NEW d \in J, NEW e, e \notin J, e # Null
  PROVE  /\ \A n \in J \cup {Null} : /\ Renamed(d, e, n) \in WithNew(J, d, e) \cup {Null}
                                     /\ Renamed(d, e, n) = Null <=> n = Null
         /\ \A m \in WithNew(J, d, e) : \E n \in J : m = Renamed(d, e, n)
         /\ \A n \in J \cup {Null}, k \in J \cup {Null} :
              Renamed(d, e, n) = Renamed(d, e, k) => n = k
BY DEF Renamed, WithNew

(* The links are sound by the new names, ... *)
LEMMA SubstitutedLinks ==
  ASSUME NEW t, NEW v, NEW J, NEW B, Tree(t, J, B), NEW d, NEW e, Substituted(t, v, J, d, e)
  PROVE  Linked(v, WithNew(J, d, e))
<1>1. /\ Nodes(J, B) /\ Linked(t, J) /\ d \in J /\ e \in Keys /\ e \notin J /\ Null \notin J
      /\ e # Null /\ v \in RB!Trees
  BY HasNodes, KeysFinite DEF Substituted, Tree, Nodes
<1>2. /\ \A n \in J \cup {Null} : /\ Renamed(d, e, n) \in WithNew(J, d, e) \cup {Null}
                                  /\ Renamed(d, e, n) = Null <=> n = Null
      /\ \A m \in WithNew(J, d, e) : \E n \in J : m = Renamed(d, e, n)
      /\ \A n \in J \cup {Null}, k \in J \cup {Null} :
           Renamed(d, e, n) = Renamed(d, e, k) => n = k
  BY <1>1, NewNames
<1>3. /\ Root(v) = Renamed(d, e, Root(t))
      /\ \A n \in J : /\ Parent(v, Renamed(d, e, n)) = Renamed(d, e, Parent(t, n))
                      /\ \A x \in RB!Sides :
                           Child(v, x, Renamed(d, e, n)) = Renamed(d, e, Child(t, x, n))
  BY DEF Substituted
<1>4. WithNew(J, d, e) \in SUBSET Keys
  BY <1>1 DEF WithNew, Nodes
<1>5. /\ Root(v) \in WithNew(J, d, e) \cup {Null}
      /\ Root(v) # Null => Parent(v, Root(v)) = Null
  <2>1. Root(t) \in J \cup {Null} /\ (Root(t) # Null => Parent(t, Root(t)) = Null)
    BY <1>1 DEF Linked
  <2>2. Root(t) # Null => Root(t) \in J /\ Parent(v, Root(v)) = Renamed(d, e, Null)
    BY <1>3, <2>1
  <2>3. Renamed(d, e, Null) = Null
    BY <1>1 DEF Renamed
  <2> QED BY <1>2, <1>3, <2>1, <2>2, <2>3
<1>6. ASSUME NEW m \in WithNew(J, d, e), NEW x \in RB!Sides, NEW c, c = Child(v, x, m)
      PROVE  c \in WithNew(J, d, e) \cup {Null} /\ (c # Null => Parent(v, c) = m)
  <2>1. PICK n \in J : m = Renamed(d, e, n)
    BY <1>2
  <2>2. PICK k : k = Child(t, x, n)
    OBVIOUS
  <2>3. k \in J \cup {Null} /\ (k # Null => Parent(t, k) = n)
    BY <1>1, <2>2 DEF Linked
  <2>4. c = Renamed(d, e, k)
    BY <1>3, <1>6, <2>1, <2>2
  <2>5. c # Null => k \in J /\ Parent(v, c) = Renamed(d, e, n)
    BY <1>2, <1>3, <2>3, <2>4
  <2> QED BY <1>2, <2>1, <2>3, <2>4, <2>5
<1>7. ASSUME NEW m \in WithNew(J, d, e), m # Root(v)
      PROVE  /\ Parent(v, m) \in WithNew(J, d, e)
             /\ \E x \in RB!Sides : Child(v, x, Parent(v, m)) = m
  <2>1. PICK n \in J : m = Renamed(d, e, n)
    BY <1>2
  <2>2. n # Root(t)
    BY <1>3, <1>7, <2>1
  <2>3. PICK x \in RB!Sides, p \in J : p = Parent(t, n) /\ Child(t, x, p) = n
    BY <1>1, <2>2 DEF Linked
  <2>4. PICK r : r = Renamed(d, e, p)
    OBVIOUS
  <2>5. Parent(v, m) = r /\ Child(v, x, r) = m
    BY <1>3, <2>1, <2>3, <2>4
  <2>6. r \in WithNew(J, d, e)
    BY <1>1, <1>2, <2>3, <2>4
  <2> QED BY <2>5, <2>6
<1> QED BY <1>1, <1>4, <1>5, <1>6, <1>7 DEF Linked

(* ... and the nodes ordered. *)
LEMMA SubstitutedTree ==
  ASSUME NEW t, NEW v, NEW J, NEW B, Tree(t, J, B), NEW d, NEW e, Substituted(t, v, J, d, e),
         TakesPlace(J, d, e), NEW C, Renaming(J, B, C, d, e)
  PROVE  Tree(v, WithNew(J, d, e), C)
<1>1. /\ Nodes(J, B) /\ d \in J /\ e \in Keys /\ e \notin J /\ Null \notin J /\ J \subseteq Nat
      /\ e # Null /\ v \in RB!Trees /\ At(B, Null) = {} /\ \A n \in J : At(B, n) \subseteq J
  BY HasNodes, KeysFinite DEF Substituted, Nodes
<1>2. /\ \A n \in J \cup {Null} : /\ Renamed(d, e, n) \in WithNew(J, d, e) \cup {Null}
                                  /\ Renamed(d, e, n) = Null <=> n = Null
      /\ \A m \in WithNew(J, d, e) : \E n \in J : m = Renamed(d, e, n)
  BY <1>1, NewNames
<1>3. /\ Root(v) = Renamed(d, e, Root(t))
      /\ \A n \in J, x \in RB!Sides :
           Child(v, x, Renamed(d, e, n)) = Renamed(d, e, Child(t, x, n))
  BY DEF Substituted
<1>4. Linked(v, WithNew(J, d, e))
  BY SubstitutedLinks
<1>5. \A n \in J \cup {Null} : At(C, Renamed(d, e, n)) = WithNew(At(B, n), d, e)
  <2>1. Renamed(d, e, Null) = Null /\ WithNew(At(B, Null), d, e) = {}
    BY <1>1 DEF Renamed, WithNew
  <2> QED BY <2>1 DEF Renaming
<1>6. At(C, Root(v)) = WithNew(J, d, e)
  <2>1. Root(t) \in J \cup {Null} /\ At(B, Root(t)) = J
    BY RootHasAll
  <2> QED BY <1>3, <1>5, <2>1
<1>7. ASSUME NEW m \in WithNew(J, d, e)
      PROVE  At(C, m) = {m} \cup At(C, Child(v, "LEFT", m)) \cup At(C, Child(v, "RIGHT", m))
  <2>1. PICK n \in J : m = Renamed(d, e, n)
    BY <1>2
  <2>2. PICK l, r : l = Child(t, "LEFT", n) /\ r = Child(t, "RIGHT", n)
    OBVIOUS
  <2>3. /\ l \in J \cup {Null} /\ r \in J \cup {Null}
        /\ At(B, n) = {n} \cup At(B, l) \cup At(B, r)
    BY <2>2, Halves DEF Tree, Below, RB!Sides
  <2>4. At(C, Child(v, "LEFT", m)) = WithNew(At(B, l), d, e)
    BY <1>3, <1>5, <2>1, <2>2, <2>3 DEF RB!Sides
  <2>5. At(C, Child(v, "RIGHT", m)) = WithNew(At(B, r), d, e)
    BY <1>3, <1>5, <2>1, <2>2, <2>3 DEF RB!Sides
  <2>6. At(C, m) = WithNew(At(B, n), d, e)
    BY <1>5, <2>1
  <2>7. WithNew(At(B, n), d, e) = {m} \cup WithNew(At(B, l), d, e) \cup WithNew(At(B, r), d, e)
    <3>1. d \notin At(B, l) \/ d \notin At(B, r)
      <4>1. \A k \in At(B, l) : k < n
        BY <2>2 DEF Tree, Below, Before, RB!Sides
      <4>2. \A k \in At(B, r) : n < k
        BY <2>2 DEF Tree, Below, Before, RB!Sides
      <4> QED BY <1>1, <4>1, <4>2
    <3>2. n \notin At(B, l) /\ n \notin At(B, r)
      BY <2>2, Halves DEF RB!Sides
    <3> QED BY <2>1, <2>3, <3>1, <3>2 DEF Renamed, WithNew
  <2> QED BY <2>4, <2>5, <2>6, <2>7
<1>8. ASSUME NEW m \in WithNew(J, d, e), NEW x \in RB!Sides, NEW j \in At(C, Child(v, x, m))
      PROVE  Before(x, j, m)
  <2>1. PICK n \in J : m = Renamed(d, e, n)
    BY <1>2
  <2>2. PICK c : c = Child(t, x, n)
    OBVIOUS
  <2>3. c \in J \cup {Null} /\ n \notin At(B, c) /\ At(B, c) \subseteq J
    BY <1>1, <2>2, Halves
  <2>4. j \in WithNew(At(B, c), d, e)
    BY <1>3, <1>5, <1>8, <2>1, <2>2, <2>3
  <2>5. \A k \in At(B, c) : Before(x, k, n)
    BY <2>2 DEF Tree, Below
  <2>6. CASE d \in At(B, c) /\ j = e
    <3>1. n # d /\ m = n /\ Before(x, d, n)
      BY <2>1, <2>3, <2>5, <2>6 DEF Renamed
    <3> QED BY <2>6, <3>1 DEF TakesPlace, Before
  <2>7. CASE j \in At(B, c) /\ j # d
    <3>1. Before(x, j, n) /\ j \in J
      BY <2>3, <2>5, <2>7
    <3>2. CASE n = d
      BY <2>1, <2>7, <3>1, <3>2 DEF TakesPlace, Before, Renamed
    <3>3. CASE n # d
      BY <2>1, <3>1, <3>3 DEF Renamed
    <3> QED BY <3>2, <3>3
  <2> QED BY <1>1, <2>3, <2>4, <2>6, <2>7 DEF WithNew
<1> QED BY <1>4, <1>6, <1>7, <1>8 DEF Tree, Below, Renaming

(* The blank nodes stay blank. *)
LEMMA SubstitutedWhole ==
  ASSUME NEW t, NEW v, NEW J, NEW B, NEW S, Whole(t, J, B, S), NEW d, NEW e, e \notin S,
         Substituted(t, v, J, d, e), TakesPlace(J, d, e)
  PROVE  \E C : Whole(v, WithNew(J, d, e), C, S)
<1>1. /\ Tree(t, J, B) /\ Nodes(J, B) /\ S \in SUBSET (Keys \ J) /\ Bare(t, S)
      /\ d \in J /\ e \in Keys /\ e \notin J
  BY HasNodes DEF Whole, Substituted
<1>2. PICK C : Renaming(J, B, C, d, e)
  BY <1>1, RenamingExists
<1>3. Tree(v, WithNew(J, d, e), C)
  BY <1>1, <1>2, SubstitutedTree
<1>4. S \in SUBSET (Keys \ WithNew(J, d, e))
  BY <1>1 DEF WithNew
<1>5. \A n \in S : n \in Keys \ (J \cup {e})
  BY <1>1
<1>6. Bare(v, S)
  BY <1>1, <1>5 DEF Bare, Substituted
<1> QED BY <1>3, <1>4, <1>6 DEF Whole

(* The colors go with the names, ... *)
LEMMA RenamedColors ==
  ASSUME NEW t, NEW v, NEW J, NEW B, Tree(t, J, B), NEW d, NEW e, Substituted(t, v, J, d, e)
  PROVE  \A n \in J \cup {Null} : /\ RB!Red(v, Renamed(d, e, n)) <=> RB!Red(t, n)
                                  /\ Black(v, Renamed(d, e, n)) = Black(t, n)
<1>1. Null \notin J /\ e # Null /\ d \in J /\ e \notin J
  BY HasNodes, KeysFinite DEF Nodes, Substituted
<1>2. ASSUME NEW n \in J \cup {Null}
      PROVE  RB!Red(v, Renamed(d, e, n)) <=> RB!Red(t, n)
  <2>1. CASE n = Null
    BY <1>1, <2>1 DEF Renamed, RB!Red
  <2>2. CASE n \in J
    <3>1. v.color[Renamed(d, e, n)] = t.color[n]
      BY <2>2 DEF Substituted
    <3>2. Renamed(d, e, n) # Null /\ n # Null
      BY <1>1, <2>2 DEF Renamed
    <3> QED BY <3>1, <3>2 DEF RB!Red
  <2> QED BY <2>1, <2>2
<1> QED BY <1>2 DEF Black

(* ... so do red children of red nodes, ... *)
LEMMA RenamedCalm ==
  ASSUME NEW t, NEW v, NEW J, NEW B, Tree(t, J, B), NEW d, NEW e, Substituted(t, v, J, d, e),
         NEW m \in WithNew(J, d, e), NEW x \in RB!Sides,
         RB!Red(v, m), RB!Red(v, Child(v, x, m))
  PROVE  \E n \in J : /\ m = Renamed(d, e, n) /\ RB!Red(t, n) /\ RB!Red(t, Child(t, x, n))
                      /\ Child(v, x, m) = Renamed(d, e, Child(t, x, n))
<1>1. /\ Null \notin J /\ d \in J /\ e \notin J /\ e # Null
  BY HasNodes, KeysFinite DEF Nodes, Substituted
<1>2. PICK n \in J : m = Renamed(d, e, n)
  BY <1>1, NewNames
<1>3. PICK c : c = Child(t, x, n)
  OBVIOUS
<1>4. Child(v, x, m) = Renamed(d, e, c) /\ c \in J \cup {Null}
  BY <1>2, <1>3, Halves DEF Substituted
<1>5. RB!Red(t, n) /\ RB!Red(t, c)
  BY <1>2, <1>4, RenamedColors
<1> QED BY <1>2, <1>3, <1>4, <1>5

(* ... and so do heights. *)
LEMMA RenamedHeights ==
  ASSUME NEW t, NEW v, NEW J, NEW B, Tree(t, J, B), NEW d, NEW e, Substituted(t, v, J, d, e),
         NEW H, NEW p \in J \cup {Null}, NEW s, Lacking(t, J, H, p, s),
         NEW q, q = Renamed(d, e, p)
  PROVE  \E G : Lacking(v, WithNew(J, d, e), G, q, s)
<1>1. /\ Nodes(J, B) /\ Null \notin J /\ d \in J /\ e \notin J /\ e # Null /\ e \in RB!Place
      /\ d \in RB!Place /\ \A n \in J : n \in RB!Place
  BY HasNodes, KeysFinite DEF Nodes, Substituted, RB!Place
<1>2. H \in [RB!Place -> Nat] /\ At(H, Null) = 0
  BY DEF Lacking
<1>3. PICK h \in Nat : h = At(H, d)
  BY <1>1, <1>2, HeightsAreNumbers
<1>4. PICK G : Adjusted(H, G, e, h, Null, 0)
  <2>1. e # Null /\ Null \in RB!Place
    BY <1>1 DEF Nodes
  <2>2. H \in [RB!Place -> Nat] /\ e \in RB!Place /\ Null \in RB!Place /\ e # Null /\ h \in Nat
    BY <1>1, <1>2, <2>1
  <2> QED BY <2>2, TwoHeights
<1>5. G \in [RB!Place -> Nat] /\ \A n \in J \cup {Null} : At(G, Renamed(d, e, n)) = At(H, n)
  BY <1>1, <1>2, <1>3, <1>4 DEF Adjusted, Renamed
<1>6. At(G, Null) = 0
  BY <1>4 DEF Adjusted
<1>7. ASSUME NEW m \in WithNew(J, d, e), NEW x \in RB!Sides
      PROVE  At(G, m) = At(G, Child(v, x, m)) + Short(m, x, q, s) + Black(v, m)
  <2>1. PICK n \in J : m = Renamed(d, e, n)
    BY <1>1, NewNames
  <2>2. PICK c : c = Child(t, x, n)
    OBVIOUS
  <2>3. Child(v, x, m) = Renamed(d, e, c) /\ c \in J \cup {Null}
    BY <2>1, <2>2, Halves DEF Substituted
  <2>4. At(H, n) = At(H, c) + Short(n, x, p, s) + Black(t, n)
    BY <2>2 DEF Lacking
  <2>5. m = q <=> n = p
    BY <1>1, <2>1 DEF Renamed
  <2>6. Short(m, x, q, s) = Short(n, x, p, s)
    BY <2>5 DEF Short
  <2>7. Black(v, m) = Black(t, n)
    BY <2>1, RenamedColors
  <2>8. At(G, m) = At(H, n) /\ At(G, Child(v, x, m)) = At(H, c)
    BY <1>5, <2>1, <2>3
  <2> QED BY <2>4, <2>6, <2>7, <2>8
<1> QED BY <1>5, <1>6, <1>7 DEF Lacking

(* Where all ways are equally long, none is short. *)
LEMMA LevelLacksNothing ==
  ASSUME NEW t, NEW I, NEW B, NEW H, NEW s, Tree(t, I, B), Level(t, I, H)
  PROVE  Lacking(t, I, H, Null, s)
<1>1. H \in [RB!Place -> Nat] /\ At(H, Null) = 0
  BY DEF Level
<1>2. ASSUME NEW n \in I, NEW x \in RB!Sides
      PROVE  At(H, n) = At(H, Child(t, x, n)) + Short(n, x, Null, s) + Black(t, n)
  <2>1. PICK m : m = Child(t, x, n)
    OBVIOUS
  <2>2. At(H, n) = At(H, m) + Black(t, n) /\ At(H, m) \in Nat
    BY <2>1, LevelAt
  <2>3. Short(n, x, Null, s) = 0
    BY HasNodes DEF Short, Nodes
  <2> QED BY <2>1, <2>2, <2>3
<1> QED BY <1>1, <1>2 DEF Lacking

(* The new names leave a red-black tree one, ... *)
LEMMA SubstitutedBalance ==
  ASSUME NEW t, NEW v, NEW J, NEW B, NEW H, NEW S, Balance(t, J, B, H, S), NEW d, NEW e,
         e \notin S, Substituted(t, v, J, d, e), TakesPlace(J, d, e)
  PROVE  \E C, G : Balance(v, WithNew(J, d, e), C, G, S)
<1>1. /\ Whole(t, J, B, S) /\ Tree(t, J, B) /\ Level(t, J, H) /\ Calm(t, J, {}, {})
      /\ ~RB!Red(t, Root(t)) /\ Null \notin J /\ d \in J /\ e # Null /\ e \notin J
  BY HasNodes, KeysFinite DEF Balance, Whole, Nodes, Substituted
<1>2. PICK C : Whole(v, WithNew(J, d, e), C, S)
  BY <1>1, SubstitutedWhole
<1>3. Renamed(d, e, Null) = Null
  BY <1>1 DEF Renamed
<1>4. Lacking(t, J, H, Null, "LEFT")
  BY <1>1, LevelLacksNothing
<1>5. PICK G : Lacking(v, WithNew(J, d, e), G, Null, "LEFT")
  BY <1>1, <1>3, <1>4, RenamedHeights
<1>6. Level(v, WithNew(J, d, e), G)
  BY <1>2, <1>5, NothingLacks DEF Whole
<1>7. Calm(v, WithNew(J, d, e), {}, {})
  BY <1>1, RenamedCalm DEF Calm
<1>8. ~RB!Red(v, Root(v))
  <2>1. Root(t) \in J \cup {Null} /\ Root(v) = Renamed(d, e, Root(t))
    BY <1>1 DEF Tree, Linked, Substituted
  <2> QED BY <1>1, <2>1, RenamedColors
<1> QED BY <1>2, <1>6, <1>7, <1>8 DEF Balance

(* ... and a short path where it is. *)
LEMMA SubstitutedShort ==
  ASSUME NEW t, NEW v, NEW J, NEW B, NEW H, NEW S, NEW p, NEW s, NEW c,
         OneShort(t, J, B, H, S, p, s, c), NEW d, NEW e,
         e \notin S, Substituted(t, v, J, d, e), TakesPlace(J, d, e)
  PROVE  \E C, G : OneShort(v, WithNew(J, d, e), C, G, S, Renamed(d, e, p), s, Renamed(d, e, c))
<1>1. /\ Whole(t, J, B, S) /\ Tree(t, J, B) /\ Lacking(t, J, H, p, s) /\ Calm(t, J, {c}, {c})
      /\ ~RB!Red(t, Root(t)) /\ Null \notin J /\ d \in J /\ e # Null /\ e \notin J
      /\ p \in J /\ s \in RB!Sides /\ c = Child(t, s, p)
  BY HasNodes, KeysFinite DEF OneShort, Whole, Nodes, Substituted
<1>2. PICK C : Whole(v, WithNew(J, d, e), C, S)
  BY <1>1, SubstitutedWhole
<1>3. PICK q, f : q = Renamed(d, e, p) /\ f = Renamed(d, e, c)
  OBVIOUS
<1>4. PICK G : Lacking(v, WithNew(J, d, e), G, q, s)
  BY <1>1, <1>3, RenamedHeights
<1>5. Calm(v, WithNew(J, d, e), {f}, {f})
  <2> SUFFICES ASSUME NEW m \in WithNew(J, d, e), NEW x \in RB!Sides,
                      RB!Red(v, m), RB!Red(v, Child(v, x, m))
               PROVE  m = f \/ Child(v, x, m) = f
    BY DEF Calm
  <2>1. PICK n \in J : /\ m = Renamed(d, e, n) /\ RB!Red(t, n) /\ RB!Red(t, Child(t, x, n))
                       /\ Child(v, x, m) = Renamed(d, e, Child(t, x, n))
    BY <1>1, RenamedCalm
  <2>2. n = c \/ Child(t, x, n) = c
    BY <1>1, <2>1 DEF Calm
  <2> QED BY <1>3, <2>1, <2>2
<1>6. ~RB!Red(v, Root(v))
  <2>1. Root(t) \in J \cup {Null} /\ Root(v) = Renamed(d, e, Root(t))
    BY <1>1 DEF Tree, Linked, Substituted
  <2> QED BY <1>1, <2>1, RenamedColors
<1>7. q \in WithNew(J, d, e) /\ f = Child(v, s, q)
  BY <1>1, <1>3 DEF Substituted, Renamed, WithNew
<1>8. OneShort(v, WithNew(J, d, e), C, G, S, q, s, f)
  BY <1>1, <1>2, <1>4, <1>5, <1>6, <1>7 DEF OneShort
<1> QED BY <1>3, <1>8


------------------------------------------------------------------------------
(* RB_REMOVE *)

(* What remains without a node that has one child at most *)
LEMMA RemovesLeaf ==
  ASSUME NEW t, NEW I, NEW B, NEW H, NEW S, Balance(t, I, B, H, S), NEW x \in I,
         NEW y \in RB!Sides, Child(t, y, x) = Null
  PROVE  \E C, G : Balance(RB!Remove(t, x), I \ {x}, C, G, S)
<1>1. Whole(t, I, B, S) /\ Tree(t, I, B) /\ x \in Keys
  BY HasNodes DEF Balance, Whole, Nodes
<1>2. PICK c, u : c = RB!OnlyChild(t, x) /\ u = RB!Unlink(t, x)
  OBVIOUS
<1>3. PICK q, z : Unlinked(t, u, I, B, x, c, q, z)
  BY <1>1, <1>2, UnlinkWrites
<1>4. /\ q = Parent(t, x) /\ q \in RB!Place /\ c \in RB!Place /\ u \in RB!Trees
      /\ t.color[x] \in {"RED", "BLACK"}
  BY <1>1, <1>3, HasNodes, TypeOfTrees DEF Unlinked, HungOn, Nodes, RB!Place
<1>5. PICK C : Whole(u, I \ {x}, C, S)
  BY <1>1, <1>3, UnlinkedWhole
<1>6. RB!Remove(t, x) = IF t.color[x] = "BLACK" THEN RB!RemoveColor(u, q, c) ELSE u
  <2>1. ~(\A s \in RB!Sides : t.child[s][x] # Null)
    BY DEF Child
  <2> QED BY <1>2, <1>4, <2>1 DEF RB!Remove, Parent
<1>7. CASE t.color[x] # "BLACK"
  <2>1. Balance(u, I \ {x}, C, H, S)
    BY <1>3, <1>5, <1>7, UnlinkedColors
  <2> QED BY <1>6, <1>7, <2>1
<1>8. CASE t.color[x] = "BLACK" /\ q = Null
  <2>1. AtRoot(u, I \ {x}, C, H, S, c)
    BY <1>3, <1>5, <1>8, UnlinkedColors
  <2> QED BY <1>4, <1>6, <1>8, <2>1, RemoveColors
<1>9. CASE t.color[x] = "BLACK" /\ q # Null
  <2>1. OneShort(u, I \ {x}, C, H, S, q, z, c)
    BY <1>3, <1>5, <1>9, UnlinkedColors
  <2> QED BY <1>4, <1>6, <1>9, <2>1, RemoveColors
<1> QED BY <1>7, <1>8, <1>9

(* The node that follows old leaves its place for that of old. *)
LEMMA RemovesInner ==
  ASSUME NEW t, NEW I, NEW B, NEW H, NEW S, Balance(t, I, B, H, S), NEW old \in I,
         \A s \in RB!Sides : Child(t, s, old) # Null
  PROVE  \E C, G : Balance(RB!Remove(t, old), I \ {old}, C, G, S)
<1>1. /\ Whole(t, I, B, S) /\ Tree(t, I, B) /\ old \in Keys /\ I \subseteq Nat /\ I \subseteq Keys
      /\ Null \notin I /\ "LEFT" \in RB!Sides /\ "RIGHT" \in RB!Sides
      /\ S \in SUBSET (Keys \ I)
  BY HasNodes DEF Balance, Whole, Nodes, RB!Sides
<1>2. PICK a, x : a = Child(t, "RIGHT", old) /\ x = RB!Outermost(t, a, "LEFT")
  OBVIOUS
<1>3. x \in At(B, a) /\ Child(t, "LEFT", x) = Null /\ IsNext(I, old, x) /\ x # Null
  BY <1>1, <1>2, SuccessorBelow
<1>4. x \in I /\ old < x /\ x # old /\ \A j \in I : j <= old \/ x <= j
  BY <1>1, <1>3 DEF IsNext
<1>5. PICK c, u : c = RB!OnlyChild(t, x) /\ u = RB!Unlink(t, x)
  OBVIOUS
<1>6. PICK q, z : Unlinked(t, u, I, B, x, c, q, z)
  BY <1>1, <1>3, <1>4, <1>5, UnlinkWrites
<1>7. PICK J : J = I \ {x}
  OBVIOUS
<1>8. PICK C : Whole(u, J, C, S)
  BY <1>1, <1>6, <1>7, UnlinkedWhole
<1>9. old \in J /\ x \notin J /\ x \notin S /\ x \in Keys /\ TakesPlace(J, old, x)
      /\ WithNew(J, old, x) = I \ {old}
  BY <1>1, <1>4, <1>7 DEF TakesPlace, WithNew
<1>10. PICK v : v = RB!Substitute(u, old, x)
  OBVIOUS
<1>11. Substituted(u, v, J, old, x)
  BY <1>8, <1>9, <1>10, SubstituteWrites DEF Whole
<1>12. /\ q = Parent(t, x) /\ u \in RB!Trees /\ q \in I \cup {Null}
       /\ t.color[x] \in {"RED", "BLACK"}
  BY <1>1, <1>4, <1>6, HasNodes, TypeOfTrees DEF Unlinked, HungOn, Nodes
<1>13. RB!Remove(t, old) = IF t.color[x] = "BLACK"
                           THEN RB!RemoveColor(v, Renamed(old, x, q), c) ELSE v
  <2>1. \A s \in RB!Sides : t.child[s][old] # Null
    BY DEF Child
  <2> QED BY <1>2, <1>5, <1>10, <1>12, <2>1 DEF RB!Remove, Child, Parent, Renamed
<1>14. q # Null
  <2>1. x # Root(t)
    <3>1. PICK b : b = At(B, old)
      OBVIOUS
    <3>2. At(B, a) \subseteq At(B, old) /\ old \notin At(B, a) /\ old \in At(B, Root(t)) /\ a \in I
      BY <1>1, <1>2, Halves, RootHasAll
    <3>3. At(B, x) \subseteq At(B, a)
      BY <1>1, <1>3, <3>2, BelowBelow
    <3> QED BY <3>2, <3>3
  <2> QED BY <1>1, <1>6, <2>1 DEF Unlinked, HungOn
<1>15. CASE t.color[x] # "BLACK"
  <2>1. Balance(u, J, C, H, S)
    BY <1>6, <1>7, <1>8, <1>15, UnlinkedColors
  <2>2. \E D, G : Balance(v, WithNew(J, old, x), D, G, S)
    BY <1>9, <1>11, <2>1, SubstitutedBalance
  <2> QED BY <1>9, <1>13, <1>15, <2>2
<1>16. CASE t.color[x] = "BLACK"
  <2>1. OneShort(u, J, C, H, S, q, z, c)
    BY <1>6, <1>7, <1>8, <1>14, <1>16, UnlinkedColors
  <2>2. PICK p, d : p = Renamed(old, x, q) /\ d = Renamed(old, x, c)
    OBVIOUS
  <2>3. \E D, G : OneShort(v, I \ {old}, D, G, S, p, z, d)
    BY <1>9, <1>11, <2>1, <2>2, SubstitutedShort
  <2>4. PICK D, G : OneShort(v, I \ {old}, D, G, S, p, z, d)
    BY <2>3
  <2>5. d = c
    <3>1. old \notin At(B, x)
      <4>1. At(B, x) \subseteq At(B, a) /\ old \notin At(B, a)
        BY <1>1, <1>2, <1>3, Halves, BelowBelow
      <4> QED BY <4>1
    <3>2. c # old
      BY <1>1, <1>6, <3>1, HasNodes DEF Unlinked, Nodes
    <3> QED BY <2>2, <3>2 DEF Renamed
  <2>6. v \in RB!Trees /\ p \in RB!Place /\ c \in RB!Place
    BY <1>1, <1>4, <1>6, <1>11, <1>12, <2>2 DEF Substituted, Unlinked, Renamed, RB!Place
  <2>7. \E E, F : Balance(RB!RemoveColor(v, p, c), I \ {old}, E, F, S)
    BY <2>4, <2>5, <2>6, RemoveColors
  <2> QED BY <1>13, <1>16, <2>2, <2>7
<1> QED BY <1>15, <1>16

(* RB_REMOVE keeps a red-black tree one, of the other nodes. *)
LEMMA Removes ==
  ASSUME NEW t, NEW I, NEW B, NEW H, NEW S, Balance(t, I, B, H, S), NEW old \in I
  PROVE  \E C, G : Balance(RB!Remove(t, old), I \ {old}, C, G, S)
  BY RemovesLeaf, RemovesInner

(* The node that left becomes a blank one. *)
LEMMA Forgets ==
  ASSUME NEW t, NEW I, NEW B, NEW H, NEW S, Balance(t, I, B, H, S), NEW k \in Keys,
         k \notin I, NEW u, u = Forget(t, k)
  PROVE  Balance(u, I, B, H, S \cup {k})
<1>1. /\ Whole(t, I, B, S) /\ Tree(t, I, B) /\ t \in RB!Trees /\ I \subseteq Keys /\ k # Null
      /\ Null \in RB!Place /\ Null \notin I
  BY HasNodes, KeysFinite DEF Balance, Whole, Nodes
<1>2. Filled(t, u, k, Null, Null, Null, "RED")
  BY <1>1, FilledWrites DEF Forget, Fill
<1>3. /\ u \in RB!Trees /\ Root(u) = Root(t)
      /\ \A n \in I : /\ Parent(u, n) = Parent(t, n) /\ u.color[n] = t.color[n]
                      /\ \A x \in RB!Sides : Child(u, x, n) = Child(t, x, n)
  BY <1>1, <1>2 DEF Filled
<1>4. \A n \in I \cup {Null} : RB!Red(u, n) <=> RB!Red(t, n)
  BY <1>3 DEF RB!Red
<1>5. Tree(u, I, B)
  <2>1. Linked(u, I)
    <3>1. Root(t) \in I \cup {Null}
      BY <1>1 DEF Tree, Linked
    <3> QED BY <1>1, <1>3, <3>1 DEF Tree, Linked
  <2>2. Below(u, I, B)
    <3>1. "LEFT" \in RB!Sides /\ "RIGHT" \in RB!Sides
      BY DEF RB!Sides
    <3> QED BY <1>1, <1>3, <3>1 DEF Tree, Below
  <2> QED BY <2>1, <2>2 DEF Tree
<1>6. Bare(u, S \cup {k})
  <2>1. S \subseteq Keys /\ Bare(t, S)
    BY <1>1 DEF Whole
  <2> QED BY <1>2, <2>1 DEF Bare, Filled
<1>7. Whole(u, I, B, S \cup {k})
  BY <1>1, <1>5, <1>6 DEF Whole
<1>8. \A n \in I, x \in RB!Sides : Child(t, x, n) \in I \cup {Null}
  BY <1>1, Halves
<1>9. Level(u, I, H)
  BY <1>3, <1>4, <1>8 DEF Balance, Level, Black
<1>10. Calm(u, I, {}, {})
  BY <1>3, <1>4, <1>8 DEF Balance, Calm
<1>11. ~RB!Red(u, Root(u))
  BY <1>1, <1>3, <1>4 DEF Balance, Tree, Linked
<1> QED BY <1>7, <1>9, <1>10, <1>11 DEF Balance


------------------------------------------------------------------------------
(* What InTree and BlackHeight say of a red-black tree *)

(* A set to which a node belongs as soon as its children do has them all. *)
LEMMA FromTheLeaves ==
  ASSUME NEW t, NEW I, NEW B, Tree(t, I, B), NEW T \in SUBSET I,
         \A n \in I : (\A s \in RB!Sides : Child(t, s, n) \in T \cup {Null}) => n \in T
  PROVE  T = I
<1> SUFFICES ASSUME I \ T # {} PROVE FALSE
  OBVIOUS
<1>1. \E y \in I \ T : \A z \in I \ T : ~(At(B, z) \subseteq At(B, y) /\ y \notin At(B, z))
  BY LowestOf
<1>2. PICK y \in I \ T : \A z \in I \ T : ~(At(B, z) \subseteq At(B, y) /\ y \notin At(B, z))
  BY <1>1
<1>3. ASSUME NEW s \in RB!Sides
      PROVE  Child(t, s, y) \in T \cup {Null}
  <2>1. /\ Child(t, s, y) \in I \cup {Null} /\ y \notin At(B, Child(t, s, y))
        /\ At(B, Child(t, s, y)) \subseteq At(B, y)
    BY Halves
  <2> QED BY <1>2, <2>1
<1> QED BY <1>2, <1>3

(* The function of InTree *)
Gathers(t, F) ==
  F = [n \in RB!Place |->
         IF n = Null THEN {}
         ELSE {n} \cup F[t.child["LEFT"][n]] \cup F[t.child["RIGHT"][n]]]

(* There is a function that InTree means, ... *)
LEMMA GathersSome ==
  ASSUME NEW t, NEW I, NEW B, Whole(t, I, B, Keys \ I)
  PROVE  \E F : Gathers(t, F)
<1>1. Tree(t, I, B) /\ Nodes(I, B) /\ Bare(t, Keys \ I)
  BY HasNodes DEF Whole
<1> DEFINE F == [n \in RB!Place |-> IF n \in I \cup {Null} THEN At(B, n) ELSE {n}]
<1>2. ASSUME NEW n \in RB!Place
      PROVE  F[n] = IF n = Null THEN {}
                    ELSE {n} \cup F[Child(t, "LEFT", n)] \cup F[Child(t, "RIGHT", n)]
  <2>1. CASE n = Null
    BY <1>1, <2>1 DEF Nodes
  <2>2. CASE n \in I
    <3>1. /\ Child(t, "LEFT", n) \in I \cup {Null} /\ Child(t, "RIGHT", n) \in I \cup {Null}
          /\ At(B, n) = {n} \cup At(B, Child(t, "LEFT", n)) \cup At(B, Child(t, "RIGHT", n))
      BY <1>1, <2>2 DEF Tree, Linked, Below, RB!Sides
    <3>2. F[Child(t, "LEFT", n)] = At(B, Child(t, "LEFT", n))
      BY <1>1, <3>1 DEF Nodes
    <3>3. F[Child(t, "RIGHT", n)] = At(B, Child(t, "RIGHT", n))
      BY <1>1, <3>1 DEF Nodes
    <3>4. n # Null /\ F[n] = At(B, n)
      BY <1>1, <2>2 DEF Nodes
    <3> HIDE DEF F
    <3> QED BY <3>1, <3>2, <3>3, <3>4
  <2>3. CASE n \in Keys \ I
    <3>1. Child(t, "LEFT", n) = Null /\ Child(t, "RIGHT", n) = Null
      BY <1>1, <2>3 DEF Bare, RB!Sides
    <3>2. F[Null] = {} /\ F[n] = {n} /\ n # Null
      BY <1>1, <2>3 DEF Nodes
    <3> HIDE DEF F
    <3> QED BY <3>1, <3>2
  <2> QED BY <2>1, <2>2, <2>3 DEF RB!Place
<1>3. F = [n \in RB!Place |-> IF n = Null THEN {}
             ELSE {n} \cup F[Child(t, "LEFT", n)] \cup F[Child(t, "RIGHT", n)]]
  <2>1. F = [n \in RB!Place |-> F[n]]
    OBVIOUS
  <2> HIDE DEF F
  <2> QED BY <1>2, <2>1
<1> HIDE DEF F
<1>4. Gathers(t, F)
  BY <1>3 DEF Gathers, Child
<1> QED BY <1>4

(* ... and it finds the nodes of the tree. *)
LEMMA InTreeIs ==
  ASSUME NEW t, NEW I, NEW B, Whole(t, I, B, Keys \ I)
  PROVE  RB!InTree(t) = I
<1>1. Tree(t, I, B) /\ Nodes(I, B)
  BY HasNodes DEF Whole
<1>2. PICK F : Gathers(t, F) /\ RB!InTree(t) = F[Root(t)]
  <2> DEFINE f == CHOOSE F : Gathers(t, F)
  <2>1. Gathers(t, f)
    BY GathersSome
  <2>2. RB!InTree(t) = f[Root(t)]
    BY Zenon DEF RB!InTree, Gathers, Root
  <2> QED BY <2>1, <2>2
<1>3. ASSUME NEW n \in RB!Place
      PROVE  F[n] = IF n = Null THEN {}
                    ELSE {n} \cup F[Child(t, "LEFT", n)] \cup F[Child(t, "RIGHT", n)]
  BY <1>2 DEF Gathers, Child
<1> DEFINE T == {n \in I : F[n] = At(B, n)}
<1>4. F[Null] = At(B, Null)
  BY <1>1, <1>3 DEF Nodes
<1>5. ASSUME NEW n \in I, \A s \in RB!Sides : Child(t, s, n) \in T \cup {Null}
      PROVE  n \in T
  <2>1. F[Child(t, "LEFT", n)] = At(B, Child(t, "LEFT", n))
    BY <1>4, <1>5 DEF RB!Sides
  <2>2. F[Child(t, "RIGHT", n)] = At(B, Child(t, "RIGHT", n))
    BY <1>4, <1>5 DEF RB!Sides
  <2>3. At(B, n) = {n} \cup At(B, Child(t, "LEFT", n)) \cup At(B, Child(t, "RIGHT", n))
    BY <1>1 DEF Tree, Below
  <2>4. n \in RB!Place /\ n # Null
    BY <1>1 DEF Nodes
  <2>5. F[n] = At(B, n)
    BY <1>3, <2>1, <2>2, <2>3, <2>4
  <2> QED BY <2>5
<1>6. T = I
  <2> HIDE DEF T
  <2>1. T \in SUBSET I
    BY DEF T
  <2> QED BY <1>1, <1>5, <2>1, FromTheLeaves
<1>7. Root(t) \in I \cup {Null} /\ At(B, Root(t)) = I
  BY <1>1, RootHasAll
<1>8. F[Root(t)] = At(B, Root(t))
  BY <1>4, <1>6, <1>7
<1> QED BY <1>2, <1>7, <1>8

(* The function of BlackHeight *)
Counts(t, F) ==
  F = [m \in RB!Place |->
         IF m = Null THEN 0
         ELSE LET h == F[t.child["LEFT"][m]]
              IN  IF h # F[t.child["RIGHT"][m]] \/ h = -1 THEN -1
                  ELSE IF RB!Red(t, m) THEN h ELSE h + 1]

(* What it makes of the counts of the two children *)
Counted(t, m, h, k) ==
  IF m = Null THEN 0 ELSE IF h # k \/ h = -1 THEN -1 ELSE IF RB!Red(t, m) THEN h ELSE h + 1

(* BlackHeight adds up the heights. *)
LEMMA CountedLevel ==
  ASSUME NEW t, NEW I, NEW B, NEW H, Tree(t, I, B), Level(t, I, H), NEW n \in I,
         NEW h, h = At(H, Child(t, "LEFT", n)), NEW k, k = At(H, Child(t, "RIGHT", n))
  PROVE  Counted(t, n, h, k) = At(H, n)
<1>1. PICK a, b : a = Child(t, "LEFT", n) /\ b = Child(t, "RIGHT", n)
  OBVIOUS
<1>2. At(H, n) = h + Black(t, n) /\ h \in Nat
  BY <1>1, LevelAt DEF RB!Sides
<1>3. At(H, n) = k + Black(t, n) /\ k \in Nat
  BY <1>1, LevelAt DEF RB!Sides
<1>4. n # Null
  BY HasNodes DEF Nodes
<1> QED BY <1>2, <1>3, <1>4 DEF Counted, Black

(* There is a function that BlackHeight means, ... *)
LEMMA CountsSome ==
  ASSUME NEW t, NEW I, NEW B, NEW H, Whole(t, I, B, Keys \ I), Level(t, I, H)
  PROVE  \E F : Counts(t, F)
<1>1. Tree(t, I, B) /\ Nodes(I, B) /\ Bare(t, Keys \ I)
  BY HasNodes DEF Whole
<1> DEFINE F == [n \in RB!Place |-> IF n \in I THEN At(H, n) ELSE 0]
<1>2. ASSUME NEW n \in RB!Place
      PROVE  F[n] = Counted(t, n, F[Child(t, "LEFT", n)], F[Child(t, "RIGHT", n)])
  <2>1. F[Null] = 0 /\ At(H, Null) = 0
    BY <1>1 DEF Nodes, Level
  <2>2. CASE n = Null
    BY <2>1, <2>2 DEF Counted
  <2>3. CASE n \in I
    <3>1. Child(t, "LEFT", n) \in I \cup {Null} /\ Child(t, "RIGHT", n) \in I \cup {Null}
      BY <1>1, <2>3 DEF Tree, Linked, RB!Sides
    <3>2. F[Child(t, "LEFT", n)] = At(H, Child(t, "LEFT", n))
      BY <1>1, <2>1, <3>1 DEF Nodes
    <3>3. F[Child(t, "RIGHT", n)] = At(H, Child(t, "RIGHT", n))
      BY <1>1, <2>1, <3>1 DEF Nodes
    <3>4. F[n] = At(H, n)
      BY <1>1, <2>3 DEF Nodes
    <3> HIDE DEF F
    <3> QED BY <1>1, <2>3, <3>2, <3>3, <3>4, CountedLevel
  <2>4. CASE n \in Keys \ I
    <3>1. Child(t, "LEFT", n) = Null /\ Child(t, "RIGHT", n) = Null /\ RB!Red(t, n) /\ n # Null
      BY <1>1, <2>4 DEF Bare, RB!Sides, RB!Red, Nodes
    <3>2. F[n] = 0
      BY <1>1, <2>4 DEF Nodes
    <3> HIDE DEF F
    <3> QED BY <2>1, <3>1, <3>2 DEF Counted
  <2> QED BY <2>2, <2>3, <2>4 DEF RB!Place
<1>3. F = [n \in RB!Place |-> Counted(t, n, F[Child(t, "LEFT", n)], F[Child(t, "RIGHT", n)])]
  <2>1. F = [n \in RB!Place |-> F[n]]
    OBVIOUS
  <2> HIDE DEF F
  <2> QED BY <1>2, <2>1
<1> HIDE DEF F
<1>4. Counts(t, F)
  BY <1>3 DEF Counts, Counted, Child
<1> QED BY <1>4

(* ... and it finds the height of the root. *)
LEMMA BlackHeightIs ==
  ASSUME NEW t, NEW I, NEW B, NEW H, Whole(t, I, B, Keys \ I), Level(t, I, H)
  PROVE  RB!BlackHeight(t, Root(t)) = At(H, Root(t))
<1>1. Tree(t, I, B) /\ Nodes(I, B) /\ At(H, Null) = 0
  BY HasNodes DEF Whole, Level
<1>2. PICK F : Counts(t, F) /\ RB!BlackHeight(t, Root(t)) = F[Root(t)]
  <2> DEFINE f == CHOOSE F : Counts(t, F)
  <2>1. Counts(t, f)
    BY CountsSome
  <2>2. RB!BlackHeight(t, Root(t)) = f[Root(t)]
    BY Zenon DEF RB!BlackHeight, Counts
  <2> QED BY <2>1, <2>2
<1>3. ASSUME NEW n \in RB!Place
      PROVE  F[n] = Counted(t, n, F[Child(t, "LEFT", n)], F[Child(t, "RIGHT", n)])
  BY <1>2 DEF Counts, Counted, Child
<1> DEFINE T == {n \in I : F[n] = At(H, n)}
<1>4. F[Null] = At(H, Null)
  BY <1>1, <1>3 DEF Nodes, Counted
<1>5. ASSUME NEW n \in I, \A s \in RB!Sides : Child(t, s, n) \in T \cup {Null}
      PROVE  n \in T
  <2>1. F[Child(t, "LEFT", n)] = At(H, Child(t, "LEFT", n))
    BY <1>4, <1>5 DEF RB!Sides
  <2>2. F[Child(t, "RIGHT", n)] = At(H, Child(t, "RIGHT", n))
    BY <1>4, <1>5 DEF RB!Sides
  <2>3. n \in RB!Place
    BY <1>1 DEF Nodes
  <2>4. F[n] = Counted(t, n, F[Child(t, "LEFT", n)], F[Child(t, "RIGHT", n)])
    BY <1>3, <2>3
  <2>5. F[n] = At(H, n)
    BY <1>1, <2>1, <2>2, <2>4, CountedLevel
  <2> QED BY <2>5
<1>6. T = I
  <2> HIDE DEF T
  <2>1. T \in SUBSET I
    BY DEF T
  <2> QED BY <1>1, <1>5, <2>1, FromTheLeaves
<1>7. Root(t) \in I \cup {Null}
  BY <1>1, RootHasAll
<1> QED BY <1>2, <1>4, <1>6, <1>7


------------------------------------------------------------------------------
(* The invariant of the map *)

(* A tree without a root, and without anything in its nodes, is empty. *)
LEMMA BareIsEmpty ==
  ASSUME NEW t \in RB!Trees, Root(t) = Null, Bare(t, Keys)
  PROVE  t = RB!EmptyTree
<1>1. t.parent = [n \in Keys |-> Null]
  BY TypeOfTrees DEF Bare, Parent
<1>2. t.color = [n \in Keys |-> "RED"]
  BY TypeOfTrees DEF Bare
<1>3. \A s \in RB!Sides : t.child[s] = [n \in Keys |-> Null]
  BY TypeOfTrees DEF Bare, Child
<1>4. t.child = [s \in RB!Sides |-> [n \in Keys |-> Null]]
  BY <1>3, TypeOfTrees
<1> QED BY <1>1, <1>2, <1>4, TypeOfTrees DEF RB!EmptyTree, Root

(* A blank node has nothing to forget. *)
LEMMA ForgetsNothing ==
  ASSUME NEW t \in RB!Trees, NEW k \in Keys, Bare(t, {k})
  PROVE  Forget(t, k) = t
<1>1. PICK u : u = Forget(t, k)
  OBVIOUS
<1>2. Null \in RB!Place
  BY DEF RB!Place
<1>3. Filled(t, u, k, Null, Null, Null, "RED")
  BY <1>1, <1>2, FilledWrites DEF Forget, Fill
<1>4. \A n \in Keys : Parent(u, n) = Parent(t, n) /\ u.color[n] = t.color[n]
  BY <1>3 DEF Filled, Bare
<1>5. \A n \in Keys, s \in RB!Sides : Child(u, s, n) = Child(t, s, n)
  BY <1>3 DEF Filled, Bare
<1>6. u \in RB!Trees /\ u.root = t.root
  BY <1>3 DEF Filled, Root
<1>7. u.parent = t.parent /\ u.color = t.color
  BY <1>4, <1>6, TypeOfTrees DEF Parent
<1>8. \A s \in RB!Sides : u.child[s] = t.child[s]
  BY <1>5, <1>6, TypeOfTrees DEF Child
<1>9. u.child = t.child
  BY <1>6, <1>8, TypeOfTrees
<1> QED BY <1>1, <1>6, <1>7, <1>9, TypeOfTrees

(* The empty tree is a red-black tree. *)
LEMMA EmptyIsBalanced ==
  \E B, H : Balance(RB!EmptyTree, {}, B, H, Keys)
<1>1. PICK t : t = RB!EmptyTree
  OBVIOUS
<1>2. /\ t \in RB!Trees /\ Root(t) = Null /\ Bare(t, Keys) /\ Null \in RB!Place
      /\ ~RB!Red(t, Root(t))
  BY <1>1 DEF RB!EmptyTree, RB!Trees, RB!Place, RB!Red, Root, Bare, Parent, Child
<1>3. PICK B : B = [n \in RB!Place |-> {}]
  OBVIOUS
<1>4. PICK H : H = [n \in RB!Place |-> 0]
  OBVIOUS
<1>5. B \in [RB!Place -> SUBSET {}] /\ At(B, Null) = {}
  BY <1>2, <1>3 DEF At
<1>6. H \in [RB!Place -> Nat] /\ At(H, Null) = 0
  BY <1>2, <1>4 DEF At
<1>7. Tree(t, {}, B)
  BY <1>2, <1>5 DEF Tree, Linked, Below
<1>8. Level(t, {}, H) /\ Calm(t, {}, {}, {})
  BY <1>6 DEF Level, Calm
<1>9. Balance(t, {}, B, H, Keys)
  BY <1>2, <1>7, <1>8 DEF Balance, Whole
<1> QED BY <1>1, <1>9

(* The nodes I have values, and the others none. *)
Valued(I) ==
  /\ value = [k \in Keys |-> value[k]]
  /\ \A n \in I : value[n] \in ValuesOf[n]
  /\ \A n \in Keys \ I : value[n] = Null

(* string_map_free has come to the first of the nodes that are left. *)
Visits(I) ==
  /\ freeing \in BOOLEAN
  /\ ~freeing => np = Null
  /\ freeing => \/ np = Null /\ I = {}
                \/ np \in I /\ \A j \in I : np <= j

HandedValues == handed \in Seq(UNION {ValuesOf[k] : k \in Keys})

MapInv ==
  /\ HandedValues
  /\ \E I, B, H : Balance(tree, I, B, H, Keys \ I) /\ Valued(I) /\ Visits(I)

(* A new map has no node. *)
LEMMA MapInit == Init => MapInv
<1> SUFFICES ASSUME Init PROVE MapInv
  OBVIOUS
<1>1. PICK B, H : Balance(RB!EmptyTree, {}, B, H, Keys)
  BY EmptyIsBalanced
<1>2. Balance(tree, {}, B, H, Keys \ {})
  BY <1>1 DEF Init
<1>3. Valued({}) /\ Visits({})
  BY DEF Init, Valued, Visits
<1>4. HandedValues
  BY EmptySeq DEF Init, HandedValues
<1> QED BY <1>2, <1>3, <1>4 DEF MapInv

(* A key that has a node keeps it. *)
LEMMA InsertsAny ==
  ASSUME NEW t, NEW I, NEW B, NEW H, Balance(t, I, B, H, Keys \ I), NEW k \in Keys
  PROVE  \E J, C, G : J = I \cup {k} /\ Balance(RB!Insert(t, k), J, C, G, Keys \ J)
<1>1. CASE k \in I
  <2>1. RB!Insert(t, k) = t
    BY <1>1, InsertsNothing DEF Balance, Whole
  <2>2. I = I \cup {k}
    BY <1>1
  <2> QED BY <2>1, <2>2
<1>2. CASE k \notin I
  <2>1. k \in Keys \ I /\ (Keys \ I) \ {k} = Keys \ (I \cup {k})
    BY <1>2
  <2>2. \E C, G : Balance(RB!Insert(t, k), I \cup {k}, C, G, (Keys \ I) \ {k})
    BY <2>1, Inserts
  <2> QED BY <2>1, <2>2
<1> QED BY <1>1, <1>2

(* string_map_insert keeps the invariant. *)
LEMMA InsertKeeps ==
  ASSUME MapInv, NEW k \in Keys, NEW v \in ValuesOf[k], string_map_insert(k, v)
  PROVE  MapInv'
<1>1. PICK I, B, H : Balance(tree, I, B, H, Keys \ I) /\ Valued(I) /\ Visits(I)
  BY DEF MapInv
<1>2. PICK J, C, G : J = I \cup {k} /\ Balance(tree', J, C, G, Keys \ J)
  BY <1>1, InsertsAny DEF string_map_insert
<1>3. Valued(J)'
  <2>1. /\ value = [n \in Keys |-> value[n]] /\ value' = [value EXCEPT ![k] = v]
        /\ \A n \in I : value[n] \in ValuesOf[n]
        /\ \A n \in Keys \ I : value[n] = Null
        /\ I \subseteq Keys
    BY <1>1, HasNodes DEF Valued, string_map_insert, Balance, Whole, Nodes
  <2>2. value' = [n \in Keys |-> IF n = k THEN v ELSE value[n]]
    BY <2>1
  <2>3. value' = [n \in Keys |-> value'[n]]
    BY <2>2
  <2>4. \A n \in Keys : value'[n] = IF n = k THEN v ELSE value[n]
    BY <2>2
  <2> QED BY <1>2, <2>1, <2>3, <2>4 DEF Valued
<1>4. Visits(J)'
  BY <1>1 DEF Visits, string_map_insert
<1>5. HandedValues'
  BY DEF MapInv, HandedValues, string_map_insert
<1> QED BY <1>2, <1>3, <1>4, <1>5 DEF MapInv

(* The node of a key leaves, and is forgotten. *)
LEMMA LeavesMap ==
  ASSUME NEW t, NEW I, NEW B, NEW H, Balance(t, I, B, H, Keys \ I), NEW k \in I
  PROVE  \E J, C, G : J = I \ {k} /\ Balance(Forget(RB!Remove(t, k), k), J, C, G, Keys \ J)
<1>1. k \in Keys /\ k \notin Keys \ I /\ (Keys \ I) \cup {k} = Keys \ (I \ {k})
  BY HasNodes DEF Balance, Whole, Nodes
<1>2. PICK C, G : Balance(RB!Remove(t, k), I \ {k}, C, G, Keys \ I)
  BY Removes
<1>3. Balance(Forget(RB!Remove(t, k), k), I \ {k}, C, G, (Keys \ I) \cup {k})
  BY <1>1, <1>2, Forgets
<1> QED BY <1>1, <1>3

(* The value leaves with its node. *)
LEMMA ValuesLeave ==
  ASSUME NEW I \in SUBSET Keys, Valued(I), NEW k \in I, value' = [value EXCEPT ![k] = Null]
  PROVE  Valued(I \ {k})'
<1>1. value = [n \in Keys |-> value[n]]
  BY DEF Valued
<1>2. value' = [n \in Keys |-> IF n = k THEN Null ELSE value[n]]
  BY <1>1
<1>3. value' = [n \in Keys |-> value'[n]]
  BY <1>2
<1>4. \A n \in Keys : value'[n] = IF n = k THEN Null ELSE value[n]
  BY <1>2
<1> QED BY <1>3, <1>4 DEF Valued

(* string_map_has_key tells the nodes of the tree. *)
LEMMA HasKeyIs ==
  ASSUME NEW I, NEW B, NEW H, Balance(tree, I, B, H, Keys \ I), NEW k \in Keys
  PROVE  string_map_has_key(k) <=> k \in I
<1>1. RB!Find(tree, k) = IF k \in I THEN k ELSE Null
  BY FindsKey DEF Balance, Whole
<1> QED BY <1>1, KeysFinite DEF string_map_has_key

(* string_map_remove keeps the invariant. *)
LEMMA RemoveKeeps ==
  ASSUME MapInv, NEW k \in Keys, string_map_remove(k)
  PROVE  MapInv'
<1>1. PICK I, B, H : Balance(tree, I, B, H, Keys \ I) /\ Valued(I) /\ Visits(I)
  BY DEF MapInv
<1>2. HandedValues'
  BY DEF MapInv, HandedValues, string_map_remove
<1>3. \A J : Visits(J)'
  BY <1>1 DEF Visits, string_map_remove
<1>4. string_map_has_key(k) <=> k \in I
  BY <1>1, HasKeyIs
<1>5. CASE k \in I
  <2>1. PICK J, C, G : J = I \ {k} /\ Balance(Forget(RB!Remove(tree, k), k), J, C, G, Keys \ J)
    BY <1>1, <1>5, LeavesMap
  <2>2. /\ tree' = Forget(RB!Remove(tree, k), k)
        /\ value' = [value EXCEPT ![k] = Null]
    BY <1>4, <1>5 DEF string_map_remove
  <2>3. I \in SUBSET Keys
    BY <1>1, HasNodes DEF Balance, Whole, Nodes
  <2>4. Valued(J)'
    BY <1>1, <1>5, <2>1, <2>2, <2>3, ValuesLeave
  <2> QED BY <1>2, <1>3, <2>1, <2>2, <2>4 DEF MapInv
<1>6. CASE k \notin I
  <2>1. tree' = tree /\ value' = value
    BY <1>4, <1>6 DEF string_map_remove
  <2>2. Balance(tree', I, B, H, Keys \ I)
    BY <1>1, <2>1
  <2>3. Valued(I)'
    BY <1>1, <2>1 DEF Valued
  <2> QED BY <1>2, <1>3, <2>2, <2>3 DEF MapInv
<1> QED BY <1>5, <1>6

(* string_map_free begins with the first node. *)
LEMMA StartFreeKeeps ==
  ASSUME MapInv, StartFree
  PROVE  MapInv'
<1>1. PICK I, B, H : Balance(tree, I, B, H, Keys \ I) /\ Valued(I) /\ Visits(I)
  BY DEF MapInv
<1>2. Balance(tree', I, B, H, Keys \ I) /\ Valued(I)' /\ HandedValues'
  BY <1>1 DEF MapInv, Valued, HandedValues, StartFree
<1>3. \/ RB!Min(tree) = Null /\ I = {}
      \/ RB!Min(tree) \in I /\ \A j \in I : RB!Min(tree) <= j
  BY <1>1, MinIs DEF Balance, Whole
<1>4. Visits(I)'
  BY <1>3 DEF Visits, StartFree
<1> QED BY <1>2, <1>4 DEF MapInv

(* The first node has left, and its successor is now the first. *)
LEMMA FreeNodeKeeps ==
  ASSUME MapInv, FreeNode
  PROVE  MapInv'
<1>1. PICK I, B, H : Balance(tree, I, B, H, Keys \ I) /\ Valued(I) /\ Visits(I)
  BY DEF MapInv
<1>2. np \in I /\ (\A j \in I : np <= j) /\ np \in Keys /\ I \subseteq Keys /\ I \subseteq Nat
      /\ Tree(tree, I, B)
  BY <1>1, HasNodes DEF Visits, FreeNode, Balance, Whole, Nodes
<1>3. PICK J, C, G : J = I \ {np} /\ Balance(Forget(RB!Remove(tree, np), np), J, C, G, Keys \ J)
  BY <1>1, <1>2, LeavesMap
<1>4. Balance(tree', J, C, G, Keys \ J)
  BY <1>3 DEF FreeNode
<1>5. Valued(J)'
  BY <1>1, <1>2, <1>3, ValuesLeave DEF FreeNode
<1>6. Visits(J)'
  <2>1. IsNext(I, np, np')
    BY <1>2, NextIs DEF FreeNode
  <2>2. CASE np' = Null
    <3>1. \A j \in I : j <= np
      BY <1>2, <2>1, <2>2, KeysFinite DEF IsNext
    <3>2. J = {}
      BY <1>2, <1>3, <3>1
    <3> QED BY <2>2, <3>2 DEF Visits, FreeNode
  <2>3. CASE np' # Null
    <3>1. np' \in I /\ np < np' /\ \A j \in I : j <= np \/ np' <= j
      BY <2>1, <2>3 DEF IsNext
    <3>2. np' \in J /\ \A j \in J : np' <= j
      BY <1>2, <1>3, <3>1
    <3> QED BY <3>2 DEF Visits, FreeNode
  <2> QED BY <2>2, <2>3
<1>7. HandedValues'
  <2>1. value[np] \in UNION {ValuesOf[k] : k \in Keys}
    BY <1>1, <1>2 DEF Valued
  <2> QED BY <2>1, AppendProperties DEF MapInv, HandedValues, FreeNode
<1> QED BY <1>4, <1>5, <1>6, <1>7 DEF MapInv

(* Every step keeps the invariant. *)
LEMMA MapStep == MapInv /\ [Next]_vars => MapInv'
<1> SUFFICES ASSUME MapInv, [Next]_vars PROVE MapInv'
  OBVIOUS
<1>1. ASSUME NEW k \in Keys, NEW v \in ValuesOf[k], string_map_insert(k, v)
      PROVE  MapInv'
  BY <1>1, InsertKeeps
<1>2. ASSUME NEW k \in Keys, string_map_remove(k)
      PROVE  MapInv'
  BY <1>2, RemoveKeeps
<1>3. CASE StartFree
  BY <1>3, StartFreeKeeps
<1>4. CASE FreeNode
  BY <1>4, FreeNodeKeeps
<1>5. CASE UNCHANGED vars
  BY <1>5 DEF vars, MapInv, HandedValues, Valued, Visits
<1> QED BY <1>1, <1>2, <1>3, <1>4, <1>5 DEF Next

(* The nodes form a red-black tree with a value each, in all states. *)
THEOREM MapInvariant == Spec => []MapInv
  BY MapInit, MapStep, PTL DEF Spec


------------------------------------------------------------------------------
(* Theorems *)

(* The invariant says that the links and values are sound, ... *)
LEMMA MapOfTypes == MapInv => TypeOK
<1> SUFFICES ASSUME MapInv PROVE TypeOK
  OBVIOUS
<1>1. PICK I, B, H : Balance(tree, I, B, H, Keys \ I) /\ Valued(I) /\ Visits(I)
  BY DEF MapInv
<1>2. /\ Whole(tree, I, B, Keys \ I) /\ Tree(tree, I, B) /\ tree \in RB!Trees /\ I \subseteq Keys
  BY <1>1, HasNodes DEF Balance, Whole, Nodes
<1>3. RB!InTree(tree) = I
  BY <1>2, InTreeIs
<1>4. \A n \in I : /\ \A s \in RB!Sides :
                        tree.child[s][n] # Null => tree.parent[tree.child[s][n]] = n
                   /\ value[n] \in ValuesOf[n]
  BY <1>1, <1>2 DEF Tree, Linked, Child, Parent, Valued
<1>5. tree.root # Null => tree.parent[tree.root] = Null
  BY <1>2 DEF Tree, Linked, Root, Parent
<1>6. ASSUME NEW n \in Keys \ I
      PROVE  value[n] = Null /\ Forget(tree, n) = tree
  <2>1. Bare(tree, {n})
    BY <1>2 DEF Whole, Bare
  <2> QED BY <1>1, <1>2, <2>1, ForgetsNothing DEF Valued
<1>7. freeing \in BOOLEAN /\ np \in Keys \cup {Null}
  BY <1>1, <1>2 DEF Visits
<1>8. handed \in Seq(UNION {ValuesOf[k] : k \in Keys})
  BY DEF MapInv, HandedValues
<1> QED BY <1>3, <1>4, <1>5, <1>6, <1>7, <1>8 DEF TypeOK

(* The invariant says that the tree is balanced, ... *)
LEMMA MapIsBalanced == MapInv => Balanced
<1> SUFFICES ASSUME MapInv PROVE Balanced
  OBVIOUS
<1>1. PICK I, B, H : Balance(tree, I, B, H, Keys \ I)
  BY DEF MapInv
<1>2. /\ Whole(tree, I, B, Keys \ I) /\ Tree(tree, I, B) /\ Level(tree, I, H)
      /\ Root(tree) \in RB!Place
  BY <1>1, HasNodes, TypeOfTrees DEF Balance, Whole, Root
<1>3. RB!InTree(tree) = I
  BY <1>2, InTreeIs
<1>4. ~RB!Red(tree, tree.root)
  BY <1>1 DEF Balance, Root
<1>5. \A n \in I, s \in RB!Sides : RB!Red(tree, n) => ~RB!Red(tree, tree.child[s][n])
  BY <1>1 DEF Balance, Calm, Child
<1>6. RB!BlackHeight(tree, tree.root) \in Nat
  <2>1. RB!BlackHeight(tree, Root(tree)) = At(H, Root(tree))
    BY <1>2, BlackHeightIs
  <2>2. At(H, Root(tree)) \in Nat
    BY <1>2, HeightsAreNumbers DEF Level
  <2> QED BY <2>1, <2>2 DEF Root
<1> QED BY <1>3, <1>4, <1>5, <1>6 DEF Balanced

(* ... and that it ends empty. *)
LEMMA MapIsFreed == MapInv => AllFreed
<1> SUFFICES ASSUME MapInv, freeing, np = Null PROVE tree = RB!EmptyTree
  BY DEF AllFreed
<1>1. PICK I, B, H : Balance(tree, I, B, H, Keys \ I) /\ Visits(I)
  BY DEF MapInv
<1>2. Whole(tree, I, B, Keys \ I) /\ Tree(tree, I, B) /\ tree \in RB!Trees /\ Null \notin I
  BY <1>1, HasNodes DEF Balance, Whole, Nodes
<1>3. I = {}
  BY <1>1, <1>2 DEF Visits
<1>4. Bare(tree, Keys) /\ Root(tree) = Null
  BY <1>2, <1>3, RootHasAll DEF Whole
<1> QED BY <1>2, <1>4, BareIsEmpty

(* The links of the tree, and what its nodes hold, are as the functions of *)
(* string_map.c expect them, after any calls on any strings.               *)
THEOREM TypesHold == Spec => []TypeOK
  BY MapInvariant, MapOfTypes, PTL

(* However often the macros of tree.h insert and remove, the tree is a     *)
(* red-black tree, so that a search takes logarithmic time.                *)
THEOREM TreeIsBalanced == Spec => []Balanced
  BY MapInvariant, MapIsBalanced, PTL

(* string_map_free comes past every node, although it asks for the next    *)
(* node of a tree that it is about to change.                              *)
THEOREM FreesAllNodes == Spec => []AllFreed
  BY MapInvariant, MapIsFreed, PTL

(* What the map answers is in the nodes. *)
LEMMA Answers ==
  ASSUME NEW t, NEW I, NEW B, NEW H, Balance(t, I, B, H, Keys \ I), NEW v,
         v = [k \in Keys |-> v[k]], \A n \in Keys \ I : v[n] = Null
  PROVE  [k \in Keys |-> LET node == RB!Find(t, k)
                         IN  IF node = Null THEN Null ELSE v[node]] = v
<1>1. ASSUME NEW k \in Keys
      PROVE  (IF RB!Find(t, k) = Null THEN Null ELSE v[RB!Find(t, k)]) = v[k]
  <2>1. RB!Find(t, k) = IF k \in I THEN k ELSE Null
    BY FindsKey DEF Balance, Whole
  <2> QED BY <2>1, KeysFinite
<1> QED BY <1>1

LEMMA AnswersAreValues == MapInv => [k \in Keys |-> string_map_get(k)] = value
<1> SUFFICES ASSUME MapInv PROVE [k \in Keys |-> string_map_get(k)] = value
  OBVIOUS
<1>1. PICK I, B, H : Balance(tree, I, B, H, Keys \ I) /\ Valued(I)
  BY DEF MapInv
<1>2. value = [k \in Keys |-> value[k]] /\ \A n \in Keys \ I : value[n] = Null
  BY <1>1 DEF Valued
<1> QED BY <1>1, <1>2, Answers DEF string_map_get

(* The same of the next state *)
LEMMA AnswersStayValues == MapInv' => [k \in Keys |-> string_map_get(k)]' = value'
<1> SUFFICES ASSUME MapInv' PROVE [k \in Keys |-> string_map_get(k)]' = value'
  OBVIOUS
<1>1. PICK I, B, H : Balance(tree', I, B, H, Keys \ I) /\ Valued(I)'
  BY DEF MapInv
<1>2. value' = [k \in Keys |-> value'[k]] /\ \A n \in Keys \ I : value'[n] = Null
  BY <1>1 DEF Valued
<1> QED BY <1>1, <1>2, Answers DEF string_map_get

(* A new map is one of the abstract ones. *)
LEMMA MapStartsEmpty == Init => FM!Init
<1> SUFFICES ASSUME Init PROVE FM!Init
  OBVIOUS
<1>1. [k \in Keys |-> string_map_get(k)] = value
  BY MapInit, AnswersAreValues
<1> QED BY <1>1 DEF Init, FM!Init

(* A call that changes the map changes it as the abstract one does. *)
LEMMA StepsOfMap ==
  MapInv /\ MapInv' /\ [Next]_vars => [FM!Next]_FM!mapVars
<1> SUFFICES ASSUME MapInv, MapInv', [Next]_vars PROVE [FM!Next]_FM!mapVars
  OBVIOUS
<1>1. [k \in Keys |-> string_map_get(k)] = value
  BY AnswersAreValues
<1>2. [k \in Keys |-> string_map_get(k)]' = value'
  BY AnswersStayValues
<1>3. PICK I, B, H : Balance(tree, I, B, H, Keys \ I) /\ Valued(I) /\ Visits(I)
  BY DEF MapInv
<1>4. ASSUME NEW k \in Keys, NEW v \in ValuesOf[k], string_map_insert(k, v)
      PROVE  FM!Next
  <2>1. value' = [value EXCEPT ![k] = v] /\ handed' = handed
    BY <1>4 DEF string_map_insert
  <2> QED BY <1>1, <1>2, <2>1 DEF FM!Next, FM!InsertOrRemove, FM!Inserted
<1>5. ASSUME NEW k \in Keys, string_map_remove(k)
      PROVE  FM!Next \/ UNCHANGED FM!mapVars
  <2>1. CASE string_map_has_key(k)
    <3>1. value' = [value EXCEPT ![k] = Null] /\ handed' = handed
      BY <1>5, <2>1 DEF string_map_remove
    <3> QED BY <1>1, <1>2, <3>1 DEF FM!Next, FM!InsertOrRemove, FM!Without
  <2>2. CASE ~string_map_has_key(k)
    <3>1. value' = value /\ handed' = handed
      BY <1>5, <2>2 DEF string_map_remove
    <3> QED BY <1>1, <1>2, <3>1 DEF FM!mapVars
  <2> QED BY <2>1, <2>2
<1>6. ASSUME StartFree
      PROVE  UNCHANGED FM!mapVars
  <2>1. value' = value /\ handed' = handed
    BY <1>6 DEF StartFree
  <2> QED BY <1>1, <1>2, <2>1 DEF FM!mapVars
<1>7. ASSUME FreeNode
      PROVE  FM!Next
  <2>1. /\ value' = [value EXCEPT ![np] = Null] /\ handed' = Append(handed, value[np])
    BY <1>7 DEF FreeNode
  <2>2. np \in I /\ (\A j \in I : np <= j) /\ I \subseteq Keys
    BY <1>3, <1>7, HasNodes DEF Visits, FreeNode, Balance, Whole, Nodes
  <2>3. value[np] # Null /\ \A j \in Keys : value[j] # Null => np <= j
    BY <1>3, <2>2, StringMapAssumption DEF Valued
  <2>4. FM!HandOver(np)
    BY <1>1, <1>2, <2>1, <2>3 DEF FM!HandOver, FM!Without
  <2> QED BY <2>2, <2>4 DEF FM!Next
<1>8. CASE UNCHANGED vars
  <2>1. value' = value /\ handed' = handed
    BY <1>8 DEF vars
  <2> QED BY <1>1, <1>2, <2>1 DEF FM!mapVars
<1> QED BY <1>4, <1>5, <1>6, <1>7, <1>8 DEF Next

(* The map of string_map.c, over the red-black trees of tree.h, behaves as *)
(* a map: it answers what was inserted last under a key, and when it is    *)
(* freed hands each value over once, in the order of the keys.             *)
THEOREM Refinement == Spec => ImplementsMap
<1>1. Init => FM!Init
  BY MapStartsEmpty
<1>2. MapInv /\ MapInv' /\ [Next]_vars => [FM!Next]_FM!mapVars
  BY StepsOfMap
<1> QED BY <1>1, <1>2, MapInvariant, PTL DEF Spec, ImplementsMap, FM!Spec
================================================================================
