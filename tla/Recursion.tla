----------------------------- MODULE Recursion -----------------------------
(***************************************************************************)
(* Recursive functions on sets whose elements have a rank: a definition    *)
(* that looks at elements of lower rank only has a solution.               *)
(***************************************************************************)
EXTENDS Integers, WellFoundedInduction, TLAPS

CONSTANTS
    S,
    Rank(_),
    Def(_, _)  \* the value at an element, given the function

RanksAreNatural == \A x \in S : Rank(x) \in Nat

\* The value at x depends on the values at elements of lower rank.
LooksDown ==
    \A g, h : \A x \in S :
       (\A y \in S : Rank(y) < Rank(x) => g[y] = h[y]) => Def(g, x) = Def(h, x)

\* A nonempty set of natural numbers has a least element.
LEMMA LeastNumber ==
    ASSUME NEW T \in SUBSET Nat, T # {}
    PROVE  \E m \in T : \A i \in T : m <= i
<1>1. IsWellFoundedOn(OpToRel(<, Nat), Nat)
  BY NatLessThanWellFounded
<1> DEFINE R == OpToRel(<, Nat)
<1>2. \A i, j \in Nat : i < j => <<i, j>> \in R
  BY DEF OpToRel
<1>3. IsWellFoundedOn(R, Nat)
  BY <1>1
<1> HIDE DEF R
<1>4. PICK m \in T : \A i \in T : <<i, m>> \notin R
  BY <1>3, WFMin
<1>5. \A i \in T : i \in Nat
  OBVIOUS
<1>6. \A i \in T : ~(i < m)
  BY <1>2, <1>4, <1>5, Zenon
<1>7. \A i \in T : m <= i
  BY <1>5, <1>6
<1> QED
  BY <1>7

\* A set that has the elements all of whose inferiors it has is everything.
LEMMA RankInduction ==
    ASSUME RanksAreNatural,
           NEW T,
           \A x \in S : (\A y \in S : Rank(y) < Rank(x) => y \in T) => x \in T
    PROVE  S \subseteq T
<1> SUFFICES ASSUME NEW z \in S, z \notin T PROVE FALSE
  OBVIOUS
<1> DEFINE ranks == {Rank(x) : x \in S \ T}
<1>1. ranks \in SUBSET Nat /\ ranks # {}
  BY DEF RanksAreNatural
<1>2. PICK m \in ranks : \A i \in ranks : m <= i
  <2> HIDE DEF ranks
  <2> QED
    BY <1>1, LeastNumber
<1>3. PICK x \in S \ T : \A y \in S \ T : Rank(x) <= Rank(y)
  BY <1>2
<1> QED
  BY <1>3 DEF RanksAreNatural

\* g solves the definition below rank n.
Solves(g, n) == \A x \in S : Rank(x) < n => g[x] = Def(g, x)

\* There is one solution below a rank.
LEMMA SolutionsAgree ==
    ASSUME RanksAreNatural, LooksDown,
           NEW g, NEW h, NEW n \in Nat, Solves(g, n), Solves(h, n),
           NEW x \in S, Rank(x) < n
    PROVE  g[x] = h[x]
<1> DEFINE T == {y \in S : Rank(y) < n => g[y] = h[y]}
<1>1. ASSUME NEW y \in S, \A z \in S : Rank(z) < Rank(y) => z \in T
      PROVE  y \in T
  <2> SUFFICES ASSUME Rank(y) < n PROVE g[y] = h[y]
    OBVIOUS
  <2>1. \A z \in S : Rank(z) < Rank(y) => g[z] = h[z]
    BY <1>1 DEF RanksAreNatural
  <2>2. Def(g, y) = Def(h, y)
    BY <2>1 DEF LooksDown
  <2> QED
    BY <2>2 DEF Solves
<1>2. S \subseteq T
  <2> HIDE DEF T
  <2> QED
    BY <1>1, RankInduction
<1> QED
  BY <1>2

\* Solutions below the ranks of all elements make one solution.
LEMMA Glued ==
    ASSUME RanksAreNatural, LooksDown,
           NEW below, NEW n \in Nat,
           \A x \in S : Rank(x) < n => Solves(below[Rank(x)], Rank(x)),
           NEW g, \A x \in S : Rank(x) < n => g[x] = Def(below[Rank(x)], x)
    PROVE  Solves(g, n)
<1> SUFFICES ASSUME NEW x \in S, Rank(x) < n PROVE g[x] = Def(g, x)
  BY DEF Solves
<1>1. ASSUME NEW y \in S, Rank(y) < Rank(x)
      PROVE  g[y] = below[Rank(x)][y]
  <2>0. Rank(y) < n
    BY <1>1 DEF RanksAreNatural
  <2>1. Solves(below[Rank(y)], Rank(y)) /\ Solves(below[Rank(x)], Rank(y))
    BY <1>1, <2>0 DEF Solves, RanksAreNatural
  <2>2. \A z \in S : Rank(z) < Rank(y) => below[Rank(y)][z] = below[Rank(x)][z]
    BY <2>1, SolutionsAgree DEF RanksAreNatural
  <2>3. Def(below[Rank(y)], y) = Def(below[Rank(x)], y)
    BY <2>2 DEF LooksDown
  <2> QED
    BY <1>1, <2>0, <2>3 DEF Solves
<1> QED
  BY <1>1 DEF LooksDown, RanksAreNatural

\* There is a solution below every rank.
LEMMA PartSolutions ==
    ASSUME RanksAreNatural, LooksDown, NEW n \in Nat
    PROVE  \E g : Solves(g, n)
<1> DEFINE bad == {m \in Nat : ~\E g : Solves(g, m)}
<1> SUFFICES ASSUME bad # {} PROVE FALSE
  OBVIOUS
<1>1. PICK m \in bad : \A i \in bad : m <= i
  <2>1. bad \in SUBSET Nat
    OBVIOUS
  <2> HIDE DEF bad
  <2> QED
    BY <2>1, LeastNumber
<1>2. \A i \in Nat : i < m => \E g : Solves(g, i)
  BY <1>1
<1> DEFINE below == [i \in Nat |-> CHOOSE g : Solves(g, i)]
           g == [x \in S |-> Def(below[Rank(x)], x)]
<1>3. \A x \in S : Rank(x) < m => Solves(below[Rank(x)], Rank(x))
  BY <1>2 DEF RanksAreNatural
<1>4. \A x \in S : g[x] = Def(below[Rank(x)], x)
  OBVIOUS
<1>5. Solves(g, m)
  <2> HIDE DEF below, g
  <2> QED
    BY <1>1, <1>3, <1>4, Glued
<1> QED
  BY <1>1, <1>5

\* A recursive definition that looks at lower ranks only means what it says.
THEOREM RecursiveDefinition ==
    ASSUME RanksAreNatural, LooksDown,
           NEW f, f = CHOOSE g : g = [x \in S |-> Def(g, x)]
    PROVE  f = [x \in S |-> Def(f, x)]
<1> DEFINE below == [i \in Nat |-> CHOOSE g : Solves(g, i)]
           h == [x \in S |-> Def(below[Rank(x)], x)]
<1>1. \A i \in Nat : Solves(below[i], i)
  BY PartSolutions
<1>2. \A x \in S : h[x] = Def(below[Rank(x)], x)
  OBVIOUS
<1>3. \A x \in S : h[x] = Def(h, x)
  <2>1. \A x \in S : Solves(below[Rank(x)], Rank(x))
    BY <1>1 DEF RanksAreNatural
  <2>2. ASSUME NEW n \in Nat PROVE Solves(h, n)
    <3> HIDE DEF below, h
    <3> QED
      BY <1>2, <2>1, Glued
  <2>3. ASSUME NEW x \in S PROVE h[x] = Def(h, x)
    <3>1. Rank(x) + 1 \in Nat /\ Rank(x) < Rank(x) + 1
      BY DEF RanksAreNatural
    <3> HIDE DEF h
    <3> QED
      BY <2>2, <3>1 DEF Solves
  <2> QED
    BY <2>3
<1>4. h = [x \in S |-> Def(h, x)]
  <2>1. h = [x \in S |-> h[x]]
    OBVIOUS
  <2> HIDE DEF h
  <2> QED
    BY <1>3, <2>1
<1> HIDE DEF h
<1> QED
  BY <1>4
=============================================================================
