--------------------------- MODULE SequenceLemmas ---------------------------
(***************************************************************************)
(* What the community modules' operators on sequences do, as far as the    *)
(* proofs about lanes and queues need it.                                  *)
(***************************************************************************)
EXTENDS Integers, SequencesExt, SequenceTheorems, FiniteSetTheorems, TLAPS

\* A nonempty set of naturals has the minimum that Min chooses.
LEMMA MinIsLeast ==
    ASSUME NEW I \in SUBSET Nat, I # {}
    PROVE  Min(I) \in I /\ \A i \in I : Min(I) <= i
<1> DEFINE T == {1 .. i : i \in I}
<1>1. T \subseteq FiniteSubsetsOf(Nat)
  <2>1. \A i \in I : 1 .. i \in SUBSET Nat /\ IsFiniteSet(1 .. i)
    BY FS_Interval
  <2> QED
    BY <2>1 DEF FiniteSubsetsOf
<1>2. PICK x \in T : \A y \in T : <<y, x>> \notin StrictSubsetOrdering(Nat)
  <2>1. T # {}
    OBVIOUS
  <2>2. IsWellFoundedOn(StrictSubsetOrdering(Nat), FiniteSubsetsOf(Nat))
    BY FS_StrictSubsetOrderingWellFounded
  <2> HIDE DEF T
  <2> QED
    BY <1>1, <2>1, <2>2, WFMin
<1>3. PICK m \in I : x = 1 .. m
  OBVIOUS
<1>4. \A i \in I : m <= i
  <2> SUFFICES ASSUME NEW i \in I, i < m PROVE FALSE
    OBVIOUS
  <2>1. i \in Nat /\ m \in Nat
    OBVIOUS
  <2>2. 1 .. i \subseteq 1 .. m /\ m \in 1 .. m /\ m \notin 1 .. i
    BY <2>1
  <2>3. <<1 .. i, 1 .. m>> \in StrictSubsetOrdering(Nat)
    BY <2>2 DEF StrictSubsetOrdering
  <2> QED
    BY <1>2, <1>3, <2>3
<1> QED
  BY <1>4 DEF Min

\* Taking the element at one position out of a sequence.
LEMMA RemoveAtProperties ==
    ASSUME NEW S, NEW s \in Seq(S), NEW i \in 1 .. Len(s)
    PROVE  /\ RemoveAt(s, i) \in Seq(S)
           /\ Len(RemoveAt(s, i)) = Len(s) - 1
           /\ \A k \in 1 .. Len(s) - 1 :
                 RemoveAt(s, i)[k] = IF k < i THEN s[k] ELSE s[k + 1]
<1> DEFINE front == SubSeq(s, 1, i - 1)
           back == SubSeq(s, i + 1, Len(s))
<1>1. Len(s) \in Nat /\ i \in Nat /\ 1 <= i /\ i <= Len(s)
  OBVIOUS
<1>2. /\ front \in Seq(S) /\ Len(front) = i - 1
      /\ \A k \in 1 .. i - 1 : front[k] = s[k]
  BY <1>1
<1>3. /\ back \in Seq(S) /\ Len(back) = Len(s) - i
      /\ \A k \in 1 .. Len(s) - i : back[k] = s[k + i]
  BY <1>1
<1> HIDE DEF front, back
<1>4. /\ front \o back \in Seq(S)
      /\ Len(front \o back) = Len(s) - 1
      /\ \A k \in 1 .. Len(s) - 1 :
            (front \o back)[k] = IF k < i THEN s[k] ELSE s[k + 1]
  <2>1. /\ front \o back \in Seq(S)
        /\ Len(front \o back) = Len(front) + Len(back)
        /\ \A k \in 1 .. Len(front) + Len(back) :
              (front \o back)[k] = IF k <= Len(front) THEN front[k]
                                   ELSE back[k - Len(front)]
    BY <1>2, <1>3, ConcatProperties
  <2>2. Len(front) + Len(back) = Len(s) - 1
    BY <1>1, <1>2, <1>3
  <2>3. ASSUME NEW k \in 1 .. Len(s) - 1
        PROVE  (front \o back)[k] = IF k < i THEN s[k] ELSE s[k + 1]
    <3>1. CASE k < i
      <4>1. k \in 1 .. i - 1 /\ k <= i - 1
        BY <1>1, <3>1
      <4> QED
        BY <2>1, <2>2, <1>1, <1>2, <1>3, <3>1, <4>1
    <3>2. CASE ~(k < i)
      <4>1. /\ k - (i - 1) \in 1 .. Len(s) - i /\ ~(k <= i - 1)
            /\ k - (i - 1) + i = k + 1
        BY <1>1, <3>2
      <4> QED
        BY <2>1, <2>2, <1>1, <1>2, <1>3, <3>2, <4>1
    <3> QED
      BY <3>1, <3>2
  <2> QED
    BY <2>1, <2>2, <2>3
<1> QED
  BY <1>4 DEF RemoveAt, front, back

\* Taking the first occurrence of an element out of a sequence.
LEMMA RemoveFirstProperties ==
    ASSUME NEW S, NEW s \in Seq(S), NEW e
    PROVE  \/ /\ \A i \in 1 .. Len(s) : s[i] # e
              /\ RemoveFirst(s, e) = s
           \/ \E i \in 1 .. Len(s) :
                 /\ s[i] = e
                 /\ \A k \in 1 .. i - 1 : s[k] # e
                 /\ RemoveFirst(s, e) = RemoveAt(s, i)
<1> DEFINE I == {i \in 1 .. Len(s) : s[i] = e}
<1>1. CASE I = {}
  BY <1>1 DEF RemoveFirst
<1>2. CASE I # {}
  <2>1. I \in SUBSET Nat
    OBVIOUS
  <2>2. Min(I) \in I /\ \A i \in I : Min(I) <= i
    BY <1>2, <2>1, MinIsLeast
  <2>3. RemoveFirst(s, e) = RemoveAt(s, Min(I))
    BY <1>2 DEF RemoveFirst, SelectInSeq
  <2>4. \A k \in 1 .. Min(I) - 1 : s[k] # e
    <3> SUFFICES ASSUME NEW k \in 1 .. Min(I) - 1, s[k] = e PROVE FALSE
      OBVIOUS
    <3>1. k \in 1 .. Len(s) /\ k < Min(I) /\ k \in Nat /\ Min(I) \in Nat
      BY <2>1, <2>2
    <3>2. k \in I
      BY <3>1
    <3> QED
      BY <2>2, <3>1, <3>2
  <2> QED
    BY <2>2, <2>3, <2>4
<1> QED
  BY <1>1, <1>2

-----------------------------------------------------------------------------
(* The same, of the set of elements of a sequence without repetition. *)

\* Membership and repetition, position by position.
LEMMA ToSetMembers ==
    ASSUME NEW S, NEW s \in Seq(S)
    PROVE  /\ ToSet(s) = {s[i] : i \in 1 .. Len(s)}
           /\ ToSet(s) \subseteq S
           /\ IsInjective(s) <=>
                 \A i, j \in 1 .. Len(s) : s[i] = s[j] => i = j
<1>1. DOMAIN s = 1 .. Len(s)
  OBVIOUS
<1> QED
  BY <1>1 DEF ToSet, IsInjective

\* Nothing is in the empty sequence.
LEMMA ToSetEmpty == ToSet(<< >>) = {} /\ IsInjective(<< >>)
  BY DEF ToSet, IsInjective

\* A new element at the end.
LEMMA ToSetAppend ==
    ASSUME NEW S, NEW s \in Seq(S), NEW e \in S
    PROVE  /\ Append(s, e) \in Seq(S)
           /\ ToSet(Append(s, e)) = ToSet(s) \cup {e}
           /\ IsInjective(s) /\ e \notin ToSet(s) => IsInjective(Append(s, e))
<1>1. /\ Append(s, e) \in Seq(S)
      /\ Len(Append(s, e)) = Len(s) + 1
      /\ \A i \in 1 .. Len(s) : Append(s, e)[i] = s[i]
      /\ Append(s, e)[Len(s) + 1] = e
      /\ Len(s) \in Nat
  BY AppendProperties
<1>2. \A i \in 1 .. Len(s) + 1 : i \in 1 .. Len(s) \/ i = Len(s) + 1
  BY <1>1
<1>3. ToSet(Append(s, e)) = {Append(s, e)[i] : i \in 1 .. Len(s) + 1}
  BY <1>1, ToSetMembers
<1>4. ToSet(s) = {s[i] : i \in 1 .. Len(s)}
  BY ToSetMembers
<1>5. ToSet(Append(s, e)) = ToSet(s) \cup {e}
  <2>1. \A i \in 1 .. Len(s) : i \in 1 .. Len(s) + 1
    BY <1>1
  <2>2. Len(s) + 1 \in 1 .. Len(s) + 1
    BY <1>1
  <2> QED
    BY <1>1, <1>2, <1>3, <1>4, <2>1, <2>2
<1>6. ASSUME IsInjective(s), e \notin ToSet(s)
      PROVE  IsInjective(Append(s, e))
  <2>1. /\ \A i, j \in 1 .. Len(s) : s[i] = s[j] => i = j
        /\ \A i \in 1 .. Len(s) : s[i] # e
    BY <1>4, <1>6, ToSetMembers
  <2>2. \A i, j \in 1 .. Len(s) + 1 :
           Append(s, e)[i] = Append(s, e)[j] => i = j
    BY <1>1, <1>2, <2>1
  <2> QED
    BY <1>1, <2>2, ToSetMembers
<1> QED
  BY <1>1, <1>5, <1>6

\* The first element goes.
LEMMA ToSetTail ==
    ASSUME NEW S, NEW s \in Seq(S), s # << >>
    PROVE  /\ Head(s) \in ToSet(s)
           /\ Tail(s) \in Seq(S)
           /\ ToSet(Tail(s)) \subseteq ToSet(s)
           /\ IsInjective(s) => /\ IsInjective(Tail(s))
                                /\ Head(s) \notin ToSet(Tail(s))
<1>1. /\ Len(s) \in Nat /\ 1 \in 1 .. Len(s) /\ Head(s) = s[1]
      /\ Tail(s) \in Seq(S) /\ Len(Tail(s)) = Len(s) - 1
      /\ \A i \in 1 .. Len(Tail(s)) : Tail(s)[i] = s[i + 1]
  BY HeadTailProperties
<1>2. \A i \in 1 .. Len(Tail(s)) : i + 1 \in 1 .. Len(s) \ {1}
  BY <1>1
<1>3. \A i, j \in 1 .. Len(Tail(s)) : i + 1 = j + 1 => i = j
  OBVIOUS
<1>4. ToSet(Tail(s)) = {Tail(s)[i] : i \in 1 .. Len(Tail(s))}
  BY <1>1, ToSetMembers
<1>5. Head(s) \in ToSet(s) /\ ToSet(Tail(s)) \subseteq ToSet(s)
  BY <1>1, <1>2, <1>4, ToSetMembers
<1>6. ASSUME IsInjective(s)
      PROVE  IsInjective(Tail(s)) /\ Head(s) \notin ToSet(Tail(s))
  <2>1. \A i, j \in 1 .. Len(s) : s[i] = s[j] => i = j
    BY <1>6, ToSetMembers
  <2>2. \A i, j \in 1 .. Len(Tail(s)) : Tail(s)[i] = Tail(s)[j] => i = j
    BY <1>1, <1>2, <1>3, <2>1
  <2>3. IsInjective(Tail(s))
    BY <1>1, <2>2, ToSetMembers
  <2> QED
    BY <1>1, <1>2, <1>4, <2>1, <2>3
<1> QED
  BY <1>1, <1>5, <1>6

\* An element is taken out, wherever it is.
LEMMA ToSetRemoveAt ==
    ASSUME NEW S, NEW s \in Seq(S), NEW i \in 1 .. Len(s)
    PROVE  /\ RemoveAt(s, i) \in Seq(S)
           /\ ToSet(RemoveAt(s, i)) \subseteq ToSet(s)
           /\ IsInjective(s) => /\ IsInjective(RemoveAt(s, i))
                                /\ s[i] \notin ToSet(RemoveAt(s, i))
<1> DEFINE r == RemoveAt(s, i)
<1>1. /\ r \in Seq(S) /\ Len(r) = Len(s) - 1
      /\ \A k \in 1 .. Len(s) - 1 : r[k] = IF k < i THEN s[k] ELSE s[k + 1]
  BY RemoveAtProperties
<1> HIDE DEF r
<1>2. Len(s) \in Nat /\ i \in 1 .. Len(s)
  OBVIOUS
<1> DEFINE at(k) == IF k < i THEN k ELSE k + 1
<1>3. \A k \in 1 .. Len(r) : at(k) \in 1 .. Len(s) \ {i} /\ r[k] = s[at(k)]
  BY <1>1, <1>2
<1>4. \A k, m \in 1 .. Len(r) : at(k) = at(m) => k = m
  BY <1>1, <1>2
<1> HIDE DEF at
<1>5. ToSet(r) \subseteq ToSet(s)
  <2>1. /\ ToSet(r) = {r[k] : k \in 1 .. Len(r)}
        /\ ToSet(s) = {s[k] : k \in 1 .. Len(s)}
    BY <1>1, ToSetMembers
  <2>2. ASSUME NEW k \in 1 .. Len(r) PROVE r[k] \in ToSet(s)
    BY <2>1, <1>3
  <2> QED
    BY <2>1, <2>2
<1>6. ASSUME IsInjective(s)
      PROVE  IsInjective(r) /\ s[i] \notin ToSet(r)
  <2>1. \A j, k \in 1 .. Len(s) : s[j] = s[k] => j = k
    BY <1>6, ToSetMembers
  <2>2. \A j, k \in 1 .. Len(r) : r[j] = r[k] => j = k
    BY <1>3, <1>4, <2>1
  <2>3. ToSet(r) = {r[k] : k \in 1 .. Len(r)}
    BY <1>1, ToSetMembers
  <2>4. IsInjective(r)
    BY <1>1, <2>2, ToSetMembers
  <2> QED
    BY <1>2, <1>3, <2>1, <2>3, <2>4
<1> QED
  BY <1>1, <1>5, <1>6 DEF r

\* An element is taken out by value.
LEMMA ToSetRemoveFirst ==
    ASSUME NEW S, NEW s \in Seq(S), NEW e
    PROVE  /\ RemoveFirst(s, e) \in Seq(S)
           /\ ToSet(RemoveFirst(s, e)) \subseteq ToSet(s)
           /\ IsInjective(s) => /\ IsInjective(RemoveFirst(s, e))
                                /\ e \notin ToSet(RemoveFirst(s, e))
<1> DEFINE Removed(r) == /\ r \in Seq(S)
                         /\ ToSet(r) \subseteq ToSet(s)
                         /\ IsInjective(s) => IsInjective(r) /\ e \notin ToSet(r)
<1>1. ASSUME \A i \in 1 .. Len(s) : s[i] # e PROVE Removed(s)
  BY <1>1, ToSetMembers
<1>2. ASSUME NEW i \in 1 .. Len(s), s[i] = e PROVE Removed(RemoveAt(s, i))
  BY <1>2, ToSetRemoveAt
<1>3. \/ /\ \A i \in 1 .. Len(s) : s[i] # e
         /\ RemoveFirst(s, e) = s
      \/ \E i \in 1 .. Len(s) :
            s[i] = e /\ RemoveFirst(s, e) = RemoveAt(s, i)
  BY RemoveFirstProperties
<1> HIDE DEF Removed
<1>4. Removed(RemoveFirst(s, e))
  BY <1>1, <1>2, <1>3
<1> QED
  BY <1>4 DEF Removed

\* A sequence with no element, with one, and with two.
LEMMA ShortSequences ==
    ASSUME NEW S, NEW s \in Seq(S)
    PROVE  /\ Len(s) <= 0 => s = << >>
           /\ Len(s) <= 1 /\ 1 <= Len(s) => s = <<s[1]>>
           /\ Len(s) <= 2 /\ 2 <= Len(s) => s = <<s[1], s[2]>>
<1>1. ASSUME Len(s) <= 0 PROVE s = << >>
  BY <1>1
<1>2. ASSUME Len(s) <= 1, 1 <= Len(s) PROVE s = <<s[1]>>
  BY <1>2
<1>3. ASSUME Len(s) <= 2, 2 <= Len(s) PROVE s = <<s[1], s[2]>>
  <2> DEFINE t == <<s[1], s[2]>>
  <2>1. s[1] \in S /\ s[2] \in S
    BY <1>3
  <2>2. /\ t \in Seq(S) /\ Len(t) <= 2 /\ 2 <= Len(t)
        /\ t[1] = s[1] /\ t[2] = s[2]
    BY <2>1
  <2> HIDE DEF t
  <2>3. Len(s) \in Nat /\ Len(t) \in Nat
    BY <2>2
  <2>4. Len(s) = Len(t) /\ \A i \in 1 .. Len(s) : i = 1 \/ i = 2
    BY <1>3, <2>2, <2>3
  <2>5. \A i \in 1 .. Len(s) : s[i] = t[i]
    BY <2>2, <2>4
  <2>6. s = t
    BY <2>2, <2>4, <2>5, SeqEqual
  <2> QED
    BY <2>6 DEF t
<1> QED
  BY <1>1, <1>2, <1>3

\* What is left of a sequence of one or two elements.
LEMMA RemoveOne ==
    ASSUME NEW S, NEW s \in Seq(S), NEW i \in 1 .. Len(s)
    PROVE  /\ Len(s) <= 1 => RemoveAt(s, i) = << >>
           /\ Len(s) <= 2 /\ 2 <= Len(s) =>
                 RemoveAt(s, i) = IF 1 < i THEN <<s[1]>> ELSE <<s[2]>>
<1> DEFINE r == RemoveAt(s, i)
<1>1. r \in Seq(S) /\ Len(r) <= Len(s) - 1 /\ Len(s) - 1 <= Len(r)
  BY RemoveAtProperties
<1>2. ASSUME 2 <= Len(s) PROVE r[1] = IF 1 < i THEN s[1] ELSE s[2]
  <2>1. 1 \in 1 .. Len(s) - 1
    BY <1>2
  <2> QED
    BY <2>1, RemoveAtProperties
<1> HIDE DEF r
<1>3. Len(s) <= 1 => Len(r) <= 0
  BY <1>1
<1>4. Len(s) <= 2 /\ 2 <= Len(s) => Len(r) <= 1 /\ 1 <= Len(r)
  BY <1>1
<1> QED
  BY <1>1, <1>2, <1>3, <1>4, ShortSequences DEF r

\* A sequence in which nothing is.
LEMMA NothingInside ==
    ASSUME NEW S, NEW s \in Seq(S), ToSet(s) = {}
    PROVE  s = << >>
<1>1. \A i \in 1 .. Len(s) : s[i] \in ToSet(s)
  <2>1. ToSet(s) = {s[i] : i \in 1 .. Len(s)}
    BY ToSetMembers
  <2> DEFINE T == ToSet(s)
  <2>2. T = {s[i] : i \in 1 .. Len(s)}
    BY <2>1
  <2> HIDE DEF T
  <2>3. \A i \in 1 .. Len(s) : s[i] \in T
    BY <2>2
  <2> QED
    BY <2>3 DEF T
<1>2. 1 .. Len(s) = {}
  BY <1>1
<1>3. Len(s) <= 0
  BY <1>2
<1> QED
  BY <1>3, ShortSequences

-----------------------------------------------------------------------------
(* Induction, and the concatenation of a sequence of sequences. *)

\* A set with 0 and every successor has every natural number.
LEMMA SetInduction ==
    ASSUME NEW T, 0 \in T, \A n \in Nat : n \in T => n + 1 \in T
    PROVE  Nat \subseteq T
<1> DEFINE bad == Nat \ T
<1> SUFFICES ASSUME bad # {} PROVE FALSE
  OBVIOUS
<1>1. PICK m \in bad : \A i \in bad : m <= i
  <2>1. bad \in SUBSET Nat
    OBVIOUS
  <2> HIDE DEF bad
  <2> QED
    BY <2>1, MinIsLeast
<1>2. m # 0 /\ m - 1 \in Nat /\ m = (m - 1) + 1
  BY <1>1
<1>3. m - 1 \in T
  BY <1>1, <1>2
<1> QED
  BY <1>1, <1>2, <1>3

\* One sequence after another.
LEMMA ToSetConcat ==
    ASSUME NEW S, NEW s \in Seq(S), NEW t \in Seq(S)
    PROVE  s \o t \in Seq(S) /\ ToSet(s \o t) = ToSet(s) \cup ToSet(t)
<1> DEFINE r == s \o t
<1>1. /\ r \in Seq(S) /\ Len(r) = Len(s) + Len(t)
      /\ \A i \in 1 .. Len(s) + Len(t) :
            r[i] = IF i <= Len(s) THEN s[i] ELSE t[i - Len(s)]
  BY ConcatProperties
<1> HIDE DEF r
<1>2. Len(s) \in Nat /\ Len(t) \in Nat
  BY LenProperties
<1>3. \A i \in 1 .. Len(s) : i \in 1 .. Len(r) /\ r[i] = s[i]
  BY <1>1, <1>2
<1>4. \A i \in 1 .. Len(t) :
         Len(s) + i \in 1 .. Len(r) /\ r[Len(s) + i] = t[i]
  <2> TAKE i \in 1 .. Len(t)
  <2>1. /\ Len(s) + i \in 1 .. Len(s) + Len(t)
        /\ ~(Len(s) + i <= Len(s))
        /\ (Len(s) + i) - Len(s) = i
    BY <1>2
  <2> QED
    BY <1>1, <2>1
<1>5. \A i \in 1 .. Len(r) :
         \/ i \in 1 .. Len(s) /\ r[i] = s[i]
         \/ i - Len(s) \in 1 .. Len(t) /\ r[i] = t[i - Len(s)]
  BY <1>1, <1>2
<1>6. /\ ToSet(r) = {r[i] : i \in 1 .. Len(r)}
      /\ ToSet(s) = {s[i] : i \in 1 .. Len(s)}
      /\ ToSet(t) = {t[i] : i \in 1 .. Len(t)}
  <2>1. ToSet(r) = {r[i] : i \in 1 .. Len(r)}
    BY <1>1, ToSetMembers
  <2>2. ToSet(s) = {s[i] : i \in 1 .. Len(s)}
    BY ToSetMembers
  <2>3. ToSet(t) = {t[i] : i \in 1 .. Len(t)}
    BY ToSetMembers
  <2> QED
    BY <2>1, <2>2, <2>3
<1>7. ToSet(r) = ToSet(s) \cup ToSet(t)
  <2>1. \A e \in ToSet(r) : e \in ToSet(s) \cup ToSet(t)
    BY <1>5, <1>6
  <2>2. \A e \in ToSet(s) : e \in ToSet(r)
    BY <1>3, <1>6
  <2>3. \A e \in ToSet(t) : e \in ToSet(r)
    BY <1>4, <1>6
  <2> QED
    BY <2>1, <2>2, <2>3
<1> QED
  BY <1>1, <1>7 DEF r

\* FlattenSeq is the concatenation of the sequences from the first to the last.
LEMMA FlattenSteps ==
    ASSUME NEW V, NEW ss \in Seq(Seq(V)), ss # << >>
    PROVE  \E f : /\ FlattenSeq(ss) = f[Len(ss)]
                  /\ \A i \in 1 .. Len(ss) :
                        f[i] = IF i = 1 THEN ss[i] ELSE f[i - 1] \o ss[i]
<1> DEFINE n == Len(ss)
           Value(g, i) == IF i = 1 THEN ss[i] ELSE g[i - 1] \o ss[i]
           T == {k \in Nat : k <= n =>
                    \E g : \A i \in 1 .. k : g[i] = Value(g, i)}
<1>1. n \in Nat /\ n # 0
  BY LenProperties, EmptySeq
<1> HIDE DEF n
<1>2. 0 \in T
  OBVIOUS
<1>3. ASSUME NEW k \in Nat, k \in T PROVE k + 1 \in T
  <2> SUFFICES ASSUME k + 1 <= n
               PROVE  \E g : \A i \in 1 .. k + 1 : g[i] = Value(g, i)
    OBVIOUS
  <2>1. PICK g : \A i \in 1 .. k : g[i] = Value(g, i)
    BY <1>1, <1>3
  <2> DEFINE last == Value(g, k + 1)
             h == [i \in 1 .. k + 1 |-> IF i = k + 1 THEN last ELSE g[i]]
  <2>2. \A i \in 1 .. k : h[i] = g[i]
    OBVIOUS
  <2>3. h[k + 1] = last
    OBVIOUS
  <2> HIDE DEF h
  <2>4. \A i \in 1 .. k + 1 : i # 1 => i - 1 \in 1 .. k
    OBVIOUS
  <2>5. \A i \in 1 .. k + 1 : Value(h, i) = Value(g, i)
    BY <2>2, <2>4
  <2>6. \A i \in 1 .. k + 1 : i \in 1 .. k \/ i = k + 1
    OBVIOUS
  <2>7. \A i \in 1 .. k + 1 : h[i] = Value(g, i)
    <3> HIDE DEF Value
    <3> QED
      BY <2>1, <2>2, <2>3, <2>6
  <2>8. \A i \in 1 .. k + 1 : h[i] = Value(h, i)
    <3> HIDE DEF Value
    <3> QED
      BY <2>5, <2>7
  <2> QED
    BY <2>8
<1>4. n \in T
  <2> HIDE DEF T
  <2> QED
    BY <1>1, <1>2, <1>3, SetInduction
<1>5. PICK g : \A i \in 1 .. n : g[i] = Value(g, i)
  BY <1>1, <1>4
<1> DEFINE h == [i \in 1 .. n |-> g[i]]
           f == CHOOSE a : a = [i \in 1 .. n |-> IF i = 1 THEN ss[i]
                                                 ELSE a[i - 1] \o ss[i]]
<1>6. h = [i \in 1 .. n |-> IF i = 1 THEN ss[i] ELSE h[i - 1] \o ss[i]]
  <2>1. \A i \in 1 .. n : i # 1 => i - 1 \in 1 .. n
    BY <1>1
  <2>2. \A i \in 1 .. n : h[i] = IF i = 1 THEN ss[i] ELSE h[i - 1] \o ss[i]
    BY <1>5, <2>1
  <2>3. h = [i \in 1 .. n |-> h[i]]
    OBVIOUS
  <2> HIDE DEF h
  <2> QED
    BY <2>2, <2>3
<1>7. f = [i \in 1 .. n |-> IF i = 1 THEN ss[i] ELSE f[i - 1] \o ss[i]]
  <2> HIDE DEF h
  <2> QED
    BY <1>6
<1>8. FlattenSeq(ss) = f[n]
  BY <1>1 DEF FlattenSeq, n
<1> HIDE DEF f
<1> QED
  BY <1>7, <1>8 DEF n

\* What is in the sequences is in their concatenation, and nothing else.
LEMMA FlattenMembers ==
    ASSUME NEW V, NEW ss \in Seq(Seq(V))
    PROVE  /\ FlattenSeq(ss) \in Seq(V)
           /\ ToSet(FlattenSeq(ss)) = UNION {ToSet(ss[i]) : i \in DOMAIN ss}
<1> DEFINE n == Len(ss)
<1>0. n \in Nat /\ DOMAIN ss = 1 .. n
  BY LenProperties
<1>1. CASE ss = << >>
  <2>1. FlattenSeq(ss) = << >>
    BY <1>1 DEF FlattenSeq
  <2>2. {ToSet(ss[i]) : i \in DOMAIN ss} = {}
    BY <1>1
  <2> QED
    BY <2>1, <2>2, ToSetEmpty
<1>2. CASE ss # << >>
  <2>1. PICK f : /\ FlattenSeq(ss) = f[n]
                 /\ \A i \in 1 .. n :
                       f[i] = IF i = 1 THEN ss[i] ELSE f[i - 1] \o ss[i]
    BY <1>2, FlattenSteps
  <2>2. n # 0
    BY <1>0, <1>2, EmptySeq
  <2> HIDE DEF n
  <2>3. \A i \in 1 .. n : ss[i] \in Seq(V)
    BY <1>0
  <2> DEFINE Good(k) ==
               /\ f[k] \in Seq(V)
               /\ ToSet(f[k]) = UNION {ToSet(ss[i]) : i \in 1 .. k}
             T == {k \in Nat : k \in 1 .. n => Good(k)}
  <2>4. ASSUME NEW k \in Nat, k \in T, k + 1 \in 1 .. n
        PROVE  Good(k + 1)
    <3>1. CASE k = 0
      <4>1. f[k + 1] = ss[1] /\ ss[1] \in Seq(V)
        BY <2>1, <2>3, <2>4, <3>1
      <4>2. 1 .. k + 1 = {1}
        BY <3>1
      <4>3. UNION {ToSet(ss[i]) : i \in {1}} = ToSet(ss[1])
        OBVIOUS
      <4> QED
        BY <4>1, <4>2, <4>3
    <3>2. CASE k # 0
      <4>1. k \in 1 .. n /\ k + 1 # 1 /\ (k + 1) - 1 = k
        BY <2>4, <3>2, <1>0
      <4>2. f[k + 1] = f[k] \o ss[k + 1]
        BY <2>1, <2>4, <4>1
      <4>3. Good(k)
        BY <2>4, <4>1
      <4>4. ss[k + 1] \in Seq(V)
        BY <2>3, <2>4
      <4>5. /\ f[k + 1] \in Seq(V)
            /\ ToSet(f[k + 1]) = ToSet(f[k]) \cup ToSet(ss[k + 1])
        BY <4>2, <4>3, <4>4, ToSetConcat
      <4>6. 1 .. k + 1 = (1 .. k) \cup {k + 1}
        OBVIOUS
      <4>7. UNION {ToSet(ss[i]) : i \in (1 .. k) \cup {k + 1}}
              = (UNION {ToSet(ss[i]) : i \in 1 .. k}) \cup ToSet(ss[k + 1])
        OBVIOUS
      <4> QED
        BY <4>3, <4>5, <4>6, <4>7
    <3> QED
      BY <3>1, <3>2
  <2>5. n \in T
    <3>1. 0 \in T
      OBVIOUS
    <3>2. \A k \in Nat : k \in T => k + 1 \in T
      <4> HIDE DEF Good
      <4>1. ASSUME NEW k \in Nat, k \in T PROVE k + 1 \in T
        <5>1. k + 1 \in 1 .. n => Good(k + 1)
          BY <2>4, <4>1
        <5> QED
          BY <5>1
      <4> QED
        BY <4>1
    <3> HIDE DEF T
    <3> QED
      BY <1>0, <3>1, <3>2, SetInduction
  <2>6. Good(n)
    <3> HIDE DEF Good
    <3> QED
      BY <1>0, <2>2, <2>5
  <2> QED
    BY <1>0, <2>1, <2>6
<1> QED
  BY <1>1, <1>2

-----------------------------------------------------------------------------
(* Sequences that keep their order. *)

\* What is left of s in t comes in the order it had, and nothing new comes
\* before it.
Follows(s, t) ==
    \A i, j \in 1 .. Len(t) :
       i < j /\ t[j] \in ToSet(s) =>
          \E k, m \in 1 .. Len(s) : k < m /\ s[k] = t[i] /\ s[m] = t[j]

\* A sequence follows itself.
LEMMA FollowsItself ==
    ASSUME NEW S, NEW s \in Seq(S) PROVE Follows(s, s)
  BY DEF Follows

\* Taking one element out leaves the others in their order.
LEMMA FollowsRemoveAt ==
    ASSUME NEW S, NEW s \in Seq(S), NEW i \in 1 .. Len(s)
    PROVE  Follows(s, RemoveAt(s, i))
<1> DEFINE r == RemoveAt(s, i)
           Was(k) == IF k < i THEN k ELSE k + 1
<1>1. /\ Len(s) \in Nat /\ i \in Nat
      /\ Len(r) = Len(s) - 1
      /\ \A k \in 1 .. Len(s) - 1 : r[k] = IF k < i THEN s[k] ELSE s[k + 1]
  BY RemoveAtProperties
<1> SUFFICES ASSUME NEW a \in 1 .. Len(r), NEW b \in 1 .. Len(r), a < b
             PROVE  \E k, m \in 1 .. Len(s) :
                       k < m /\ s[k] = r[a] /\ s[m] = r[b]
  BY DEF Follows
<1>2. /\ Was(a) \in 1 .. Len(s) /\ Was(b) \in 1 .. Len(s) /\ Was(a) < Was(b)
  BY <1>1
<1>3. s[Was(a)] = r[a] /\ s[Was(b)] = r[b]
  BY <1>1
<1> QED
  BY <1>2, <1>3

\* So does taking off the first.
LEMMA FollowsTail ==
    ASSUME NEW S, NEW s \in Seq(S), s # << >>
    PROVE  Follows(s, Tail(s))
<1> DEFINE r == Tail(s)
<1>1. /\ Len(s) \in Nat /\ Len(r) = Len(s) - 1
      /\ \A k \in 1 .. Len(s) - 1 : r[k] = s[k + 1]
  BY HeadTailProperties
<1> SUFFICES ASSUME NEW a \in 1 .. Len(r), NEW b \in 1 .. Len(r), a < b
             PROVE  \E k, m \in 1 .. Len(s) :
                       k < m /\ s[k] = r[a] /\ s[m] = r[b]
  BY DEF Follows
<1>2. a + 1 \in 1 .. Len(s) /\ b + 1 \in 1 .. Len(s) /\ a + 1 < b + 1
  BY <1>1
<1>3. s[a + 1] = r[a] /\ s[b + 1] = r[b]
  BY <1>1
<1> QED
  BY <1>2, <1>3

\* A newcomer at the end is behind what was there.
LEMMA FollowsAppend ==
    ASSUME NEW S, NEW s \in Seq(S), NEW t \in Seq(S), NEW e \in S,
           Follows(s, t), e \notin ToSet(s)
    PROVE  Follows(s, Append(t, e))
<1> DEFINE r == Append(t, e)
<1>1. /\ Len(t) \in Nat /\ Len(r) = Len(t) + 1 /\ r[Len(t) + 1] = e
      /\ \A k \in 1 .. Len(t) : r[k] = t[k]
  BY AppendProperties
<1> HIDE DEF r
<1> SUFFICES ASSUME NEW a \in 1 .. Len(r), NEW b \in 1 .. Len(r), a < b,
                    r[b] \in ToSet(s)
             PROVE  \E k, m \in 1 .. Len(s) :
                       k < m /\ s[k] = r[a] /\ s[m] = r[b]
  BY DEF Follows, r
<1>2. b # Len(t) + 1
  BY <1>1
<1>3. a \in 1 .. Len(t) /\ b \in 1 .. Len(t)
  BY <1>1, <1>2
<1>4. r[a] = t[a] /\ r[b] = t[b]
  BY <1>1, <1>3
<1> QED
  BY <1>3, <1>4 DEF Follows
=============================================================================
