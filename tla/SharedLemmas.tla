--------------------------- MODULE SharedLemmas ----------------------------
(***************************************************************************)
(* Facts the proofs of several components rest on.  A free list kept as a  *)
(* stack in which every slot stands at most once, and what popping,        *)
(* pushing and joining do to the slots listed: the chunk pool's            *)
(* free_slots_ and the index's empty_slots_ are such stacks.  How counting *)
(* numbers a finite set, or an order its members.  And induction, over sets and functions: a set of *)
(* numbers with 0 and every successor is Nat, and a function defined by a  *)
(* first value and a step, on the numbers or on the subsets of a finite    *)
(* set as the folds are, exists and stays where the step stays.            *)
(***************************************************************************)
EXTENDS Integers, SequencesExt, SequenceTheorems, FiniteSetTheorems, WellFoundedInduction, TLAPS

\* Popping takes the last slot off the list and leaves the others.
LEMMA PopLemma ==
  ASSUME NEW S, NEW s \in Seq(S), s # <<>>, IsInjective(s)
  PROVE  /\ Front(s) \in Seq(S) /\ Len(Front(s)) = Len(s) - 1
         /\ IsInjective(Front(s))
         /\ Last(s) \in S /\ Last(s) \in Range(s)
         /\ Range(Front(s)) = Range(s) \ {Last(s)}
<1> DEFINE f == Front(s)
           n == Len(s)
<1>1. n \in Nat /\ n > 0 /\ DOMAIN s = 1..n
  OBVIOUS
<1>2. /\ f \in Seq(S) /\ Len(f) = n - 1 /\ DOMAIN f = 1..(n - 1)
      /\ \A i \in 1..(n - 1) : f[i] = s[i]
  BY <1>1 DEF Front
<1>3. Last(s) = s[n] /\ Last(s) \in S /\ Last(s) \in Range(s)
  BY <1>1 DEF Last, Range
<1> HIDE DEF n
<1> HIDE DEF f
<1>4. IsInjective(f)
  BY <1>1, <1>2 DEF IsInjective
<1>5. ASSUME NEW x \in Range(f)
      PROVE  x \in Range(s) \ {Last(s)}
  <2>1. PICK i \in 1..(n - 1) : x = s[i]
    BY <1>2 DEF Range
  <2>2. i \in DOMAIN s /\ n \in DOMAIN s /\ i # n
    BY <1>1
  <2> QED
    BY <1>3, <2>1, <2>2 DEF IsInjective, Range
<1>6. ASSUME NEW x \in Range(s) \ {Last(s)}
      PROVE  x \in Range(f)
  <2>1. PICK i \in 1..n : x = s[i]
    BY <1>1 DEF Range
  <2>2. i \in 1..(n - 1)
    BY <1>1, <1>3, <2>1
  <2> QED
    BY <1>2, <2>1, <2>2 DEF Range
<1> QED
  BY <1>2, <1>3, <1>4, <1>5, <1>6 DEF f, n

\* Joining two lists without a common slot lists the slots of both.
LEMMA JoinLemma ==
  ASSUME NEW S, NEW s \in Seq(S), NEW u \in Seq(S), IsInjective(s), IsInjective(u),
         Range(s) \cap Range(u) = {}
  PROVE  /\ s \o u \in Seq(S) /\ Len(s \o u) = Len(s) + Len(u)
         /\ IsInjective(s \o u)
         /\ Range(s \o u) = Range(s) \cup Range(u)
<1> DEFINE c == s \o u
           m == Len(s)
           n == Len(u)
<1>1. /\ c \in Seq(S) /\ Len(c) = m + n
      /\ m \in Nat /\ n \in Nat
      /\ DOMAIN s = 1..m /\ DOMAIN u = 1..n /\ DOMAIN c = 1..(m + n)
      /\ \A j \in 1..m : c[j] = s[j]
      /\ \A j \in (m + 1)..(m + n) : c[j] = u[j - m]
  OBVIOUS
<1>2. Range(c) = Range(s) \cup Range(u)
  BY RangeConcatenation
<1> HIDE DEF c, m, n
<1>3. \A j \in DOMAIN c : (j <= m /\ c[j] \in Range(s)) \/ (j > m /\ c[j] \in Range(u))
  <2> SUFFICES ASSUME NEW j \in 1..(m + n)
               PROVE  (j <= m /\ c[j] \in Range(s)) \/ (j > m /\ c[j] \in Range(u))
    BY <1>1
  <2>1. CASE j <= m
    <3>1. j \in DOMAIN s /\ c[j] = s[j]
      BY <1>1, <2>1
    <3> QED
      BY <2>1, <3>1 DEF Range
  <2>2. CASE j > m
    <3>1. j - m \in DOMAIN u /\ c[j] = u[j - m]
      BY <1>1, <2>2
    <3> QED
      BY <2>2, <3>1 DEF Range
  <2> QED
    BY <1>1, <2>1, <2>2
<1>4. IsInjective(c)
  <2> SUFFICES ASSUME NEW i \in DOMAIN c, NEW j \in DOMAIN c, c[i] = c[j]
               PROVE  i = j
    BY DEF IsInjective
  <2>1. CASE i <= m /\ j <= m
    BY <1>1, <2>1 DEF IsInjective
  <2>2. CASE i > m /\ j > m
    <3>1. /\ i - m \in DOMAIN u /\ j - m \in DOMAIN u
          /\ u[i - m] = u[j - m]
      BY <1>1, <2>2
    <3>2. i - m = j - m
      BY <3>1 DEF IsInjective
    <3> QED
      BY <1>1, <2>2, <3>2
  <2> QED
    BY <1>1, <1>3, <2>1, <2>2
<1> QED
  BY <1>1, <1>2, <1>4 DEF c, m, n

\* Pushing a slot that is not listed adds it to the list.
LEMMA PushLemma ==
  ASSUME NEW S, NEW s \in Seq(S), IsInjective(s), NEW e \in S, e \notin Range(s)
  PROVE  /\ Append(s, e) \in Seq(S) /\ Len(Append(s, e)) = Len(s) + 1
         /\ IsInjective(Append(s, e))
         /\ Range(Append(s, e)) = Range(s) \cup {e}
<1> DEFINE u == <<e>>
<1>1. /\ u \in Seq(S) /\ Len(u) = 1 /\ DOMAIN u = {1} /\ u[1] = e
      /\ Append(s, e) = s \o u
  BY AppendIsConcat
<1> HIDE DEF u
<1>2. IsInjective(u)
  BY <1>1 DEF IsInjective
<1>3. Range(u) = {e}
  BY <1>1 DEF Range
<1>4. Range(s) \cap Range(u) = {}
  BY <1>3
<1> QED
  BY <1>1, <1>2, <1>3, <1>4, JoinLemma

\* A list without repetition has as many entries as slots listed.
LEMMA StackCardinality ==
  ASSUME NEW S, NEW s \in Seq(S), IsInjective(s)
  PROVE  IsFiniteSet(Range(s)) /\ Cardinality(Range(s)) = Len(s)
<1> DEFINE n == Len(s)
<1>1. n \in Nat /\ DOMAIN s = 1..n /\ s \in [1..n -> S]
  OBVIOUS
<1> HIDE DEF n
<1>2. s \in [1..n -> Range(s)]
  BY <1>1 DEF Range
<1>3. \A t \in Range(s) : \E i \in 1..n : s[i] = t
  BY <1>1 DEF Range
<1>4. s \in Bijection(1..n, Range(s))
  BY <1>2, <1>3 DEF Bijection, Injection, Surjection
<1>5. ExistsBijection(1..n, Range(s))
  BY <1>4 DEF ExistsBijection
<1>6. IsFiniteSet(Range(s))
  BY <1>1, <1>5, FS_NatBijection
<1>7. Cardinality(Range(s)) = n
  BY <1>1, <1>5, FS_CountingElements
<1> QED
  BY <1>6, <1>7 DEF n

\* A sequence of all elements of a finite set, each once.
LEMMA SetToSeqsLemma ==
  ASSUME NEW S, IsFiniteSet(S), NEW s \in SetToSeqs(S)
  PROVE  s \in Seq(S) /\ Len(s) = Cardinality(S) /\ IsInjective(s) /\ Range(s) = S
<1> DEFINE n == Cardinality(S)
<1>1. n \in Nat /\ s \in [1..n -> S] /\ \A i, j \in 1..n : i # j => s[i] # s[j]
  BY FS_CardinalityType DEF SetToSeqs
<1> HIDE DEF n
<1>2. s \in Seq(S) /\ Len(s) = n /\ DOMAIN s = 1..n
  BY <1>1
<1>3. IsInjective(s)
  BY <1>1, <1>2 DEF IsInjective
<1>4. s \in Injection(1..n, S)
  BY <1>1, <1>3 DEF Injection
<1>5. Cardinality(1..n) = Cardinality(S)
  BY <1>1, FS_Interval DEF n
<1>6. s \in Surjection(1..n, S)
  BY <1>4, <1>5, FS_Injection
<1>7. Range(s) = S
  BY <1>1, <1>2, <1>6 DEF Surjection, Range
<1> QED
  BY <1>2, <1>3, <1>7 DEF n

\* Counting two disjoint sets, and a set without a part of it.
LEMMA DisjointCardinality ==
  ASSUME NEW S, NEW T, IsFiniteSet(S), IsFiniteSet(T), S \cap T = {}
  PROVE  /\ IsFiniteSet(S \cup T) /\ Cardinality(S \cup T) = Cardinality(S) + Cardinality(T)
<1>1. Cardinality(S) \in Nat /\ Cardinality(T) \in Nat /\ Cardinality(S \cap T) = 0
  BY FS_CardinalityType, FS_EmptySet
<1>2. /\ IsFiniteSet(S \cup T)
      /\ Cardinality(S \cup T) = Cardinality(S) + Cardinality(T) - Cardinality(S \cap T)
  BY FS_Union
<1> QED
  BY <1>1, <1>2

\* Taking a part off a finite set.
LEMMA DifferenceCardinality ==
  ASSUME NEW S, NEW T, IsFiniteSet(S), T \subseteq S
  PROVE  /\ IsFiniteSet(S \ T) /\ IsFiniteSet(T) /\ Cardinality(T) \in Nat
         /\ Cardinality(S \ T) = Cardinality(S) - Cardinality(T)
<1>1. S \cap T = T
  OBVIOUS
<1>2. Cardinality(S \ T) = Cardinality(S) - Cardinality(S \cap T)
  BY FS_Difference
<1>3. IsFiniteSet(T)
  BY FS_Subset
<1> QED
  BY <1>1, <1>2, <1>3, FS_Difference, FS_CardinalityType

\* A function on 1..n is a sequence.
LEMMA FunctionIsSeq ==
  ASSUME NEW S, NEW n \in Nat, NEW s \in [1..n -> S]
  PROVE  s \in Seq(S) /\ Len(s) = n /\ DOMAIN s = 1..n
OBVIOUS

\* The image of a finite set is finite and no larger.
LEMMA ImageFinite ==
  ASSUME NEW S, NEW T, IsFiniteSet(S), NEW f \in [S -> T], \A y \in T : \E x \in S : f[x] = y
  PROVE  IsFiniteSet(T) /\ Cardinality(T) <= Cardinality(S)
<1>1. f \in Surjection(S, T)
  BY DEF Surjection
<1> QED
  BY <1>1, FS_Surjection

\* A sequence has its members in the set it is over.
LEMMA MemberLemma ==
  ASSUME NEW S, NEW s \in Seq(S), NEW i \in DOMAIN s
  PROVE  s[i] \in S
OBVIOUS

\* A sequence over a part of a set is one over the set.
LEMMA SubsetSeq ==
  ASSUME NEW S, NEW T \in SUBSET S, NEW s \in Seq(T)
  PROVE  s \in Seq(S)
OBVIOUS

\* A part of a sequence is one over the same set.
LEMMA SubSeqLemma ==
  ASSUME NEW S, NEW s \in Seq(S), NEW i \in Nat \ {0}, NEW j \in 0 .. Len(s)
  PROVE  SubSeq(s, i, j) \in Seq(S)
OBVIOUS

\* Appending adds a member behind the others.
LEMMA AppendLemma ==
  ASSUME NEW S, NEW s \in Seq(S), NEW x \in S
  PROVE  LET q == Append(s, x)
         IN /\ q \in Seq(S) /\ Len(s) \in Nat /\ Len(q) = Len(s) + 1
            /\ {q[i] : i \in DOMAIN q} = {s[i] : i \in DOMAIN s} \cup {x}
<1> DEFINE q == Append(s, x)
<1>1. q \in Seq(S) /\ Len(s) \in Nat /\ Len(q) = Len(s) + 1
  OBVIOUS
<1>2. DOMAIN s = 1 .. Len(s) /\ DOMAIN q = 1 .. Len(s) + 1
  BY <1>1
<1>3. (\A i \in 1 .. Len(s) : q[i] = s[i]) /\ q[Len(s) + 1] = x
  OBVIOUS
<1>4. /\ \A i \in 1 .. Len(s) : i \in 1 .. Len(s) + 1
      /\ \A i \in 1 .. Len(s) + 1 : i \in 1 .. Len(s) \/ i = Len(s) + 1
      /\ Len(s) + 1 \in 1 .. Len(s) + 1
  BY <1>1
<1> HIDE DEF q
<1>5. {q[i] : i \in 1 .. Len(s) + 1} = {s[i] : i \in 1 .. Len(s)} \cup {x}
  BY <1>3, <1>4
<1> QED
  BY <1>1, <1>2, <1>5 DEF q

\* The first of a sequence and the others.
LEMMA HeadTailLemma ==
  ASSUME NEW S, NEW s \in Seq(S), s # <<>>
  PROVE  Head(s) \in S /\ Tail(s) \in Seq(S)
<1>1. Len(s) \in Nat /\ DOMAIN s = 1 .. Len(s) /\ Len(s) # 0
  OBVIOUS
<1>2. Head(s) = s[1] /\ 1 \in DOMAIN s
  BY <1>1
<1>3. s[1] \in S
  BY <1>2, MemberLemma
<1>4. Tail(s) \in Seq(S)
  OBVIOUS
<1> QED
  BY <1>2, <1>3, <1>4

\* w is s with the members of t behind it.
Longer(S, w, s, t) ==
  /\ w \in Seq(S) /\ Len(w) = Len(s) + Len(t)
  /\ \A i \in 1 .. Len(s) : w[i] = s[i]
  /\ \A i \in 1 .. Len(t) : w[Len(s) + i] = t[i]

\* So is a concatenation.
LEMMA LongerLemma ==
  ASSUME NEW S, NEW s \in Seq(S), NEW t \in Seq(S)
  PROVE  Longer(S, s \o t, s, t)
<1> DEFINE n == Len(s)
           m == Len(t)
           u == s \o t
<1>1. n \in Nat /\ m \in Nat
  OBVIOUS
<1>2. u \in Seq(S) /\ Len(u) = n + m /\ \A i \in 1 .. n + m : u[i] = IF i <= n THEN s[i] ELSE t[i - n]
  BY ConcatProperties
<1> HIDE DEF n, m, u
<1>3. /\ \A i \in 1 .. n : i \in 1 .. n + m /\ i <= n
      /\ \A i \in 1 .. m : n + i \in 1 .. n + m /\ ~(n + i <= n) /\ (n + i) - n = i
  BY <1>1
<1>4. /\ \A i \in 1 .. n : u[i] = s[i]
      /\ \A i \in 1 .. m : u[n + i] = t[i]
  BY <1>2, <1>3
<1> QED
  BY <1>2, <1>4 DEF Longer, n, m, u

\* A strict order on the members of S, and the rank of a member in it.
IsOrderOn(R, S) ==
  /\ \A x \in S : <<x, x>> \notin R
  /\ \A x, y \in S : x # y => <<x, y>> \in R \/ <<y, x>> \in R
  /\ \A x, y, z \in S : <<x, y>> \in R /\ <<y, z>> \in R => <<x, z>> \in R
RankIn(R, S, x) == Cardinality({m \in S : <<m, x>> \in R})
RanksNumber(R, S) ==
  /\ \A x \in S : RankIn(R, S, x) \in 0 .. Cardinality(S) - 1
  /\ \A x, y \in S : RankIn(R, S, x) = RankIn(R, S, y) => x = y
  /\ \A x, y \in S : <<x, y>> \in R => RankIn(R, S, x) < RankIn(R, S, y)
  /\ \A i \in 0 .. Cardinality(S) - 1 : \E x \in S : RankIn(R, S, x) = i

\* An order numbers the members of a finite set from 0.
LEMMA OrderRankLemma ==
  ASSUME NEW S, IsFiniteSet(S), NEW R, IsOrderOn(R, S)
  PROVE  RanksNumber(R, S)
<1> USE DEF IsOrderOn
<1> DEFINE Before(x) == {m \in S : <<m, x>> \in R}
           Rank(x) == Cardinality(Before(x))
           n == Cardinality(S)
<1>1. n \in Nat /\ \A x \in S : IsFiniteSet(Before(x)) /\ Rank(x) \in Nat
  BY FS_CardinalityType, FS_Subset
<1>2. ASSUME NEW x \in S, NEW y \in S, <<x, y>> \in R PROVE Rank(x) < Rank(y)
  <2>1. Before(x) \subseteq Before(y) /\ x \in Before(y) /\ x \notin Before(x)
    BY <1>2
  <2> HIDE DEF Before
  <2>2. Rank(x) <= Rank(y) /\ Rank(x) # Rank(y)
    BY <1>1, <2>1, FS_Subset
  <2> QED
    BY <1>1, <2>2
<1>3. ASSUME NEW x \in S PROVE Rank(x) < n
  <2>1. Before(x) \subseteq S /\ x \notin Before(x)
    OBVIOUS
  <2> HIDE DEF Before
  <2>2. Rank(x) <= n /\ Rank(x) # n
    BY <2>1, FS_Subset
  <2> QED
    BY <1>1, <2>2
<1>4. ASSUME NEW x \in S, NEW y \in S, Rank(x) = Rank(y) PROVE x = y
  <2> SUFFICES ASSUME x # y PROVE FALSE
    OBVIOUS
  <2>1. Rank(x) < Rank(y) \/ Rank(y) < Rank(x)
    BY <1>2
  <2> HIDE DEF Before
  <2> QED
    BY <1>1, <1>4, <2>1
<1>5. \A x \in S : Rank(x) \in 0 .. n - 1
  <2> HIDE DEF Before, n
  <2> QED
    BY <1>1, <1>3
<1> HIDE DEF Before, n
<1> DEFINE f == [x \in S |-> Rank(x)]
<1>6. f \in Injection(S, 0 .. n - 1)
  <2>1. f \in [S -> 0 .. n - 1] /\ \A x, y \in S : f[x] = f[y] => x = y
    BY <1>4, <1>5
  <2> QED
    BY <2>1 DEF Injection, IsInjective
<1>7. IsFiniteSet(0 .. n - 1) /\ Cardinality(0 .. n - 1) = n
  BY <1>1, FS_Interval
<1>8. f \in Surjection(S, 0 .. n - 1)
  <2> HIDE DEF f
  <2> QED
    BY <1>6, <1>7, FS_Injection DEF n
<1>9. \A i \in 0 .. n - 1 : \E x \in S : f[x] = i
  <2> HIDE DEF f
  <2> QED
    BY <1>8 DEF Surjection
<1> QED
  BY <1>2, <1>4, <1>5, <1>9 DEF n, Before, RankIn, RanksNumber

HasLeast(R, S) == \E x \in S : \A y \in S : y = x \/ <<x, y>> \in R

\* A finite set has a least member by its order.
LEMMA LeastInOrder ==
  ASSUME NEW S, IsFiniteSet(S), S # {}, NEW R, IsOrderOn(R, S)
  PROVE  HasLeast(R, S)
<1>1. Cardinality(S) \in Nat /\ Cardinality(S) # 0
  BY FS_CardinalityType, FS_EmptySet
<1>2. 0 \in 0 .. Cardinality(S) - 1
  BY <1>1
<1>3. PICK x \in S : RankIn(R, S, x) = 0
  BY <1>2, OrderRankLemma DEF RanksNumber
<1>4. {m \in S : <<m, x>> \in R} = {}
  <2> DEFINE T == {m \in S : <<m, x>> \in R}
  <2>1. IsFiniteSet(T) /\ Cardinality(T) = 0
    BY <1>3, FS_Subset DEF RankIn
  <2> HIDE DEF T
  <2>2. T = {}
    BY <2>1, FS_EmptySet
  <2> QED
    BY <2>2 DEF T
<1> QED
  BY <1>4 DEF IsOrderOn, HasLeast

\* Counting the smaller members numbers a finite set of integers from 0, in order.
LEMMA RankLemma ==
  ASSUME NEW S, S \subseteq Int, IsFiniteSet(S)
  PROVE  LET Rank(x) == Cardinality({m \in S : m < x}) IN
         /\ \A x \in S : Rank(x) \in 0..(Cardinality(S) - 1)
         /\ \A x, y \in S : x < y => Rank(x) < Rank(y)
         /\ \A i \in 0..(Cardinality(S) - 1) : \E x \in S : Rank(x) = i
<1> DEFINE R == {q \in S \X S : q[1] < q[2]}
           Rank(x) == Cardinality({m \in S : m < x})
<1>1. \A x, y \in S : <<x, y>> \in R <=> x < y
  OBVIOUS
<1>2. \A x \in S : RankIn(R, S, x) = Rank(x)
  <2>1. \A x \in S : {m \in S : <<m, x>> \in R} = {m \in S : m < x}
    BY <1>1
  <2> HIDE DEF R
  <2> QED
    BY <2>1 DEF RankIn
<1> HIDE DEF R, Rank
<1>3. IsOrderOn(R, S)
  BY <1>1 DEF IsOrderOn
<1>4. RanksNumber(R, S)
  BY <1>3, OrderRankLemma
<1>5. \A x \in S : Rank(x) \in 0 .. Cardinality(S) - 1
  BY <1>2, <1>4 DEF RanksNumber
<1>6. ASSUME NEW x \in S, NEW y \in S, x < y PROVE Rank(x) < Rank(y)
  <2>1. <<x, y>> \in R
    BY <1>1, <1>6
  <2>2. RankIn(R, S, x) < RankIn(R, S, y)
    BY <1>4, <2>1 DEF RanksNumber
  <2> QED
    BY <1>2, <2>2
<1>7. \A i \in 0 .. Cardinality(S) - 1 : \E x \in S : Rank(x) = i
  BY <1>2, <1>4 DEF RanksNumber
<1> QED
  BY <1>5, <1>6, <1>7 DEF Rank

-----------------------------------------------------------------------------
(* Induction. *)

\* The order of the numbers, as a relation.
NatLess == {ss \in Nat \X Nat : ss[1] < ss[2]}
\* The order of the numbers is well founded.
LEMMA NatLessIsWellFounded == IsWellFoundedOn(NatLess, Nat)
BY NatLessThanWellFounded DEF OpToRel, NatLess

\* A set of numbers has a least one.
LEMMA LeastNumber ==
  ASSUME NEW T \in SUBSET Nat, T # {}
  PROVE  \E x \in T : \A y \in T : x <= y
<1>1. PICK x \in T : \A y \in T : ~(<<y, x>> \in NatLess)
  BY NatLessIsWellFounded, WFMin
<1>2. \A y \in T : y \in Nat /\ x \in Nat /\ ~(y < x)
  BY <1>1 DEF NatLess
<1> QED
  BY <1>2

\* Induction on the numbers over a set of them.
LEMMA InductiveSet ==
  ASSUME NEW P \in SUBSET Nat, 0 \in P, \A n \in P : n + 1 \in P
  PROVE  P = Nat
<1> SUFFICES ASSUME P # Nat PROVE FALSE
  OBVIOUS
<1>1. PICK x \in Nat \ P : \A y \in Nat \ P : x <= y
  BY LeastNumber
<1>2. x # 0 /\ x - 1 \in Nat
  BY <1>1
<1>3. x - 1 \in P
  BY <1>1, <1>2
<1> QED
  BY <1>1, <1>3

\* f has its first value and goes on by F.
Iterates(f, a, F) == f = [n \in Nat |-> IF n = 0 THEN a ELSE F[n][f[n - 1]]]
\* f has its value at the empty set and goes on by F from a set less the element C takes off it.
SetIterates(f, D, C, a, F) == f = [s \in SUBSET D |-> IF s = {} THEN a ELSE F[C[s]][f[s \ {C[s]}]]]
TakesOff(C, D) == \A s \in SUBSET D : s # {} => C[s] \in s
\* Two functions start alike and step alike.
AlikeOn(f, g, D, C) ==
  /\ f = [s \in SUBSET D |-> f[s]] /\ g = [s \in SUBSET D |-> g[s]] /\ f[{}] = g[{}]
  /\ \A s \in SUBSET D : s # {} /\ f[s \ {C[s]}] = g[s \ {C[s]}] => f[s] = g[s]
SameSteps(f, g) ==
  /\ f = [n \in Nat |-> f[n]] /\ g = [n \in Nat |-> g[n]] /\ f[0] = g[0]
  /\ \A n \in Nat : f[n] = g[n] => f[n + 1] = g[n + 1]

\* A function on the numbers defined by its first value and a step exists.
LEMMA Iteration ==
  ASSUME NEW S, NEW a \in S, NEW F \in [Nat -> [S -> S]]
  PROVE  \E f \in [Nat -> S] : Iterates(f, a, F)
<1> DEFINE Upto(n, g) == /\ g \in [0 .. n -> S] /\ g[0] = a
                         /\ \A i \in 1 .. n : g[i] = F[i][g[i - 1]]
           P == {n \in Nat : \E g : Upto(n, g)}
<1>1. 0 \in P
  <2>1. Upto(0, [i \in 0 .. 0 |-> a])
    OBVIOUS
  <2> QED
    BY <2>1
<1>2. ASSUME NEW n \in P PROVE n + 1 \in P
  <2>1. PICK g : Upto(n, g)
    OBVIOUS
  <2> DEFINE g2 == [i \in 0 .. n + 1 |-> IF i = n + 1 THEN F[n + 1][g[n]] ELSE g[i]]
  <2>2. g[n] \in S /\ n \in Nat
    BY <2>1
  <2>9. F[n + 1][g[n]] \in S
    BY <2>2
  <2>3. g2 \in [0 .. n + 1 -> S]
    BY <2>1, <2>2, <2>9
  <2>4. g2[0] = a
    BY <2>1, <2>2
  <2>5. ASSUME NEW i \in 1 .. n + 1 PROVE g2[i] = F[i][g2[i - 1]]
    BY <2>1, <2>2
  <2> HIDE DEF g2
  <2>6. Upto(n + 1, g2)
    BY <2>3, <2>4, <2>5
  <2> HIDE DEF Upto
  <2> QED
    BY <2>2, <2>6
<1>3. P = Nat
  <2> HIDE DEF P
  <2> QED
    BY <1>1, <1>2, InductiveSet DEF P
<1>4. ASSUME NEW m \in Nat, NEW n \in Nat, m <= n, NEW g, Upto(m, g), NEW h, Upto(n, h)
      PROVE  \A i \in 0 .. m : g[i] = h[i]
  <2> DEFINE Q == {i \in Nat : i <= m => g[i] = h[i]}
  <2>1. 0 \in Q
    BY <1>4
  <2>2. ASSUME NEW i \in Q PROVE i + 1 \in Q
    <3>1. CASE i + 1 <= m
      <4>1. i + 1 \in 1 .. m /\ i + 1 \in 1 .. n /\ (i + 1) - 1 = i /\ g[i] = h[i]
        BY <1>4, <3>1
      <4>2. g[i + 1] = F[i + 1][g[i]] /\ h[i + 1] = F[i + 1][h[i]]
        BY <1>4, <4>1
      <4> QED
        BY <4>1, <4>2
    <3>2. CASE ~(i + 1 <= m)
      BY <3>2
    <3> QED
      BY <3>1, <3>2
  <2>3. Q = Nat
    <3> HIDE DEF Q
    <3>1. Q \in SUBSET Nat
      BY DEF Q
    <3> QED
      BY <2>1, <2>2, <3>1, InductiveSet
  <2> QED
    BY <2>3
<1> DEFINE G(n) == CHOOSE g : Upto(n, g)
           f == [n \in Nat |-> G(n)[n]]
<1>5. \A n \in Nat : Upto(n, G(n))
  <2> TAKE n \in Nat
  <2>1. \E g : Upto(n, g)
    BY <1>3
  <2> HIDE DEF Upto
  <2> QED
    BY <2>1
<1> HIDE DEF G
<1>6. f \in [Nat -> S]
  BY <1>5
<1>7. ASSUME NEW n \in Nat PROVE f[n] = IF n = 0 THEN a ELSE F[n][f[n - 1]]
  <2>1. CASE n = 0
    BY <1>5, <2>1
  <2>2. CASE n # 0
    <3>1. n - 1 \in Nat /\ n - 1 <= n /\ n \in 1 .. n /\ n - 1 \in 0 .. n - 1
      BY <2>2
    <3>2. Upto(n - 1, G(n - 1)) /\ Upto(n, G(n))
      BY <1>5, <3>1
    <3>3. G(n - 1)[n - 1] = G(n)[n - 1]
      <4> HIDE DEF Upto
      <4> QED
        BY <1>4, <3>1, <3>2
    <3>4. G(n)[n] = F[n][G(n)[n - 1]]
      BY <3>1, <3>2
    <3> QED
      BY <2>2, <3>1, <3>3, <3>4
  <2> QED
    BY <2>1, <2>2
<1> HIDE DEF f
<1>8. f = [n \in Nat |-> IF n = 0 THEN a ELSE F[n][f[n - 1]]]
  <2>1. f = [n \in Nat |-> f[n]]
    BY <1>6
  <2> QED
    BY <1>7, <2>1
<1> QED
  BY <1>6, <1>8 DEF Iterates

\* Two functions that start alike and step alike are one.
LEMMA SameIteration ==
  ASSUME NEW f, NEW g, SameSteps(f, g)
  PROVE  f = g
<1> USE DEF SameSteps
<1> DEFINE P == {n \in Nat : f[n] = g[n]}
<1>1. 0 \in P
  OBVIOUS
<1>2. ASSUME NEW n \in P PROVE n + 1 \in P
  <2>1. n \in Nat /\ n + 1 \in Nat /\ f[n] = g[n]
    OBVIOUS
  <2> QED
    BY <2>1
<1>3. P = Nat
  <2>1. P \in SUBSET Nat
    OBVIOUS
  <2> HIDE DEF P
  <2> QED
    BY <1>1, <1>2, <2>1, InductiveSet
<1>4. \A n \in Nat : f[n] = g[n]
  BY <1>3
<1> QED
  BY <1>4

\* A function on the subsets of a finite set, defined by its value on the
\* empty one and a step from the set less a chosen element, exists.
LEMMA SetIteration ==
  ASSUME NEW D, IsFiniteSet(D), NEW C, TakesOff(C, D),
         NEW V, NEW a \in V, NEW F \in [D -> [V -> V]]
  PROVE  \E f \in [SUBSET D -> V] : SetIterates(f, D, C, a, F)
<1>0. \A s \in SUBSET D : s # {} => C[s] \in s
  BY DEF TakesOff
<1> DEFINE Small(n) == {s \in SUBSET D : Cardinality(s) <= n}
           Next(g, s) == IF s = {} THEN a ELSE F[C[s]][g[s \ {C[s]}]]
           Upto(n, g) == g \in [Small(n) -> V] /\ \A s \in Small(n) : g[s] = Next(g, s)
           P == {n \in Nat : \E g : Upto(n, g)}
<1>1. \A s \in SUBSET D : IsFiniteSet(s) /\ Cardinality(s) \in Nat
  BY FS_Subset, FS_CardinalityType
<1>2. ASSUME NEW n \in Nat, NEW s \in Small(n + 1), s # {}
      PROVE  s \ {C[s]} \in Small(n) /\ C[s] \in D
  <2>1. C[s] \in s /\ s \in SUBSET D /\ Cardinality(s) <= n + 1
    BY <1>0, <1>2
  <2>2. Cardinality(s \ {C[s]}) = Cardinality(s) - 1
    BY <1>1, <2>1, FS_RemoveElement
  <2> QED
    BY <1>1, <2>1, <2>2
<1>3. 0 \in P
  <2>1. Small(0) = {{}}
    <3>1. \A s \in Small(0) : s = {}
      BY <1>1, FS_EmptySet
    <3>2. {} \in Small(0)
      BY FS_EmptySet
    <3> QED
      BY <3>1, <3>2
  <2>2. Upto(0, [s \in Small(0) |-> a])
    <3> HIDE DEF Small
    <3> QED
      BY <2>1
  <2> HIDE DEF Upto
  <2> QED
    BY <2>2
<1>4. ASSUME NEW n \in P PROVE n + 1 \in P
  <2>1. PICK g : Upto(n, g)
    OBVIOUS
  <2>2. n \in Nat /\ n + 1 \in Nat
    OBVIOUS
  <2> DEFINE g2 == [s \in Small(n + 1) |-> Next(g, s)]
  <2>3. \A s \in Small(n + 1) : g2[s] = Next(g, s)
    BY DEF g2
  <2> HIDE DEF g2
  <2>4. \A s \in Small(n) : s \in Small(n + 1)
    BY <1>1, <2>2
  <2>5. \A s \in Small(n) : g2[s] = g[s]
    <3> HIDE DEF Small
    <3> QED
      BY <2>1, <2>3, <2>4
  <2>6. ASSUME NEW s \in Small(n + 1) PROVE g2[s] \in V /\ g2[s] = Next(g2, s)
    <3>1. CASE s = {}
      BY <2>3, <3>1
    <3>2. CASE s # {}
      <4>1. s \ {C[s]} \in Small(n) /\ C[s] \in D
        BY <1>2, <2>2, <3>2
      <4> HIDE DEF Small
      <4>2. g[s \ {C[s]}] \in V /\ g2[s \ {C[s]}] = g[s \ {C[s]}]
        BY <2>1, <2>5, <4>1
      <4>3. F[C[s]] \in [V -> V]
        BY <4>1
      <4>4. g2[s] = F[C[s]][g[s \ {C[s]}]]
        BY <2>3, <3>2
      <4> QED
        BY <3>2, <4>2, <4>3, <4>4
    <3> QED
      BY <3>1, <3>2
  <2>7. g2 \in [Small(n + 1) -> V]
    <3>1. g2 = [s \in Small(n + 1) |-> g2[s]]
      BY DEF g2
    <3> HIDE DEF Small, Next
    <3> QED
      BY <2>6, <3>1
  <2>8. Upto(n + 1, g2)
    <3> HIDE DEF Small, Next
    <3> QED
      BY <2>6, <2>7
  <2> HIDE DEF Upto
  <2> QED
    BY <2>2, <2>8
<1>5. P = Nat
  <2>1. P \in SUBSET Nat
    OBVIOUS
  <2> HIDE DEF P
  <2> QED
    BY <1>3, <1>4, <2>1, InductiveSet
<1>6. Cardinality(D) \in P
  BY <1>5, FS_CardinalityType
<1>7. PICK f : Upto(Cardinality(D), f)
  <2> HIDE DEF Upto
  <2> QED
    BY <1>6
<1>8. Small(Cardinality(D)) = SUBSET D
  BY FS_Subset
<1>9. f \in [SUBSET D -> V] /\ f = [s \in SUBSET D |-> Next(f, s)]
  <2>1. f \in [SUBSET D -> V] /\ \A s \in SUBSET D : f[s] = Next(f, s)
    <3> HIDE DEF Small, Next
    <3> QED
      BY <1>7, <1>8
  <2>2. f = [s \in SUBSET D |-> f[s]]
    BY <2>1
  <2> HIDE DEF Next
  <2> QED
    BY <2>1, <2>2
<1> QED
  BY <1>9 DEF SetIterates

\* Two such functions that start alike and step alike are one.
LEMMA SameSetIteration ==
  ASSUME NEW D, IsFiniteSet(D), NEW C, TakesOff(C, D), NEW f, NEW g, AlikeOn(f, g, D, C)
  PROVE  f = g
<1>0. /\ \A s \in SUBSET D : s # {} => C[s] \in s
      /\ f = [s \in SUBSET D |-> f[s]] /\ g = [s \in SUBSET D |-> g[s]] /\ f[{}] = g[{}]
      /\ \A s \in SUBSET D : s # {} /\ f[s \ {C[s]}] = g[s \ {C[s]}] => f[s] = g[s]
  BY DEF TakesOff, AlikeOn
<1> DEFINE P == {n \in Nat : \A s \in SUBSET D : Cardinality(s) <= n => f[s] = g[s]}
<1>1. \A s \in SUBSET D : IsFiniteSet(s) /\ Cardinality(s) \in Nat
  BY FS_Subset, FS_CardinalityType
<1>2. 0 \in P
  <2>1. ASSUME NEW s \in SUBSET D, Cardinality(s) <= 0 PROVE s = {}
    BY <1>1, <2>1, FS_EmptySet
  <2> QED
    BY <1>0, <2>1
<1> DEFINE Same(n) == \A s \in SUBSET D : Cardinality(s) <= n => f[s] = g[s]
<1>9. \A n : n \in P <=> n \in Nat /\ Same(n)
  OBVIOUS
<1>3. ASSUME NEW n \in P PROVE n + 1 \in P
  <2>8. n \in Nat /\ Same(n)
    <3> HIDE DEF P, Same
    <3> QED
      BY <1>3, <1>9
  <2>0. n \in Nat /\ n + 1 \in Nat /\ \A s \in SUBSET D : Cardinality(s) <= n => f[s] = g[s]
    <3> HIDE DEF P
    <3>1. Same(n) /\ n \in Nat
      BY <2>8
    <3>2. n + 1 \in Nat
      <4> HIDE DEF Same
      <4> QED
        BY <3>1
    <3> QED
      BY <3>1, <3>2, Zenon
  <2>1. ASSUME NEW s \in SUBSET D, Cardinality(s) <= n + 1, s # {} PROVE f[s] = g[s]
    <3> DEFINE r == s \ {C[s]}
    <3>1. C[s] \in s
      BY <1>0, <2>1
    <3>2. Cardinality(r) = Cardinality(s) - 1 /\ r \in SUBSET D
      BY <1>1, <3>1, FS_RemoveElement
    <3>3. Cardinality(r) <= n
      BY <1>1, <2>0, <2>1, <3>2
    <3>4. f[r] = g[r]
      BY <2>0, <3>2, <3>3
    <3> QED
      BY <1>0, <2>1, <3>4
  <2>3. \A s \in SUBSET D : s = {} => f[s] = g[s]
    BY <1>0
  <2>2. Same(n + 1)
    BY <2>1, <2>3
  <2> HIDE DEF P, Same
  <2> QED
    BY <1>9, <2>0, <2>2
<1>4. P = Nat
  <2>1. P \in SUBSET Nat
    OBVIOUS
  <2> HIDE DEF P
  <2> QED
    BY <1>2, <1>3, <2>1, InductiveSet
<1>5. ASSUME NEW s \in SUBSET D PROVE f[s] = g[s]
  <2>1. Cardinality(s) \in Nat
    BY <1>1
  <2>2. Same(Cardinality(s))
    <3> HIDE DEF P, Same
    <3> QED
      BY <1>4, <1>9, <2>1
  <2> HIDE DEF P
  <2>3. Cardinality(s) <= Cardinality(s)
    <3> HIDE DEF Same
    <3> QED
      BY <2>1
  <2> QED
    BY <2>2, <2>3, Zenon
<1> QED
  BY <1>0, <1>5

\* The fold of a sequence from the left takes the greatest index off a set.
LEMMA GreatestIndex ==
  ASSUME NEW n \in Nat, NEW s \in SUBSET (1 .. n), s # {}
  PROVE  Max(s) \in s /\ \A i \in s : i <= Max(s)
<1> DEFINE T == {n - i : i \in s}
<1>0. \A i \in s : i \in Nat /\ n - i \in Nat
  OBVIOUS
<1>1. T \in SUBSET Nat /\ T # {}
  BY <1>0
<1>2. PICK t \in T : \A u \in T : t <= u
  BY <1>1, LeastNumber
<1>3. PICK m \in s : t = n - m
  OBVIOUS
<1>4. ASSUME NEW i \in s PROVE i <= m
  <2>1. n - m <= n - i
    BY <1>2, <1>3
  <2> QED
    BY <1>0, <2>1
<1>5. \E x \in s : \A y \in s : x >= y
  BY <1>3, <1>4
<1> QED
  BY <1>5 DEF Max

\* f has its first value and goes on by F for n steps.
IteratesTo(f, n, a, F) == f[0] = a /\ \A i \in 1 .. n : f[i] = F[i][f[i - 1]]

\* A function on 0..n defined by its first value and a step exists.
LEMMA BoundedIteration ==
  ASSUME NEW S, NEW a \in S, NEW n \in Nat, NEW F \in [1 .. n -> [S -> S]]
  PROVE  \E f \in [0 .. n -> S] : IteratesTo(f, n, a, F)
<1> DEFINE G == [i \in Nat |-> IF i \in 1 .. n THEN F[i] ELSE [s \in S |-> s]]
<1>1. G \in [Nat -> [S -> S]]
  OBVIOUS
<1>2. PICK g \in [Nat -> S] : Iterates(g, a, G)
  <2> HIDE DEF G
  <2> QED
    BY <1>1, Iteration
<1>3. \A i \in Nat : g[i] = IF i = 0 THEN a ELSE G[i][g[i - 1]]
  <2> HIDE DEF G
  <2> QED
    BY <1>2 DEF Iterates
<1> DEFINE f == [i \in 0 .. n |-> g[i]]
<1>4. f \in [0 .. n -> S] /\ f[0] = a
  <2>1. \A i \in 0 .. n : g[i] \in S
    OBVIOUS
  <2>2. g[0] = a /\ 0 \in 0 .. n
    <3> HIDE DEF G
    <3> QED
      BY <1>3
  <2> QED
    BY <2>1, <2>2
<1>5. ASSUME NEW i \in 1 .. n PROVE f[i] = F[i][f[i - 1]]
  <2>1. i \in Nat /\ i # 0 /\ i \in 0 .. n /\ i - 1 \in 0 .. n
    OBVIOUS
  <2>2. g[i] = G[i][g[i - 1]]
    <3> HIDE DEF G
    <3> QED
      BY <1>3, <2>1
  <2>3. G[i] = F[i]
    BY <2>1
  <2> HIDE DEF G
  <2> QED
    BY <2>1, <2>2, <2>3
<1> HIDE DEF f
<1> QED
  BY <1>4, <1>5 DEF IteratesTo

\* Induction on 0..n.
LEMMA BoundedInduction ==
  ASSUME NEW n \in Nat, NEW P \in SUBSET (0 .. n), 0 \in P, \A i \in P : i < n => i + 1 \in P
  PROVE  P = 0 .. n
<1> DEFINE Q == {i \in Nat : i <= n => i \in P}
<1>1. Q \in SUBSET Nat /\ 0 \in Q
  OBVIOUS
<1>2. ASSUME NEW i \in Q PROVE i + 1 \in Q
  OBVIOUS
<1>3. Q = Nat
  <2> HIDE DEF Q
  <2> QED
    BY <1>1, <1>2, InductiveSet
<1>4. \A i \in 0 .. n : i \in Q
  <2> HIDE DEF Q
  <2> QED
    BY <1>3
<1>5. \A i \in 0 .. n : i \in P
  <2> TAKE i \in 0 .. n
  <2>1. i \in Nat /\ i <= n /\ i \in Q
    BY <1>4
  <2> QED
    BY <2>1
<1> HIDE DEF Q
<1> QED
  BY <1>5
=============================================================================
