-------------------------------- MODULE Lemmas --------------------------------
(***************************************************************************)
(* Facts about numbers, sums and sequences that the proofs about reports,   *)
(* uploads and the chat share.  Induction is by the least counterexample:  *)
(* the natural numbers, or the subsets of a finite set, at which a formula *)
(* fails, if any, have a least one.                                        *)
(***************************************************************************)
EXTENDS Reports, FiniteSetTheorems, SequenceTheorems, WellFoundedInduction, TLAPS

\* Any set of natural numbers that is not empty has a least element.
LEMMA Least ==
    ASSUME NEW T \in SUBSET Nat, T # {}
    PROVE  \E n \in T : \A m \in T : n <= m
  <1>1. PICK n \in T : \A m \in T : <<m, n>> \notin OpToRel(<, Nat)
    BY NatLessThanWellFounded, WFMin
  <1>2. ASSUME NEW m \in T PROVE n <= m
    <2>1. <<m, n>> \notin {ss \in Nat \X Nat : ss[1] < ss[2]}
      BY <1>1 DEF OpToRel
    <2> QED
      BY <2>1
  <1> QED
    BY <1>2

LEMMA LeastIsMin ==
    ASSUME NEW T \in SUBSET Nat, T # {}
    PROVE  Min(T) \in T /\ \A m \in T : Min(T) <= m
  BY Least DEF Min

\* ... and a largest one, when no element exceeds n.
LEMMA LargestIsMax ==
    ASSUME NEW n \in Nat, NEW T \in SUBSET 0 .. n, T # {}
    PROVE  Max(T) \in T /\ \A m \in T : m <= Max(T)
  <1> DEFINE U == {m \in Nat : \E k \in T : m = n - k}
  <1>1. PICK m \in U : \A j \in U : m <= j
    <2>1. PICK k \in T : TRUE
      OBVIOUS
    <2>2. n - k \in U
      OBVIOUS
    <2>3. U # {} /\ U \in SUBSET Nat
      BY <2>2
    <2> HIDE DEF U
    <2> QED
      BY <2>3, Least
  <1>2. PICK k \in T : m = n - k
    OBVIOUS
  <1>3. ASSUME NEW j \in T PROVE j <= k
    <2>1. n - j \in U
      OBVIOUS
    <2> QED
      BY <1>1, <1>2, <2>1
  <1>4. \E x \in T : \A y \in T : x >= y
    BY <1>2, <1>3
  <1> QED
    BY <1>4 DEF Max

-----------------------------------------------------------------------------
(* The n-th smallest of some numbers.                                      *)

UpTo(S, k) == {j \in S : j <= k}

LEMMA CountType ==
    ASSUME NEW n \in Nat, NEW S, \A m \in S : m \in 1 .. n, NEW k
    PROVE  /\ IsFiniteSet(S) /\ IsFiniteSet(UpTo(S, k))
           /\ Cardinality(S) \in Nat /\ Cardinality(UpTo(S, k)) \in 0 .. Cardinality(S)
  <1>1. IsFiniteSet(1 .. n) /\ S \in SUBSET (1 .. n)
    BY FS_Interval
  <1>2. IsFiniteSet(S)
    BY <1>1, FS_Subset
  <1>3. /\ IsFiniteSet(UpTo(S, k)) /\ Cardinality(UpTo(S, k)) <= Cardinality(S)
    BY <1>2, FS_Subset DEF UpTo
  <1> QED
    BY <1>2, <1>3, FS_CardinalityType

\* Of two members the greater has more below it.
LEMMA CountGrows ==
    ASSUME NEW n \in Nat, NEW S, \A m \in S : m \in 1 .. n, NEW j, NEW k \in S, j < k, j \in Nat
    PROVE  Cardinality(UpTo(S, j)) < Cardinality(UpTo(S, k))
  <1> DEFINE A == UpTo(S, j)
             B == UpTo(S, k)
  <1>1. /\ IsFiniteSet(B) /\ Cardinality(B) \in 0 .. Cardinality(S) /\ Cardinality(S) \in Nat
        /\ Cardinality(A) \in 0 .. Cardinality(S)
    BY CountType
  <1>2. \A m \in S : m \in Nat
    OBVIOUS
  <1>5. A \subseteq B /\ k \in B /\ k \notin A
    BY <1>2 DEF UpTo
  <1>3. Cardinality(A) <= Cardinality(B) /\ (Cardinality(A) = Cardinality(B) => A = B)
    BY <1>1, <1>5, FS_Subset
  <1>4. Cardinality(A) # Cardinality(B)
    BY <1>3, <1>5
  <1> QED
    BY <1>1, <1>3, <1>4

LEMMA NthIs ==
    ASSUME NEW n \in Nat, NEW S, \A m \in S : m \in 1 .. n, NEW g \in 1 .. Cardinality(S)
    PROVE  Nth(S, g) \in S /\ Cardinality(UpTo(S, Nth(S, g))) = g
  <1> DEFINE c(k) == Cardinality(UpTo(S, k))
             Full == {k \in 0 .. n : c(k) >= g}
  <1>1. Cardinality(S) \in Nat /\ \A k : c(k) \in 0 .. Cardinality(S)
    BY CountType
  <1>9. \A m \in S : m \in Nat /\ 1 <= m /\ m <= n
    OBVIOUS
  <1>2. c(n) = Cardinality(S) /\ c(0) = 0
    <2>1. UpTo(S, n) = S /\ UpTo(S, 0) = {}
      BY <1>9 DEF UpTo
    <2> QED
      BY <2>1, FS_EmptySet
  <1>3. PICK k \in Full : \A m \in Full : k <= m
    <2>1. n \in Full /\ Full \in SUBSET Nat
      BY <1>2
    <2> HIDE DEF Full
    <2> QED
      BY <2>1, Least
  <1>4. k \in 1 .. n /\ c(k) >= g
    BY <1>2, <1>3
  <1>5. c(k - 1) < g
    <2>1. k - 1 \in 0 .. n /\ k - 1 \notin Full
      BY <1>3, <1>4
    <2> QED
      BY <1>1, <2>1
  <1>6. k \in S
    <2>1. ASSUME k \notin S PROVE UpTo(S, k) = UpTo(S, k - 1)
      BY <1>4, <1>9, <2>1 DEF UpTo
    <2> QED
      BY <1>1, <1>4, <1>5, <2>1
  <1>7. c(k) = c(k - 1) + 1
    <2>1. UpTo(S, k) = UpTo(S, k - 1) \cup {k} /\ k \notin UpTo(S, k - 1)
      <3>1. \A m \in S : m <= k <=> m <= k - 1 \/ m = k
        BY <1>4, <1>9
      <3>2. \A m : m \in UpTo(S, k) <=> m \in UpTo(S, k - 1) \cup {k}
        BY <1>4, <1>6, <3>1 DEF UpTo
      <3>3. k \notin UpTo(S, k - 1)
        BY <1>4 DEF UpTo
      <3> QED
        BY <3>2, <3>3
    <2>2. IsFiniteSet(UpTo(S, k - 1))
      BY CountType
    <2> QED
      BY <2>1, <2>2, FS_AddElement
  <1>8. c(k) = g
    BY <1>1, <1>4, <1>5, <1>7
  <1>10. \E m \in S : Cardinality({j \in S : j <= m}) = g
    BY <1>6, <1>8 DEF UpTo
  <1> QED
    BY <1>10 DEF Nth, UpTo

\* The n-th smallest are all the members in their order, with none between two neighbours.
LEMMA NthOrder ==
    ASSUME NEW n \in Nat, NEW S, \A m \in S : m \in 1 .. n, NEW g \in 1 .. Cardinality(S)
    PROVE  /\ \A j \in S : Nth(S, 1) <= j
           /\ g < Cardinality(S) => /\ Nth(S, g) < Nth(S, g + 1)
                                    /\ \A j \in S : j <= Nth(S, g) \/ Nth(S, g + 1) <= j
           /\ g = Cardinality(S) => \A j \in S : j <= Nth(S, g)
  <1> DEFINE c(k) == Cardinality(UpTo(S, k))
             size == Cardinality(S)
  <1>1. size \in Nat /\ \A k : c(k) \in 0 .. size
    BY CountType
  <1>2. \A h \in 1 .. size : Nth(S, h) \in S /\ c(Nth(S, h)) = h
    BY NthIs
  <1>3. \A j, k \in S : j < k => c(j) < c(k)
    BY CountGrows
  <1>4. \A j \in S : c(j) >= 1
    <2> SUFFICES ASSUME NEW j \in S PROVE c(0) < c(j)
      BY <1>1
    <2> QED
      BY CountGrows
  <1>8. \A j \in S : j \in Nat
    OBVIOUS
  <1>9. g \in 1 .. size
    OBVIOUS
  <1> HIDE DEF c, size
  <1>5. ASSUME NEW j \in S PROVE Nth(S, 1) <= j
    <2>1. Nth(S, 1) \in S /\ c(Nth(S, 1)) = 1
      <3>1. 1 \in 1 .. size
        BY <1>1, <1>9
      <3> QED
        BY <1>2, <3>1
    <2> QED
      BY <1>1, <1>3, <1>4, <1>8, <2>1
  <1>6. ASSUME g < size
        PROVE  /\ Nth(S, g) < Nth(S, g + 1)
               /\ \A j \in S : j <= Nth(S, g) \/ Nth(S, g + 1) <= j
    <2>1. /\ Nth(S, g) \in S /\ c(Nth(S, g)) = g
          /\ Nth(S, g + 1) \in S /\ c(Nth(S, g + 1)) = g + 1
      BY <1>1, <1>2, <1>6
    <2>2. ASSUME NEW j \in S PROVE j <= Nth(S, g) \/ Nth(S, g + 1) <= j
      BY <1>1, <1>3, <1>8, <2>1
    <2>3. Nth(S, g) < Nth(S, g + 1)
      <3>1. Nth(S, g) # Nth(S, g + 1) /\ ~(Nth(S, g + 1) < Nth(S, g))
        BY <1>1, <1>3, <1>6, <2>1
      <3> QED
        BY <1>8, <2>1, <3>1
    <2> QED
      BY <2>2, <2>3
  <1>7. ASSUME g = size, NEW j \in S PROVE j <= Nth(S, g)
    BY <1>1, <1>2, <1>3, <1>7, <1>8
  <1> QED
    BY <1>5, <1>6, <1>7 DEF size

HasAt(s, I, X) == \A m \in I : s[m] \in X

\* The places of the members of I hold each of them once.
Placed(I) ==
    /\ \A k \in 1 .. Cardinality(I) : Nth(I, k) \in I
    /\ \A m \in I : \E k \in 1 .. Cardinality(I) : Nth(I, k) = m
    /\ \A j, k \in 1 .. Cardinality(I) : Nth(I, j) = Nth(I, k) => j = k

\* So a selection has one element for each position, in the order of the positions.
LEMMA OnlyIs ==
    ASSUME NEW n \in Nat, NEW s, NEW I, \A m \in I : m \in 1 .. n, NEW X, HasAt(s, I, X)
    PROVE  /\ Only(s, I) \in Seq(X) /\ Len(Only(s, I)) = Cardinality(I) /\ Cardinality(I) \in 0 .. n
           /\ Placed(I)
  <1> DEFINE size == Cardinality(I)
  <1>1. size \in 0 .. n /\ IsFiniteSet(I)
    <2>1. IsFiniteSet(1 .. n) /\ Cardinality(1 .. n) = n /\ I \in SUBSET (1 .. n)
      BY FS_Interval
    <2>2. IsFiniteSet(I) /\ Cardinality(I) <= n
      BY <2>1, FS_Subset
    <2> QED
      BY <2>2, FS_CardinalityType
  <1>2. \A k \in 1 .. size : Nth(I, k) \in I /\ Cardinality(UpTo(I, Nth(I, k))) = k
    BY NthIs
  <1>3. Only(s, I) = [k \in 1 .. size |-> s[Nth(I, k)]]
    BY DEF Only
  <1> HIDE DEF size
  <1>4. Only(s, I) \in Seq(X) /\ Len(Only(s, I)) = size
    <2>1. Only(s, I) \in [1 .. size -> X] /\ size \in Nat
      BY <1>1, <1>2, <1>3 DEF HasAt
    <2> QED
      BY <2>1, SeqDef
  <1>5. \A j, k \in 1 .. size : Nth(I, j) = Nth(I, k) => j = k
    BY <1>2
  <1>6. ASSUME NEW m \in I PROVE \E k \in 1 .. size : Nth(I, k) = m
    <2> DEFINE k == Cardinality(UpTo(I, m))
    <2>1. k \in 0 .. size
      BY CountType DEF size
    <2>2. k # 0
      <3>1. m \in UpTo(I, m) /\ IsFiniteSet(UpTo(I, m))
        BY CountType DEF UpTo
      <3> QED
        BY <3>1, FS_EmptySet
    <2>3. k \in 1 .. size
      BY <1>1, <2>1, <2>2
    <2>4. Nth(I, k) \in I /\ Cardinality(UpTo(I, Nth(I, k))) = k
      BY <1>2, <2>3
    <2> HIDE DEF k
    <2>5. \A i, j \in I : i < j => Cardinality(UpTo(I, i)) < Cardinality(UpTo(I, j))
      <3> SUFFICES ASSUME NEW i \in I, NEW j \in I, i < j
                   PROVE  Cardinality(UpTo(I, i)) < Cardinality(UpTo(I, j))
        OBVIOUS
      <3> QED
        BY CountGrows
    <2>6. ~(Nth(I, k) < m) /\ ~(m < Nth(I, k))
      <3>1. Cardinality(UpTo(I, m)) = k /\ k \in Int
        BY <1>1, <2>3 DEF k
      <3> QED
        BY <2>4, <2>5, <3>1
    <2>7. Nth(I, k) = m
      BY <2>4, <2>6
    <2> QED
      BY <2>3, <2>7
  <1> QED
    BY <1>1, <1>2, <1>3, <1>4, <1>5, <1>6 DEF size, Placed

\* Whoever takes all takes the sequence.
LEMMA OnlyAll ==
    ASSUME NEW X, NEW s \in Seq(X)
    PROVE  Only(s, 1 .. Len(s)) = s
  <1> DEFINE n == Len(s)
             I == 1 .. n
  <1>1. n \in Nat /\ \A m \in I : m \in 1 .. n /\ s[m] \in X
    OBVIOUS
  <1>2. Cardinality(I) = n
    <2>1. n - 1 + 1 = n
      BY <1>1
    <2>2. Cardinality(1 .. n) = IF 1 > n THEN 0 ELSE n - 1 + 1
      BY <1>1, FS_Interval
    <2> QED
      BY <1>1, <2>1, <2>2
  <1>3. ASSUME NEW k \in 1 .. n PROVE Nth(I, k) = k
    <2>1. Nth(I, k) \in I /\ Cardinality(UpTo(I, Nth(I, k))) = k
      BY <1>1, <1>2, NthIs
    <2> DEFINE m == Nth(I, k)
    <2>2. UpTo(I, m) = 1 .. m /\ m \in Nat
      BY <2>1 DEF UpTo
    <2> HIDE DEF m
    <2>3. Cardinality(1 .. m) = m
      BY <2>2, FS_Interval
    <2> QED
      BY <2>1, <2>2, <2>3 DEF m
  <1>4. Only(s, I) = [k \in 1 .. n |-> s[Nth(I, k)]]
    BY <1>2 DEF Only
  <1>5. Only(s, I) = [k \in 1 .. n |-> s[k]]
    BY <1>3, <1>4
  <1> QED
    BY <1>5

LEMMA OfTwo ==
    ASSUME NEW a \in Int, NEW b \in Int
    PROVE  /\ Min({a, b}) = IF a <= b THEN a ELSE b
           /\ Max({a, b}) = IF a <= b THEN b ELSE a
  <1>1. \E x \in {a, b} : \A y \in {a, b} : x <= y
    OBVIOUS
  <1>2. \E x \in {a, b} : \A y \in {a, b} : x >= y
    OBVIOUS
  <1>3. Min({a, b}) \in {a, b} /\ \A y \in {a, b} : Min({a, b}) <= y
    BY <1>1 DEF Min
  <1>4. Max({a, b}) \in {a, b} /\ \A y \in {a, b} : Max({a, b}) >= y
    BY <1>2 DEF Max
  <1>5. Min({a, b}) = IF a <= b THEN a ELSE b
    BY <1>3
  <1>6. Max({a, b}) = IF a <= b THEN b ELSE a
    BY <1>4
  <1> QED
    BY <1>5, <1>6

-----------------------------------------------------------------------------
(* Sums over finite sets.                                                  *)

\* Of some subsets of a finite set, one is such that none of them has one element less.
LEMMA Smallest ==
    ASSUME NEW I, IsFiniteSet(I), NEW B \in SUBSET SUBSET I, B # {}
    PROVE  \E s \in B : IsFiniteSet(s) /\ \A x \in s : s \ {x} \notin B
  <1> DEFINE N == {Cardinality(s) : s \in B}
  <1>1. \A s \in B : IsFiniteSet(s) /\ Cardinality(s) \in Nat
    BY FS_Subset, FS_CardinalityType
  <1>2. N \in SUBSET Nat /\ N # {}
    BY <1>1
  <1> PICK n \in N : \A m \in N : n <= m
    BY <1>2, Least
  <1> PICK s \in B : Cardinality(s) = n
    OBVIOUS
  <1>3. ASSUME NEW x \in s, s \ {x} \in B PROVE FALSE
    <2>1. Cardinality(s \ {x}) = Cardinality(s) - 1
      BY <1>1, FS_RemoveElement
    <2>2. n <= Cardinality(s \ {x})
      BY <1>3
    <2> QED
      BY <1>1, <2>1, <2>2
  <1> QED
    BY <1>1, <1>3

Chosen(s) == CHOOSE x \in s : TRUE

SubsetsTo(I, n) == {s \in SUBSET I : Cardinality(s) <= n}

\* g holds the sums of v over some sets.
SumsOver(g, v, S) == g = [s \in S |-> IF s = {} THEN 0 ELSE v[Chosen(s)] + g[s \ {Chosen(s)}]]

LEMMA SumIs ==
    ASSUME NEW v, NEW I
    PROVE  SumOf(v, I) = (CHOOSE g : SumsOver(g, v, SUBSET I))[I]
  BY DEF SumOf, MapThenSumSet, MapThenFoldSet, SumsOver, Chosen

LEMMA OneLess ==
    ASSUME NEW s, IsFiniteSet(s), s # {}
    PROVE  /\ Chosen(s) \in s /\ IsFiniteSet(s \ {Chosen(s)})
           /\ Cardinality(s) \in Nat \ {0} /\ Cardinality(s \ {Chosen(s)}) = Cardinality(s) - 1
  <1>1. Chosen(s) \in s
    BY DEF Chosen
  <1> QED
    BY <1>1, FS_RemoveElement, FS_CardinalityType, FS_EmptySet

LEMMA SumsOneMore ==
    ASSUME NEW I, IsFiniteSet(I), NEW v, NEW n \in Nat \ {0}, NEW f, SumsOver(f, v, SubsetsTo(I, n - 1))
    PROVE  \E g : SumsOver(g, v, SubsetsTo(I, n))
  <1> DEFINE g == [s \in SubsetsTo(I, n) |-> IF Cardinality(s) < n THEN f[s] ELSE v[Chosen(s)] + f[s \ {Chosen(s)}]]
  <1>1. \A s \in SUBSET I : IsFiniteSet(s) /\ Cardinality(s) \in Nat
    BY FS_Subset, FS_CardinalityType
  <1>2. ASSUME NEW s \in SubsetsTo(I, n)
        PROVE  g[s] = IF s = {} THEN 0 ELSE v[Chosen(s)] + g[s \ {Chosen(s)}]
    <2>1. s \in SUBSET I /\ Cardinality(s) \in Nat /\ Cardinality(s) <= n
      BY <1>1 DEF SubsetsTo
    <2>2. s # {} => /\ s \ {Chosen(s)} \in SUBSET I /\ Cardinality(s \ {Chosen(s)}) = Cardinality(s) - 1
                    /\ Cardinality(s \ {Chosen(s)}) \in Nat
      BY <1>1, <2>1, OneLess
    <2>3. s # {} => s \ {Chosen(s)} \in SubsetsTo(I, n) /\ Cardinality(s \ {Chosen(s)}) < n
      BY <2>1, <2>2 DEF SubsetsTo
    <2>4. s # {} => g[s \ {Chosen(s)}] = f[s \ {Chosen(s)}]
      BY <2>3
    <2>5. CASE Cardinality(s) < n
      <3>1. s \in SubsetsTo(I, n - 1)
        BY <2>1, <2>5 DEF SubsetsTo
      <3>2. f[s] = IF s = {} THEN 0 ELSE v[Chosen(s)] + f[s \ {Chosen(s)}]
        BY <3>1 DEF SumsOver
      <3>3. g[s] = f[s]
        BY <2>5
      <3> HIDE DEF g
      <3> QED
        BY <2>4, <3>2, <3>3
    <2>6. CASE ~(Cardinality(s) < n)
      <3>1. s # {}
        BY <2>6, FS_EmptySet
      <3>2. g[s] = v[Chosen(s)] + f[s \ {Chosen(s)}]
        BY <2>6
      <3> HIDE DEF g
      <3> QED
        BY <2>4, <3>1, <3>2
    <2> QED
      BY <2>5, <2>6
  <1>3. SumsOver(g, v, SubsetsTo(I, n))
    BY <1>2 DEF SumsOver
  <1> QED
    BY <1>3

LEMMA SumsExist ==
    ASSUME NEW I, IsFiniteSet(I), NEW v
    PROVE  \E g : SumsOver(g, v, SUBSET I)
  <1> DEFINE Bad == {n \in Nat : ~\E g : SumsOver(g, v, SubsetsTo(I, n))}
  <1>1. Bad = {}
    <2> SUFFICES ASSUME Bad # {} PROVE FALSE
      OBVIOUS
    <2>1. Bad \in SUBSET Nat
      OBVIOUS
    <2> HIDE DEF Bad
    <2>2. PICK n \in Bad : \A m \in Bad : n <= m
      BY <2>1, Least
    <2>3. n \in Nat /\ ~\E g : SumsOver(g, v, SubsetsTo(I, n))
      BY <2>2 DEF Bad
    <2>4. n # 0
      <3>1. SubsetsTo(I, 0) = {{}}
        <4>1. \A s \in SUBSET I : IsFiniteSet(s) /\ Cardinality(s) \in Nat
          BY FS_Subset, FS_CardinalityType
        <4>2. \A s \in SUBSET I : Cardinality(s) <= 0 <=> s = {}
          BY <4>1, FS_EmptySet
        <4> QED
          BY <4>2 DEF SubsetsTo
      <3> DEFINE g == [s \in {{}} |-> 0]
      <3>2. SumsOver(g, v, {{}})
        BY DEF SumsOver
      <3> QED
        BY <2>3, <3>1, <3>2
    <2>5. \E g : SumsOver(g, v, SubsetsTo(I, n - 1))
      BY <2>2, <2>3, <2>4 DEF Bad
    <2> QED
      BY <2>3, <2>4, <2>5, SumsOneMore
  <1>2. Cardinality(I) \in Nat /\ \A s \in SUBSET I : Cardinality(s) <= Cardinality(I)
    BY FS_Subset, FS_CardinalityType
  <1>3. SubsetsTo(I, Cardinality(I)) = SUBSET I
    BY <1>2 DEF SubsetsTo
  <1>4. \E g : SumsOver(g, v, SubsetsTo(I, Cardinality(I)))
    BY <1>1, <1>2
  <1> QED
    BY <1>3, <1>4

LEMMA SumsAreOne ==
    ASSUME NEW I, NEW J, NEW v, NEW w, NEW g, NEW h, SumsOver(g, v, SUBSET I), SumsOver(h, w, SUBSET J),
           NEW K, IsFiniteSet(K), K \subseteq I, K \subseteq J, \A i \in K : v[i] = w[i]
    PROVE  g[K] = h[K]
  <1> DEFINE Bad == {s \in SUBSET K : g[s] # h[s]}
  <1>1. Bad = {}
    <2> SUFFICES ASSUME Bad # {} PROVE FALSE
      OBVIOUS
    <2>1. Bad \in SUBSET SUBSET K
      OBVIOUS
    <2> HIDE DEF Bad
    <2>2. PICK s \in Bad : IsFiniteSet(s) /\ \A x \in s : s \ {x} \notin Bad
      BY <2>1, Smallest
    <2>3. s \in SUBSET K /\ g[s] # h[s]
      BY <2>2 DEF Bad
    <2>4. /\ g[s] = IF s = {} THEN 0 ELSE v[Chosen(s)] + g[s \ {Chosen(s)}]
          /\ h[s] = IF s = {} THEN 0 ELSE w[Chosen(s)] + h[s \ {Chosen(s)}]
      <3>1. s \in SUBSET I /\ s \in SUBSET J
        BY <2>3
      <3> QED
        BY <3>1 DEF SumsOver
    <2>5. s # {} /\ Chosen(s) \in s
      BY <2>3, <2>4 DEF Chosen
    <2>6. g[s \ {Chosen(s)}] = h[s \ {Chosen(s)}] /\ v[Chosen(s)] = w[Chosen(s)]
      BY <2>2, <2>3, <2>5 DEF Bad
    <2> QED
      BY <2>3, <2>4, <2>5, <2>6
  <1> QED
    BY <1>1

\* The sum over a set depends on what is summed, ...
LEMMA SumAgrees ==
    ASSUME NEW I, IsFiniteSet(I), NEW v, NEW w, \A i \in I : v[i] = w[i]
    PROVE  SumOf(v, I) = SumOf(w, I)
  <1> DEFINE g == CHOOSE g : SumsOver(g, v, SUBSET I)
             h == CHOOSE h : SumsOver(h, w, SUBSET I)
  <1>1. SumsOver(g, v, SUBSET I) /\ SumOf(v, I) = g[I]
    BY SumsExist, SumIs
  <1>2. SumsOver(h, w, SUBSET I) /\ SumOf(w, I) = h[I]
    BY SumsExist, SumIs
  <1> HIDE DEF g, h
  <1>3. g[I] = h[I]
    BY <1>1, <1>2, SumsAreOne
  <1> QED
    BY <1>1, <1>2, <1>3

\* ... is zero over nothing, and an element more than that over the others.
LEMMA SumStep ==
    ASSUME NEW I, IsFiniteSet(I), NEW v
    PROVE  SumOf(v, I) = IF I = {} THEN 0 ELSE v[Chosen(I)] + SumOf(v, I \ {Chosen(I)})
  <1> DEFINE g == CHOOSE g : SumsOver(g, v, SUBSET I)
             J == I \ {Chosen(I)}
             h == CHOOSE h : SumsOver(h, v, SUBSET J)
  <1>1. IsFiniteSet(J)
    BY FS_RemoveElement
  <1>2. SumsOver(g, v, SUBSET I) /\ SumOf(v, I) = g[I]
    BY SumsExist, SumIs
  <1>3. SumsOver(h, v, SUBSET J) /\ SumOf(v, J) = h[J]
    <2> HIDE DEF J
    <2> QED
      BY <1>1, SumsExist, SumIs
  <1> HIDE DEF g, h
  <1>4. g[J] = h[J]
    <2>1. J \subseteq I /\ J \subseteq J /\ \A i \in J : v[i] = v[i]
      OBVIOUS
    <2> HIDE DEF J
    <2> QED
      BY <1>1, <1>2, <1>3, <2>1, SumsAreOne
  <1>5. g[I] = IF I = {} THEN 0 ELSE v[Chosen(I)] + g[J]
    BY <1>2 DEF SumsOver
  <1> QED
    BY <1>2, <1>3, <1>4, <1>5

Figures(v, I) == \A i \in I : v[i] \in Int

LEMMA SumType ==
    ASSUME NEW I, IsFiniteSet(I), NEW v, Figures(v, I)
    PROVE  SumOf(v, I) \in Int
  <1> DEFINE Bad == {s \in SUBSET I : SumOf(v, s) \notin Int}
  <1>1. Bad = {}
    <2> SUFFICES ASSUME Bad # {} PROVE FALSE
      OBVIOUS
    <2>1. Bad \in SUBSET SUBSET I
      OBVIOUS
    <2> HIDE DEF Bad
    <2>2. PICK s \in Bad : IsFiniteSet(s) /\ \A x \in s : s \ {x} \notin Bad
      BY <2>1, Smallest
    <2>3. s \in SUBSET I /\ SumOf(v, s) \notin Int
      BY <2>2 DEF Bad
    <2>4. s # {} /\ SumOf(v, s) = v[Chosen(s)] + SumOf(v, s \ {Chosen(s)})
      <3>1. SumOf(v, s) = IF s = {} THEN 0 ELSE v[Chosen(s)] + SumOf(v, s \ {Chosen(s)})
        BY <2>2, SumStep
      <3> QED
        BY <2>3, <3>1
    <2>5. Chosen(s) \in s /\ SumOf(v, s \ {Chosen(s)}) \in Int
      BY <2>2, <2>3, <2>4 DEF Bad, Chosen
    <2>6. v[Chosen(s)] \in Int
      BY <2>3, <2>5 DEF Figures
    <2> QED
      BY <2>3, <2>4, <2>5, <2>6
  <1> QED
    BY <1>1

\* Any element may be the one that is taken out.
LEMMA SumWithout ==
    ASSUME NEW I, IsFiniteSet(I), NEW v, Figures(v, I), NEW y \in I
    PROVE  SumOf(v, I) = v[y] + SumOf(v, I \ {y})
  <1> DEFINE Bad == {s \in SUBSET I : \E z \in s : SumOf(v, s) # v[z] + SumOf(v, s \ {z})}
  <1>1. Bad = {}
    <2> SUFFICES ASSUME Bad # {} PROVE FALSE
      OBVIOUS
    <2>1. Bad \in SUBSET SUBSET I
      OBVIOUS
    <2> HIDE DEF Bad
    <2>2. PICK s \in Bad : IsFiniteSet(s) /\ \A x \in s : s \ {x} \notin Bad
      BY <2>1, Smallest
    <2> PICK z \in s : SumOf(v, s) # v[z] + SumOf(v, s \ {z})
      BY <2>2 DEF Bad
    <2>3. s \in SUBSET I
      BY <2>2 DEF Bad
    <2>4. SumOf(v, s) = v[Chosen(s)] + SumOf(v, s \ {Chosen(s)})
      BY <2>2, SumStep
    <2> PICK x \in s : x = Chosen(s)
      BY DEF Chosen
    <2>5. x # z
      BY <2>4
    <2>6. /\ SumOf(v, s \ {x}) = v[z] + SumOf(v, (s \ {x}) \ {z})
          /\ SumOf(v, s \ {z}) = v[x] + SumOf(v, (s \ {z}) \ {x})
      BY <2>2, <2>3, <2>5 DEF Bad
    <2>7. (s \ {x}) \ {z} = (s \ {z}) \ {x}
      OBVIOUS
    <2>8. v[x] \in Int /\ v[z] \in Int /\ SumOf(v, (s \ {z}) \ {x}) \in Int
      <3>1. IsFiniteSet((s \ {z}) \ {x}) /\ Figures(v, (s \ {z}) \ {x})
        BY <2>2, <2>3, FS_RemoveElement DEF Figures
      <3> QED
        BY <2>3, <3>1, SumType DEF Figures
    <2> PICK t : t = SumOf(v, (s \ {z}) \ {x})
      OBVIOUS
    <2>9. SumOf(v, s) = v[x] + SumOf(v, s \ {x})
      BY <2>4
    <2>10. SumOf(v, s \ {x}) = v[z] + t /\ SumOf(v, s \ {z}) = v[x] + t /\ t \in Int
      BY <2>6, <2>7, <2>8
    <2> QED
      BY <2>8, <2>9, <2>10
  <1> QED
    BY <1>1

LEMMA SumUnion ==
    ASSUME NEW I, IsFiniteSet(I), NEW J, IsFiniteSet(J), I \cap J = {}, NEW v, Figures(v, I \cup J)
    PROVE  SumOf(v, I \cup J) = SumOf(v, I) + SumOf(v, J)
  <1> DEFINE Bad == {s \in SUBSET J : SumOf(v, I \cup s) # SumOf(v, I) + SumOf(v, s)}
  <1>1. Bad = {}
    <2> SUFFICES ASSUME Bad # {} PROVE FALSE
      OBVIOUS
    <2>1. Bad \in SUBSET SUBSET J
      OBVIOUS
    <2> HIDE DEF Bad
    <2>2. PICK s \in Bad : IsFiniteSet(s) /\ \A x \in s : s \ {x} \notin Bad
      BY <2>1, Smallest
    <2>3. s \in SUBSET J /\ SumOf(v, I \cup s) # SumOf(v, I) + SumOf(v, s)
      BY <2>2 DEF Bad
    <2>4. SumOf(v, I) \in Int
      BY SumType DEF Figures
    <2>5. s # {}
      <3> SUFFICES ASSUME s = {} PROVE FALSE
        OBVIOUS
      <3>1. SumOf(v, s) = 0
        BY <2>2, SumStep
      <3>2. SumOf(v, I \cup s) = SumOf(v, I)
        <4>1. I \cup s = I
          OBVIOUS
        <4> QED
          BY <4>1
      <3> QED
        BY <2>3, <2>4, <3>1, <3>2
    <2> PICK x \in s : TRUE
      BY <2>5
    <2>6. SumOf(v, I \cup (s \ {x})) = SumOf(v, I) + SumOf(v, s \ {x})
      BY <2>2, <2>3 DEF Bad
    <2>7. /\ IsFiniteSet(I \cup s) /\ Figures(v, I \cup s) /\ Figures(v, s) /\ Figures(v, s \ {x})
          /\ IsFiniteSet(s \ {x}) /\ (I \cup s) \ {x} = I \cup (s \ {x}) /\ x \in I \cup s
      <3>1. IsFiniteSet(I \cup s) /\ IsFiniteSet(s \ {x})
        BY <2>2, FS_Union, FS_RemoveElement
      <3>2. Figures(v, I \cup s) /\ Figures(v, s) /\ Figures(v, s \ {x})
        BY <2>3 DEF Figures
      <3>3. (I \cup s) \ {x} = I \cup (s \ {x}) /\ x \in I \cup s
        BY <2>3
      <3> QED
        BY <3>1, <3>2, <3>3
    <2>8. SumOf(v, I \cup s) = v[x] + SumOf(v, I \cup (s \ {x}))
      <3>1. SumOf(v, I \cup s) = v[x] + SumOf(v, (I \cup s) \ {x})
        BY <2>7, SumWithout
      <3> QED
        BY <2>7, <3>1
    <2>9. SumOf(v, s) = v[x] + SumOf(v, s \ {x})
      BY <2>2, <2>7, SumWithout
    <2>10. SumOf(v, s \ {x}) \in Int /\ v[x] \in Int
      BY <2>7, SumType DEF Figures
    <2> QED
      BY <2>3, <2>4, <2>6, <2>8, <2>9, <2>10
  <1> QED
    BY <1>1

\* Sums by key add up to the sum.
Having(key, I, L) == {i \in I : key[i] \in L}

LEMMA SumByKey ==
    ASSUME NEW I, IsFiniteSet(I), NEW v, Figures(v, I), NEW key,
           NEW K, IsFiniteSet(K), \A i \in I : key[i] \in K,
           NEW by, \A k \in K : by[k] = SumOf(v, Having(key, I, {k}))
    PROVE  SumOf(by, K) = SumOf(v, I)
  <1>1. ASSUME NEW L
        PROVE  IsFiniteSet(Having(key, I, L)) /\ Figures(v, Having(key, I, L)) /\ SumOf(v, Having(key, I, L)) \in Int
    <2>1. IsFiniteSet(Having(key, I, L)) /\ Figures(v, Having(key, I, L))
      BY FS_Subset DEF Having, Figures
    <2> QED
      BY <2>1, SumType
  <1> DEFINE Bad == {L \in SUBSET K : SumOf(by, L) # SumOf(v, Having(key, I, L))}
  <1>2. Bad = {}
    <2> SUFFICES ASSUME Bad # {} PROVE FALSE
      OBVIOUS
    <2>1. Bad \in SUBSET SUBSET K
      OBVIOUS
    <2> HIDE DEF Bad
    <2>2. PICK L \in Bad : IsFiniteSet(L) /\ \A x \in L : L \ {x} \notin Bad
      BY <2>1, Smallest
    <2>3. L \in SUBSET K /\ SumOf(by, L) # SumOf(v, Having(key, I, L))
      BY <2>2 DEF Bad
    <2>4. L # {}
      <3>1. Having(key, I, {}) = {}
        BY DEF Having
      <3>2. SumOf(v, {}) = 0 /\ SumOf(by, {}) = 0
        BY FS_EmptySet, SumStep
      <3> QED
        BY <2>3, <3>1, <3>2
    <2> PICK x \in L : x = Chosen(L)
      BY <2>4 DEF Chosen
    <2>5. SumOf(by, L) = by[x] + SumOf(by, L \ {x})
      BY <2>2, <2>4, SumStep
    <2>6. SumOf(by, L \ {x}) = SumOf(v, Having(key, I, L \ {x})) /\ by[x] = SumOf(v, Having(key, I, {x}))
      BY <2>2, <2>3 DEF Bad
    <2>7. SumOf(v, Having(key, I, L)) = SumOf(v, Having(key, I, L \ {x})) + SumOf(v, Having(key, I, {x}))
      <3> DEFINE A == Having(key, I, L \ {x})
                 B == Having(key, I, {x})
      <3>1. Having(key, I, L) = A \cup B /\ A \cap B = {}
        BY DEF Having
      <3>2. IsFiniteSet(A) /\ IsFiniteSet(B) /\ Figures(v, A \cup B)
        <4>1. IsFiniteSet(A) /\ IsFiniteSet(B) /\ Figures(v, A) /\ Figures(v, B)
          BY <1>1
        <4> HIDE DEF A, B
        <4> QED
          BY <4>1 DEF Figures
      <3> HIDE DEF A, B
      <3>3. SumOf(v, A \cup B) = SumOf(v, A) + SumOf(v, B)
        BY <3>1, <3>2, SumUnion
      <3> QED
        BY <3>1, <3>3 DEF A, B
    <2> QED
      BY <1>1, <2>3, <2>5, <2>6, <2>7
  <1>3. Having(key, I, K) = I
    BY DEF Having
  <1> QED
    BY <1>2, <1>3

\* Counting the positions from elsewhere does not change a sum.
LEMMA SumShift ==
    ASSUME NEW n \in Nat, NEW v, NEW w, \A i \in 1 .. n : v[i + 1] = w[i], Figures(w, 1 .. n)
    PROVE  SumOf(v, 2 .. n + 1) = SumOf(w, 1 .. n)
  <1> DEFINE Bad == {k \in 0 .. n : SumOf(v, 2 .. k + 1) # SumOf(w, 1 .. k)}
  <1> SUFFICES ASSUME Bad # {} PROVE FALSE
    OBVIOUS
  <1>1. Bad \in SUBSET Nat
    OBVIOUS
  <1> HIDE DEF Bad
  <1>2. PICK k \in Bad : \A m \in Bad : k <= m
    BY <1>1, Least
  <1>3. k \in 0 .. n /\ SumOf(v, 2 .. k + 1) # SumOf(w, 1 .. k)
    BY <1>2 DEF Bad
  <1>4. k # 0
    <2> SUFFICES ASSUME k = 0 PROVE FALSE
      OBVIOUS
    <2>1. 2 .. k + 1 = {} /\ 1 .. k = {}
      OBVIOUS
    <2>2. SumOf(v, {}) = 0 /\ SumOf(w, {}) = 0
      BY FS_EmptySet, SumStep
    <2> QED
      BY <1>3, <2>1, <2>2
  <1>5. SumOf(v, 2 .. k) = SumOf(w, 1 .. k - 1)
    <2>1. k - 1 \in 0 .. n /\ k - 1 \notin Bad /\ (k - 1) + 1 = k
      BY <1>2, <1>3, <1>4
    <2> QED
      BY <2>1 DEF Bad
  <1>6. SumOf(v, 2 .. k + 1) = v[k + 1] + SumOf(v, 2 .. k)
    <2>1. IsFiniteSet(2 .. k + 1) /\ k + 1 \in 2 .. k + 1 /\ (2 .. k + 1) \ {k + 1} = 2 .. k
      <3>1. k \in Nat /\ k + 1 \in Nat /\ 1 <= k
        BY <1>3, <1>4
      <3>2. IsFiniteSet(2 .. k + 1)
        BY <3>1, FS_Interval
      <3>3. k + 1 \in 2 .. k + 1 /\ (2 .. k + 1) \ {k + 1} = 2 .. k
        BY <3>1
      <3> QED
        BY <3>2, <3>3
    <2>2. Figures(v, 2 .. k + 1)
      <3> SUFFICES ASSUME NEW i \in 2 .. k + 1 PROVE v[i] \in Int
        BY DEF Figures
      <3>1. i - 1 \in 1 .. n /\ (i - 1) + 1 = i
        BY <1>3
      <3> QED
        BY <3>1 DEF Figures
    <2>3. SumOf(v, 2 .. k + 1) = v[k + 1] + SumOf(v, (2 .. k + 1) \ {k + 1})
      BY ONLY <2>1, <2>2, SumWithout
    <2> QED
      BY <2>1, <2>3
  <1>7. SumOf(w, 1 .. k) = w[k] + SumOf(w, 1 .. k - 1)
    <2>1. IsFiniteSet(1 .. k) /\ k \in 1 .. k /\ (1 .. k) \ {k} = 1 .. k - 1
      <3>1. k \in Nat /\ k + 1 \in Nat /\ 1 <= k
        BY <1>3, <1>4
      <3>2. IsFiniteSet(1 .. k)
        BY <3>1, FS_Interval
      <3>3. k \in 1 .. k /\ (1 .. k) \ {k} = 1 .. k - 1
        BY <3>1
      <3> QED
        BY <3>2, <3>3
    <2>2. Figures(w, 1 .. k)
      BY <1>3 DEF Figures
    <2>3. SumOf(w, 1 .. k) = w[k] + SumOf(w, (1 .. k) \ {k})
      BY ONLY <2>1, <2>2, SumWithout
    <2> QED
      BY <2>1, <2>3
  <1>8. v[k + 1] = w[k]
    BY <1>3, <1>4
  <1> QED
    BY <1>3, <1>5, <1>6, <1>7, <1>8
=============================================================================
