----------------------------- MODULE IntakeProofs -----------------------------
(***************************************************************************)
(* Theorems about a file's way through an upload, for every value of the   *)
(* constants.  Induction is by the least counterexample: the natural       *)
(* numbers at which a formula fails, if any, have a least one.             *)
(***************************************************************************)
EXTENDS Intake, Lemmas

-----------------------------------------------------------------------------
(* Sequences of sequences, joined.                                         *)

\* f[i] joins the first i sequences of s, up to the n-th.
Joins(f, s, n) == f = [i \in 1 .. n |-> IF i = 1 THEN s[i] ELSE f[i - 1] \o s[i]]

Joinable(X, s, n) == \E f \in [1 .. n -> Seq(X)] : Joins(f, s, n)

LEMMA JoinsOneMore ==
    ASSUME NEW X, NEW s \in Seq(Seq(X)), NEW n \in 2 .. Len(s), Joinable(X, s, n - 1)
    PROVE  Joinable(X, s, n)
  <1>1. PICK f \in [1 .. n - 1 -> Seq(X)] : Joins(f, s, n - 1)
    BY DEF Joinable
  <1>2. n \in Nat /\ n - 1 \in 1 .. n - 1 /\ s[n] \in Seq(X)
    OBVIOUS
  <1>3. PICK j : j = f[n - 1] \o s[n]
    OBVIOUS
  <1>4. j \in Seq(X)
    BY <1>2, <1>3
  <1> DEFINE g == [i \in 1 .. n |-> IF i < n THEN f[i] ELSE j]
  <1>5. g \in [1 .. n -> Seq(X)]
    BY <1>4
  <1>6. ASSUME NEW i \in 1 .. n
        PROVE  g[i] = IF i = 1 THEN s[i] ELSE g[i - 1] \o s[i]
    <2>1. CASE i < n
      <3>1. i \in 1 .. n - 1
        BY <2>1
      <3>2. f[i] = IF i = 1 THEN s[i] ELSE f[i - 1] \o s[i]
        BY <1>1, <3>1 DEF Joins
      <3>3. i # 1 => i - 1 \in 1 .. n /\ i - 1 < n
        BY <2>1
      <3> QED
        BY <2>1, <3>2, <3>3
    <2>2. CASE i = n
      <3>1. g[n] = j /\ g[n - 1] = f[n - 1] /\ n # 1
        OBVIOUS
      <3> HIDE DEF g
      <3> QED
        BY <1>3, <2>2, <3>1
    <2> QED
      BY <2>1, <2>2
  <1>7. Joins(g, s, n)
    BY <1>6 DEF Joins
  <1> QED
    BY <1>5, <1>7 DEF Joinable

LEMMA JoinsOne ==
    ASSUME NEW X, NEW s \in Seq(Seq(X)), s # << >>
    PROVE  Joinable(X, s, 1)
  <1>1. s[1] \in Seq(X)
    OBVIOUS
  <1> DEFINE g == [i \in 1 .. 1 |-> s[1]]
  <1>2. g \in [1 .. 1 -> Seq(X)] /\ Joins(g, s, 1)
    BY <1>1 DEF Joins
  <1> QED
    BY <1>2 DEF Joinable

LEMMA AllJoinable ==
    ASSUME NEW X, NEW s \in Seq(Seq(X)), NEW k \in 1 .. Len(s)
    PROVE  Joinable(X, s, k)
  <1> DEFINE Bad == {n \in 1 .. Len(s) : ~Joinable(X, s, n)}
  <1> SUFFICES ASSUME Bad # {} PROVE FALSE
    OBVIOUS
  <1>1. Bad \in SUBSET Nat
    OBVIOUS
  <1> HIDE DEF Bad
  <1>2. PICK n \in Bad : \A m \in Bad : n <= m
    BY <1>1, Least
  <1>3. n \in 1 .. Len(s) /\ ~Joinable(X, s, n)
    BY <1>2 DEF Bad
  <1>4. n # 1
    BY <1>3, JoinsOne
  <1>5. Joinable(X, s, n - 1)
    BY <1>2, <1>3, <1>4 DEF Bad
  <1> QED
    BY <1>3, <1>4, <1>5, JoinsOneMore

\* What joins, joins to sequences.
LEMMA JoinsAreSequences ==
    ASSUME NEW X, NEW s \in Seq(Seq(X)), NEW f, Joins(f, s, Len(s)), NEW k \in 1 .. Len(s)
    PROVE  f[k] \in Seq(X)
  <1> DEFINE Bad == {n \in 1 .. Len(s) : f[n] \notin Seq(X)}
  <1> SUFFICES ASSUME Bad # {} PROVE FALSE
    OBVIOUS
  <1>1. Bad \in SUBSET Nat
    OBVIOUS
  <1>2. \A n \in 1 .. Len(s) : f[n] = IF n = 1 THEN s[n] ELSE f[n - 1] \o s[n]
    BY DEF Joins
  <1>3. \A n \in 1 .. Len(s) : s[n] \in Seq(X)
    OBVIOUS
  <1> HIDE DEF Bad
  <1>4. PICK n \in Bad : \A m \in Bad : n <= m
    BY <1>1, Least
  <1>5. n \in 1 .. Len(s) /\ f[n] \notin Seq(X)
    BY <1>4 DEF Bad
  <1>6. n # 1
    BY <1>2, <1>3, <1>5
  <1>7. f[n - 1] \in Seq(X) /\ s[n] \in Seq(X)
    BY <1>3, <1>4, <1>5, <1>6 DEF Bad
  <1>8. f[n] = f[n - 1] \o s[n]
    BY <1>2, <1>5, <1>6
  <1>9. f[n - 1] \o s[n] \in Seq(X)
    BY <1>7
  <1> QED
    BY <1>5, <1>8, <1>9

\* FlattenSeq is the last of the joins, each of which appends the next sequence.
LEMMA FlattenJoins ==
    ASSUME NEW X, NEW s \in Seq(Seq(X)), s # << >>
    PROVE  \E f : /\ \A i \in 1 .. Len(s) : f[i] \in Seq(X)
                  /\ f[1] = s[1]
                  /\ \A i \in 2 .. Len(s) : f[i] = f[i - 1] \o s[i]
                  /\ f[Len(s)] = FlattenSeq(s)
  <1> DEFINE h == CHOOSE f : Joins(f, s, Len(s))
  <1>1. Len(s) \in 1 .. Len(s) /\ Len(s) # 0
    OBVIOUS
  <1>2. \E f : Joins(f, s, Len(s))
    BY <1>1, AllJoinable DEF Joinable
  <1>3. Joins(h, s, Len(s))
    BY <1>2
  <1>4. FlattenSeq(s) = h[Len(s)]
    BY <1>1 DEF FlattenSeq, Joins
  <1>5. \A i \in 1 .. Len(s) : h[i] \in Seq(X)
    BY <1>3, JoinsAreSequences
  <1>6. \A i \in 1 .. Len(s) : h[i] = IF i = 1 THEN s[i] ELSE h[i - 1] \o s[i]
    BY <1>3 DEF Joins
  <1> HIDE DEF h
  <1>7. h[1] = s[1]
    BY <1>1, <1>6
  <1>8. ASSUME NEW i \in 2 .. Len(s)
        PROVE  h[i] = h[i - 1] \o s[i]
    <2>1. i \in 1 .. Len(s) /\ i # 1
      OBVIOUS
    <2> QED
      BY <1>6, <2>1
  <1> QED
    BY <1>4, <1>5, <1>7, <1>8

\* So whatever grows by the sequences of s one by one ends as their join.
LEMMA FlattenIs ==
    ASSUME NEW X, NEW s \in Seq(Seq(X)), s # << >>,
           NEW p, p[1] = s[1], \A i \in 2 .. Len(s) : p[i] = p[i - 1] \o s[i]
    PROVE  FlattenSeq(s) = p[Len(s)]
  <1>1. PICK f : /\ f[1] = s[1]
                 /\ \A i \in 2 .. Len(s) : f[i] = f[i - 1] \o s[i]
                 /\ f[Len(s)] = FlattenSeq(s)
    BY FlattenJoins
  <1> DEFINE Bad == {n \in 1 .. Len(s) : f[n] # p[n]}
  <1>2. Bad = {}
    <2> SUFFICES ASSUME Bad # {} PROVE FALSE
      OBVIOUS
    <2>1. Bad \in SUBSET Nat
      OBVIOUS
    <2> HIDE DEF Bad
    <2>2. PICK n \in Bad : \A m \in Bad : n <= m
      BY <2>1, Least
    <2>3. n \in 1 .. Len(s) /\ f[n] # p[n] /\ n # 1
      BY <1>1, <2>2 DEF Bad
    <2>4. f[n - 1] = p[n - 1] /\ n \in 2 .. Len(s)
      BY <2>2, <2>3 DEF Bad
    <2>5. f[n] = f[n - 1] \o s[n] /\ p[n] = p[n - 1] \o s[n]
      BY <1>1, <2>4
    <2> QED
      BY <2>3, <2>4, <2>5
  <1>3. Len(s) \in 1 .. Len(s)
    OBVIOUS
  <1> QED
    BY <1>1, <1>2, <1>3

-----------------------------------------------------------------------------
(* Splitting: the pages of a file, in order, by the documents' starts.     *)

Opt(T) == T \cup {None}

\* The number known at a page is its own, or the one known before it.
LEMMA KnownSteps ==
    ASSUME NEW numbers \in Seq(Opt(Texts)), NEW k \in 1 .. Len(numbers)
    PROVE  /\ numbers[k] # None => Known(numbers)[k] = numbers[k]
           /\ numbers[k] = None /\ k > 1 => Known(numbers)[k] = Known(numbers)[k - 1]
  <1> DEFINE told(m) == {j \in 1 .. m : numbers[j] # None}
  <1>1. \A m \in 1 .. Len(numbers) :
           Known(numbers)[m] = IF told(m) = {} THEN None ELSE numbers[Max(told(m))]
    BY DEF Known
  <1>2. ASSUME numbers[k] # None PROVE Known(numbers)[k] = numbers[k]
    <2>1. k \in told(k) /\ \A j \in told(k) : j <= k
      BY <1>2
    <2>2. \A x \in told(k) : (\A y \in told(k) : x >= y) => x = k
      BY <2>1
    <2>3. Max(told(k)) = k
      BY <2>1, <2>2 DEF Max
    <2> QED
      BY <1>1, <2>1, <2>3
  <1>3. ASSUME numbers[k] = None, k > 1 PROVE Known(numbers)[k] = Known(numbers)[k - 1]
    <2>1. k - 1 \in 1 .. Len(numbers) /\ told(k) = told(k - 1)
      BY <1>3
    <2> QED
      BY <1>1, <2>1
  <1> QED
    BY <1>2, <1>3

\* The pages of document g, [first, last].
First(numbers, g) == Nth(Starts(numbers), g)
Ending(numbers, g) ==
    IF g = Cardinality(Starts(numbers)) THEN Len(numbers) ELSE First(numbers, g + 1) - 1

LEMMA StartsAre ==
    ASSUME NEW numbers \in Seq(Opt(Texts)), numbers # << >>
    PROVE  /\ \A m \in Starts(numbers) : m \in 1 .. Len(numbers)
           /\ 1 \in Starts(numbers)
           /\ Cardinality(Starts(numbers)) \in Nat \ {0}
  <1>1. /\ \A m \in Starts(numbers) : m \in 1 .. Len(numbers)
        /\ 1 \in Starts(numbers)
    BY DEF Starts
  <1>2. Len(numbers) \in Nat
    OBVIOUS
  <1>3. IsFiniteSet(Starts(numbers)) /\ Cardinality(Starts(numbers)) \in Nat
    BY <1>1, <1>2, CountType
  <1> QED
    BY <1>1, <1>3, FS_EmptySet

\* Documents follow each other without a gap, and no page inside one starts another.
LEMMA DocumentsTile ==
    ASSUME NEW numbers \in Seq(Opt(Texts)), numbers # << >>,
           NEW g \in 1 .. Cardinality(Starts(numbers))
    PROVE  /\ First(numbers, g) \in Starts(numbers)
           /\ First(numbers, g) \in 1 .. Len(numbers) /\ Ending(numbers, g) \in 1 .. Len(numbers)
           /\ First(numbers, g) <= Ending(numbers, g)
           /\ g = 1 <=> First(numbers, g) = 1
           /\ g > 1 => First(numbers, g) = Ending(numbers, g - 1) + 1
           /\ g = Cardinality(Starts(numbers)) => Ending(numbers, g) = Len(numbers)
           /\ \A k \in First(numbers, g) + 1 .. Ending(numbers, g) : k \notin Starts(numbers)
  <1> PICK S, n : S = Starts(numbers) /\ n = Len(numbers)
    OBVIOUS
  <1>1. /\ n \in Nat /\ \A m \in S : m \in 1 .. n
        /\ 1 \in S /\ Cardinality(S) \in Nat \ {0}
    BY StartsAre
  <1>2. \A h \in 1 .. Cardinality(S) : Nth(S, h) \in S /\ Nth(S, h) \in 1 .. n
    BY <1>1, NthIs
  <1>3. \A h \in 1 .. Cardinality(S) :
           /\ \A j \in S : Nth(S, 1) <= j
           /\ h < Cardinality(S) => /\ Nth(S, h) < Nth(S, h + 1)
                                    /\ \A j \in S : j <= Nth(S, h) \/ Nth(S, h + 1) <= j
           /\ h = Cardinality(S) => \A j \in S : j <= Nth(S, h)
    BY <1>1, NthOrder
  <1>4. Nth(S, 1) = 1
    <2>1. 1 \in 1 .. Cardinality(S)
      BY <1>1
    <2>2. Nth(S, 1) <= 1 /\ Nth(S, 1) \in 1 .. n
      BY <1>1, <1>2, <1>3, <2>1
    <2> QED
      BY <2>2
  <1>5. g \in 1 .. Cardinality(S) /\ First(numbers, g) = Nth(S, g)
    BY DEF First
  <1>6. Ending(numbers, g) = IF g = Cardinality(S) THEN n ELSE Nth(S, g + 1) - 1
    BY DEF First, Ending
  <1>7. Nth(S, g) \in S /\ Nth(S, g) \in 1 .. n
    BY <1>2, <1>5
  <1>8. Ending(numbers, g) \in Nth(S, g) .. n /\ \A j \in S : j <= Nth(S, g) \/ Ending(numbers, g) < j
    <2>1. CASE g = Cardinality(S)
      <3>1. \A j \in S : j <= Nth(S, g)
        BY <1>3, <1>5, <2>1
      <3> QED
        BY <1>1, <1>6, <1>7, <2>1, <3>1
    <2>2. CASE g < Cardinality(S)
      <3>1. g + 1 \in 1 .. Cardinality(S)
        BY <1>1, <1>5, <2>2
      <3>2. Nth(S, g + 1) \in 1 .. n /\ Nth(S, g) < Nth(S, g + 1)
        BY <1>2, <1>3, <1>5, <2>2, <3>1
      <3>3. \A j \in S : j <= Nth(S, g) \/ Nth(S, g + 1) <= j
        BY <1>3, <1>5, <2>2
      <3> QED
        BY <1>1, <1>6, <1>7, <2>2, <3>2, <3>3
    <2> QED
      BY <1>1, <1>5, <2>1, <2>2
  <1>9. ASSUME g > 1
        PROVE  First(numbers, g) = Ending(numbers, g - 1) + 1 /\ First(numbers, g) # 1
    <2>1. g - 1 \in 1 .. Cardinality(S) /\ g - 1 < Cardinality(S) /\ (g - 1) + 1 = g
      BY <1>1, <1>5, <1>9
    <2>2. Nth(S, g - 1) < Nth(S, g) /\ Nth(S, g - 1) \in 1 .. n
      BY <1>2, <1>3, <2>1
    <2>3. Ending(numbers, g - 1) = Nth(S, g) - 1
      BY <1>1, <2>1 DEF First, Ending
    <2> QED
      BY <1>5, <1>7, <2>2, <2>3
  <1>10. \A k \in First(numbers, g) + 1 .. Ending(numbers, g) : k \notin S
    BY <1>1, <1>5, <1>7, <1>8
  <1> QED
    BY <1>1, <1>4, <1>5, <1>6, <1>7, <1>8, <1>9, <1>10

LEMMA GroupsAre ==
    ASSUME NEW numbers \in Seq(Opt(Texts)), numbers # << >>
    PROVE  /\ Groups(numbers) \in Seq(Seq(Nat)) /\ Groups(numbers) # << >>
           /\ Len(Groups(numbers)) = Cardinality(Starts(numbers))
           /\ \A g \in 1 .. Len(Groups(numbers)) :
                 Groups(numbers)[g] = [i \in 1 .. Ending(numbers, g) - First(numbers, g) + 1 |->
                                          First(numbers, g) + i - 1]
  <1> PICK count : count = Cardinality(Starts(numbers))
    OBVIOUS
  <1>1. count \in Nat \ {0}
    BY StartsAre
  <1> DEFINE group(g) == [i \in 1 .. Ending(numbers, g) - First(numbers, g) + 1 |->
                             First(numbers, g) + i - 1]
  <1>2. Groups(numbers) = [g \in 1 .. count |-> group(g)]
    BY DEF Groups, First, Ending
  <1>3. ASSUME NEW g \in 1 .. count
        PROVE  group(g) \in Seq(Nat)
    <2>1. /\ First(numbers, g) \in Nat /\ Ending(numbers, g) \in Nat
          /\ 1 <= First(numbers, g) /\ First(numbers, g) <= Ending(numbers, g)
      BY DocumentsTile
    <2> PICK n : n = Ending(numbers, g) - First(numbers, g) + 1
      OBVIOUS
    <2>2. n \in Nat
      BY <2>1
    <2>3. group(g) \in [1 .. n -> Nat]
      BY <2>1
    <2> HIDE DEF group
    <2>4. group(g) \in UNION {[1 .. k -> Nat] : k \in Nat}
      BY <2>2, <2>3
    <2> QED
      BY <2>2, <2>4, SeqDef
  <1> HIDE DEF group
  <1>4. Groups(numbers) \in Seq(Seq(Nat)) /\ Len(Groups(numbers)) = count
    BY <1>1, <1>2, <1>3
  <1>5. \A g \in 1 .. count : Groups(numbers)[g] = group(g)
    BY <1>2
  <1> QED
    BY <1>1, <1>4, <1>5 DEF group

\* Joined, the documents are the file.
LEMMA GroupsJoin ==
    ASSUME NEW numbers \in Seq(Opt(Texts)), numbers # << >>
    PROVE  FlattenSeq(Groups(numbers)) = [i \in 1 .. Len(numbers) |-> i]
  <1> PICK gs : gs = Groups(numbers)
    OBVIOUS
  <1> DEFINE pages(n) == [i \in 1 .. n |-> i]
             p == [g \in 1 .. Len(gs) |-> pages(Ending(numbers, g))]
  <1>1. /\ gs \in Seq(Seq(Nat)) /\ gs # << >> /\ Len(gs) = Cardinality(Starts(numbers))
        /\ \A g \in 1 .. Len(gs) :
              gs[g] = [i \in 1 .. Ending(numbers, g) - First(numbers, g) + 1 |-> First(numbers, g) + i - 1]
    BY GroupsAre
  <1>2. 1 \in 1 .. Len(gs) /\ Len(gs) \in 1 .. Len(gs)
    BY <1>1
  <1>3. \A g \in 1 .. Len(gs) :
           /\ First(numbers, g) \in 1 .. Len(numbers) /\ Ending(numbers, g) \in 1 .. Len(numbers)
           /\ First(numbers, g) <= Ending(numbers, g)
           /\ g = 1 <=> First(numbers, g) = 1
           /\ g > 1 => First(numbers, g) = Ending(numbers, g - 1) + 1
           /\ g = Len(gs) => Ending(numbers, g) = Len(numbers)
    BY <1>1, DocumentsTile
  <1>4. p[1] = gs[1]
    <2>1. First(numbers, 1) = 1 /\ Ending(numbers, 1) \in Nat
      BY <1>2, <1>3
    <2> QED
      BY <1>1, <1>2, <2>1
  <1>5. ASSUME NEW g \in 2 .. Len(gs)
        PROVE  p[g] = p[g - 1] \o gs[g]
    <2> PICK a, b : a = Ending(numbers, g - 1) /\ b = Ending(numbers, g)
      OBVIOUS
    <2>1. g \in 1 .. Len(gs) /\ g - 1 \in 1 .. Len(gs) /\ g > 1
      OBVIOUS
    <2>2. First(numbers, g) = a + 1 /\ a \in Nat /\ b \in Nat /\ a + 1 <= b
      BY <1>3, <2>1
    <2>3. p[g] = pages(b) /\ p[g - 1] = pages(a)
      BY <2>1
    <2>4. gs[g] = [i \in 1 .. b - a |-> a + i]
      <3>1. gs[g] = [i \in 1 .. b - (a + 1) + 1 |-> (a + 1) + i - 1]
        BY <1>1, <2>1, <2>2
      <3>2. b - (a + 1) + 1 = b - a /\ \A i \in 1 .. b - a : (a + 1) + i - 1 = a + i
        BY <2>2
      <3> QED
        BY <3>1, <3>2
    <2>5. pages(b) = pages(a) \o [i \in 1 .. b - a |-> a + i]
      BY <2>2
    <2> QED
      BY <2>3, <2>4, <2>5
  <1> HIDE DEF p
  <1>6. FlattenSeq(gs) = p[Len(gs)]
    BY <1>1, <1>4, <1>5, FlattenIs
  <1> QED
    BY <1>2, <1>3, <1>6 DEF p

\* A number seen in a document is the one known at every later page of it.
LEMMA DocumentKnows ==
    ASSUME NEW numbers \in Seq(Opt(Texts)), numbers # << >>,
           NEW g \in 1 .. Cardinality(Starts(numbers)),
           NEW j \in First(numbers, g) .. Ending(numbers, g), numbers[j] # None,
           NEW k \in j .. Ending(numbers, g)
    PROVE  Known(numbers)[k] = numbers[j]
  <1> DEFINE Bad == {m \in j .. Ending(numbers, g) : Known(numbers)[m] # numbers[j]}
  <1> SUFFICES ASSUME Bad # {} PROVE FALSE
    OBVIOUS
  <1>1. /\ First(numbers, g) \in 1 .. Len(numbers) /\ Ending(numbers, g) \in 1 .. Len(numbers)
        /\ \A m \in First(numbers, g) + 1 .. Ending(numbers, g) : m \notin Starts(numbers)
    BY DocumentsTile
  <1>2. j \in 1 .. Len(numbers) /\ First(numbers, g) <= j /\ j <= Ending(numbers, g)
    BY <1>1
  <1>3. Bad \in SUBSET Nat
    BY <1>1, <1>2
  <1> HIDE DEF Bad
  <1>4. PICK m \in Bad : \A x \in Bad : m <= x
    BY <1>3, Least
  <1>5. m \in j .. Ending(numbers, g) /\ m \in 1 .. Len(numbers) /\ Known(numbers)[m] # numbers[j]
    BY <1>1, <1>2, <1>4 DEF Bad
  <1>6. m # j
    BY <1>5, KnownSteps
  <1>7. m - 1 \in j .. Ending(numbers, g) /\ m - 1 \notin Bad /\ m > 1
    BY <1>1, <1>2, <1>4, <1>5, <1>6
  <1>8. Known(numbers)[m - 1] = numbers[j]
    BY <1>7 DEF Bad
  <1>9. m \notin Starts(numbers)
    BY <1>1, <1>2, <1>5, <1>6
  <1>10. numbers[m] = None \/ numbers[m] = Known(numbers)[m - 1]
    BY <1>5, <1>8, <1>9 DEF Starts
  <1> QED
    BY <1>5, <1>7, <1>8, <1>10, KnownSteps

\* The pages of document g, as page numbers of the file.
LEMMA DocumentPages ==
    ASSUME NEW numbers \in Seq(Opt(Texts)), numbers # << >>,
           NEW g \in 1 .. Cardinality(Starts(numbers))
    PROVE  /\ NumbersOf(numbers, Groups(numbers)[g])
                 = {numbers[k] : k \in First(numbers, g) .. Ending(numbers, g)} \ {None}
           /\ Groups(numbers)[g][1] = First(numbers, g)
           /\ Groups(numbers)[g] # << >>
           /\ \A i \in DOMAIN Groups(numbers)[g] : Groups(numbers)[g][i] \in 1 .. Len(numbers)
  <1> PICK a, b, d : a = First(numbers, g) /\ b = Ending(numbers, g) /\ d = Groups(numbers)[g]
    OBVIOUS
  <1>1. a \in 1 .. Len(numbers) /\ b \in 1 .. Len(numbers) /\ a <= b
    BY DocumentsTile
  <1>2. d = [i \in 1 .. b - a + 1 |-> a + i - 1]
    BY GroupsAre
  <1>3. a \in Nat /\ b \in Nat /\ 1 <= a /\ b <= Len(numbers) /\ Len(numbers) \in Nat
    BY <1>1
  <1>4. DOMAIN d = 1 .. b - a + 1 /\ \A i \in 1 .. b - a + 1 : d[i] = a + i - 1
    BY <1>2
  <1>5. d[1] = a /\ d # << >>
    BY <1>1, <1>2, <1>3
  <1>6. \A i \in DOMAIN d : d[i] \in a .. b
    <2>1. \A i \in 1 .. b - a + 1 : a + i - 1 \in a .. b
      BY <1>1, <1>3
    <2> QED
      BY <1>4, <2>1
  <1>7. ASSUME NEW k \in a .. b PROVE \E i \in DOMAIN d : d[i] = k
    <2>1. k - a + 1 \in 1 .. b - a + 1 /\ a + (k - a + 1) - 1 = k
      BY <1>1, <1>3
    <2> QED
      BY <1>4, <2>1
  <1>8. \A x : x \in {numbers[d[i]] : i \in DOMAIN d} <=> x \in {numbers[k] : k \in a .. b}
    BY <1>6, <1>7
  <1>9. NumbersOf(numbers, d) = {numbers[k] : k \in a .. b} \ {None}
    BY <1>8 DEF NumbersOf
  <1>10. \A i \in DOMAIN d : d[i] \in 1 .. Len(numbers)
    BY <1>3, <1>6
  <1> QED
    BY <1>5, <1>9, <1>10

\* A document has one number at most, the one known at its last page.
LEMMA DocumentNumber ==
    ASSUME NEW numbers \in Seq(Opt(Texts)), numbers # << >>,
           NEW g \in 1 .. Cardinality(Starts(numbers))
    PROVE  /\ NumbersOf(numbers, Groups(numbers)[g]) \subseteq {Known(numbers)[Ending(numbers, g)]}
           /\ Cardinality(NumbersOf(numbers, Groups(numbers)[g])) <= 1
  <1> PICK a, b, N : /\ a = First(numbers, g) /\ b = Ending(numbers, g)
                     /\ N = NumbersOf(numbers, Groups(numbers)[g])
    OBVIOUS
  <1>1. a \in 1 .. Len(numbers) /\ b \in 1 .. Len(numbers) /\ a <= b
    BY DocumentsTile
  <1>2. N = {numbers[k] : k \in a .. b} \ {None}
    BY DocumentPages
  <1>3. ASSUME NEW k \in a .. b, numbers[k] # None
        PROVE  numbers[k] = Known(numbers)[b]
    <2>1. b \in k .. b
      BY <1>1
    <2> QED
      BY <1>3, <2>1, DocumentKnows
  <1>4. N \subseteq {Known(numbers)[b]}
    BY <1>2, <1>3
  <1>5. /\ IsFiniteSet({Known(numbers)[b]}) /\ Cardinality({Known(numbers)[b]}) = 1
    BY FS_Singleton
  <1>6. Cardinality(N) <= 1
    BY <1>4, <1>5, FS_Subset
  <1> QED
    BY <1>4, <1>6

\* A later document begins with a number that the one before does not have.
LEMMA DocumentsDiffer ==
    ASSUME NEW numbers \in Seq(Opt(Texts)), numbers # << >>,
           NEW g \in 2 .. Cardinality(Starts(numbers))
    PROVE  /\ NumbersOf(numbers, Groups(numbers)[g]) # NumbersOf(numbers, Groups(numbers)[g - 1])
           /\ numbers[Groups(numbers)[g][1]] # None
  <1> PICK s : s = First(numbers, g)
    OBVIOUS
  <1>1. g \in 1 .. Cardinality(Starts(numbers)) /\ g - 1 \in 1 .. Cardinality(Starts(numbers)) /\ g > 1 /\ g # 1
    BY StartsAre
  <1>2. /\ s \in Starts(numbers) /\ s # 1
        /\ s \in 1 .. Len(numbers) /\ Ending(numbers, g) \in 1 .. Len(numbers) /\ s <= Ending(numbers, g)
        /\ s = Ending(numbers, g - 1) + 1
    BY <1>1, DocumentsTile
  <1>3. numbers[s] # None /\ Known(numbers)[s - 1] # numbers[s]
    BY <1>2 DEF Starts
  <1>4. numbers[s] \in NumbersOf(numbers, Groups(numbers)[g]) /\ Groups(numbers)[g][1] = s
    <2>1. s \in s .. Ending(numbers, g)
      BY <1>2
    <2> QED
      BY <1>1, <1>3, <2>1, DocumentPages
  <1>5. Ending(numbers, g - 1) = s - 1
    <2>1. Ending(numbers, g - 1) \in 1 .. Len(numbers)
      BY <1>1, DocumentsTile
    <2> QED
      BY <1>2, <2>1
  <1>6. numbers[s] \notin NumbersOf(numbers, Groups(numbers)[g - 1])
    BY <1>1, <1>3, <1>5, DocumentNumber
  <1> QED
    BY <1>3, <1>4, <1>6

\* A sequence of one sequence is that one, joined.
LEMMA FlattenOne ==
    ASSUME NEW X, NEW x \in Seq(X)
    PROVE  FlattenSeq(<<x>>) = x
  <1>1. <<x>> \in Seq(Seq(X)) /\ <<x>> # << >> /\ Len(<<x>>) = 1 /\ <<x>>[1] = x
    OBVIOUS
  <1>2. \A i \in 2 .. Len(<<x>>) : <<x>>[i] = <<x>>[i - 1] \o <<x>>[i]
    BY <1>1
  <1> QED
    BY <1>1, <1>2, FlattenIs

\* Splitting leaves documents of at least one page each, all pages of the file.
LEMMA SplitIs ==
    ASSUME NEW f \in Files
    PROVE  /\ Split(f) \in Seq(Seq(Nat)) /\ Split(f) # << >>
           /\ FlattenSeq(Split(f)) = [i \in DOMAIN Contents[f].pages |-> i]
           /\ \A g \in DOMAIN Split(f) : Split(f)[g] # << >>
           /\ \A g \in DOMAIN Split(f) : \A i \in DOMAIN Split(f)[g] : Split(f)[g][i] \in DOMAIN Contents[f].pages
           /\ Numbers(f) \in Seq(Opt(Texts)) /\ Numbers(f) # << >> /\ Len(Numbers(f)) = Len(Contents[f].pages)
  <1> PICK c, pages, numbers : c = Contents[f] /\ pages = c.pages /\ numbers = Numbers(f)
    OBVIOUS
  <1>1. c \in Content
    BY IntakeAssumption
  <1>2. pages \in Seq(Page) /\ pages # << >>
    BY <1>1 DEF Content
  <1>3. numbers \in Seq(Opt(Texts)) /\ numbers # << >> /\ Len(numbers) = Len(pages)
    <2>1. numbers = [i \in 1 .. Len(pages) |-> pages[i].number]
      BY <1>2 DEF Numbers
    <2>2. \A i \in 1 .. Len(pages) : pages[i].number \in Opt(Texts)
      <3>1. \A i \in 1 .. Len(pages) : pages[i] \in Page
        BY <1>2
      <3> QED
        BY <3>1 DEF Page, Opt
    <2>3. Len(pages) \in Nat /\ Len(pages) # 0
      BY <1>2
    <2>4. numbers \in Seq(Opt(Texts)) /\ Len(numbers) = Len(pages)
      BY <2>1, <2>2, <2>3
    <2> QED
      BY <2>3, <2>4
  <1>4. DOMAIN pages = 1 .. Len(pages) /\ Len(pages) \in Nat \ {0}
    BY <1>2
  <1> DEFINE all == [i \in 1 .. Len(pages) |-> i]
  <1>5. CASE c.kind = "pdf" /\ c.readable
    <2>1. Split(f) = Groups(numbers)
      BY <1>5 DEF Split
    <2>2. Split(f) \in Seq(Seq(Nat)) /\ Split(f) # << >> /\ FlattenSeq(Split(f)) = all
      BY <1>3, <2>1, GroupsAre, GroupsJoin
    <2>3. ASSUME NEW g \in DOMAIN Split(f)
          PROVE  Split(f)[g] # << >> /\ \A i \in DOMAIN Split(f)[g] : Split(f)[g][i] \in 1 .. Len(pages)
      <3>1. g \in 1 .. Cardinality(Starts(numbers))
        BY <1>3, <2>1, GroupsAre
      <3> QED
        BY <1>3, <2>1, <3>1, DocumentPages
    <2> QED
      BY <1>3, <1>4, <2>2, <2>3
  <1>6. CASE ~(c.kind = "pdf" /\ c.readable)
    <2>1. Split(f) = <<all>>
      BY <1>4, <1>6 DEF Split
    <2>2. all \in Seq(Nat) /\ all # << >> /\ Len(all) = Len(pages)
      BY <1>4
    <2> HIDE DEF all
    <2>3. Split(f) \in Seq(Seq(Nat)) /\ Split(f) # << >> /\ FlattenSeq(Split(f)) = all
      <3>1. FlattenSeq(<<all>>) = all
        BY <2>2, FlattenOne
      <3>2. <<all>> \in Seq(Seq(Nat)) /\ <<all>> # << >>
        BY <2>2
      <3> QED
        BY <2>1, <3>1, <3>2
    <2>4. \A g \in DOMAIN Split(f) : g = 1 /\ Split(f)[g] = all
      BY <2>1
    <2>5. \A i \in DOMAIN all : all[i] \in 1 .. Len(pages)
      BY DEF all
    <2> QED
      BY <1>3, <1>4, <2>2, <2>3, <2>4, <2>5 DEF all
  <1> QED
    BY <1>5, <1>6

-----------------------------------------------------------------------------
(* Reading: chunks of a document, and what is merged of them.              *)

\* The chunks of some pages, joined, are the pages; none is empty.
LEMMA ChunksJoin ==
    ASSUME NEW X, NEW pages \in Seq(X), pages # << >>
    PROVE  Chunks(pages) \in Seq(Seq(X)) /\ Chunks(pages) # << >> /\ FlattenSeq(Chunks(pages)) = pages
  <1> PICK L, C, K : L = Len(pages) /\ C = ChunkSize /\ K = (L + C - 1) \div C
    OBVIOUS
  <1>1. L \in Nat \ {0} /\ C \in Nat \ {0}
    BY IntakeAssumption
  <1>2. K \in Nat \ {0} /\ L <= K * C /\ (K - 1) * C < L
    BY <1>1
  <1> DEFINE upto(n) == IF n * C <= L THEN n * C ELSE L
             chunk(n) == SubSeq(pages, (n - 1) * C + 1, upto(n))
             p == [n \in 1 .. K |-> SubSeq(pages, 1, upto(n))]
  <1>3. \A x, y \in Nat : Min({x, y}) = IF x <= y THEN x ELSE y
    <2> SUFFICES ASSUME NEW x \in Nat, NEW y \in Nat PROVE Min({x, y}) = IF x <= y THEN x ELSE y
      OBVIOUS
    <2>1. {x, y} \in SUBSET Nat /\ {x, y} # {}
      OBVIOUS
    <2>2. Min({x, y}) \in {x, y} /\ \A m \in {x, y} : Min({x, y}) <= m
      BY <2>1, LeastIsMin
    <2> QED
      BY <2>2
  <1>4. ASSUME NEW n \in 1 .. K
        PROVE  n * C \in Nat /\ Min({n * C, L}) = upto(n)
    <2>1. n * C \in Nat
      BY <1>1
    <2> QED
      BY <1>1, <1>3, <2>1
  <1>5. Chunks(pages) = [n \in 1 .. K |-> chunk(n)]
    BY <1>4 DEF Chunks
  <1>6. ASSUME NEW n \in 1 .. K
        PROVE  /\ upto(n) \in 1 .. L /\ (n - 1) * C \in 0 .. upto(n)
               /\ n > 1 => (n - 1) * C = upto(n - 1)
               /\ n = 1 => (n - 1) * C = 0
               /\ n = K => upto(n) = L
    <2>1. (n - 1) * C + C = n * C /\ (n - 1) * C \in Nat /\ n * C \in Nat
      BY <1>1, <1>2
    <2>2. (n - 1) * C < L
      BY <1>1, <1>2
    <2> PICK x, y : x = (n - 1) * C /\ y = n * C
      OBVIOUS
    <2>3. upto(n) = (IF y <= L THEN y ELSE L) /\ upto(n - 1) = IF x <= L THEN x ELSE L
      OBVIOUS
    <2>4. n = 1 => x = 0
      BY <1>1
    <2>5. n = K => L <= y
      BY <1>2
    <2> HIDE DEF upto
    <2>6. x + C = y /\ x \in Nat /\ y \in Nat /\ x < L
      BY <2>1, <2>2
    <2>7. upto(n) \in 1 .. L /\ x \in 0 .. upto(n) /\ upto(n - 1) = x /\ (n = K => upto(n) = L)
      BY <1>1, <2>3, <2>5, <2>6
    <2> QED
      BY <2>4, <2>7
  <1>7. ASSUME NEW n \in 1 .. K
        PROVE  chunk(n) \in Seq(X)
    <2> PICK x, y : x = (n - 1) * C + 1 /\ y = upto(n)
      OBVIOUS
    <2>1. x \in 1 .. y + 1 /\ y \in 1 .. L
      BY <1>6
    <2>2. \A i \in x .. y : pages[i] \in X
      BY <1>1, <2>1
    <2> HIDE DEF upto
    <2>3. SubSeq(pages, x, y) \in Seq(X)
      BY <2>1, <2>2, SubSeqProperties
    <2> QED
      BY <2>3
  <1>8. Chunks(pages) \in Seq(Seq(X)) /\ Chunks(pages) # << >> /\ Len(Chunks(pages)) = K
    <2> HIDE DEF chunk
    <2>1. K \in Nat /\ K # 0
      BY <1>2
    <2>2. [n \in 1 .. K |-> chunk(n)] \in Seq(Seq(X)) /\ Len([n \in 1 .. K |-> chunk(n)]) = K
      BY <1>7, <2>1
    <2> QED
      BY <1>5, <2>1, <2>2
  <1>9. p[1] = chunk(1)
    BY <1>2, <1>6
  <1>10. ASSUME NEW n \in 2 .. K
         PROVE  p[n] = p[n - 1] \o chunk(n)
    <2> PICK a, b : a = upto(n - 1) /\ b = upto(n)
      OBVIOUS
    <2>1. n \in 1 .. K /\ n - 1 \in 1 .. K /\ n > 1
      BY <1>2
    <2>2. chunk(n) = SubSeq(pages, a + 1, b) /\ p[n] = SubSeq(pages, 1, b) /\ p[n - 1] = SubSeq(pages, 1, a)
      BY <1>6, <2>1
    <2>3. a \in 1 .. L /\ b \in 1 .. L /\ a <= b
      BY <1>6, <2>1
    <2> HIDE DEF chunk, p, upto
    <2>4. SubSeq(pages, 1, b) = SubSeq(pages, 1, a) \o SubSeq(pages, a + 1, b)
      <3>1. 1 \in 1 .. Len(pages) + 1 /\ a \in 1 - 1 .. Len(pages) /\ b \in a .. Len(pages)
        BY <1>1, <2>3
      <3> QED
        BY <3>1, ConcatAdjacentSubSeq
    <2> QED
      BY <2>2, <2>4
  <1>11. p[K] = pages
    <2>1. p[K] = SubSeq(pages, 1, L)
      BY <1>2, <1>6
    <2> QED
      BY <2>1, SubSeqFull
  <1>12. Chunks(pages)[1] = chunk(1) /\ \A n \in 2 .. K : Chunks(pages)[n] = chunk(n)
    <2> HIDE DEF chunk
    <2>1. 1 \in 1 .. K /\ \A n \in 2 .. K : n \in 1 .. K
      BY <1>2
    <2> QED
      BY <1>5, <2>1
  <1> HIDE DEF p, chunk
  <1>13. FlattenSeq(Chunks(pages)) = p[K]
    <2>1. p[1] = Chunks(pages)[1] /\ \A n \in 2 .. K : p[n] = p[n - 1] \o Chunks(pages)[n]
      BY <1>9, <1>10, <1>12
    <2> QED
      BY <1>8, <2>1, FlattenIs
  <1> QED
    BY <1>8, <1>11, <1>13

\* The first of some values that is one: all before it are None.
LEMMA FirstOfAllIs ==
    ASSUME NEW T, NEW values \in Seq(Opt(T))
    PROVE  /\ FirstOfAll(values) \in Opt(T)
           /\ FirstOfAll(values) = None <=> \A i \in 1 .. Len(values) : values[i] = None
           /\ \A i \in 1 .. Len(values) :
                 values[i] # None /\ (\A j \in 1 .. i - 1 : values[j] = None) => FirstOfAll(values) = values[i]
           /\ FirstOfAll(values) # None =>
                 \E i \in 1 .. Len(values) : values[i] # None /\ \A j \in 1 .. i - 1 : values[j] = None
  <1> DEFINE told == {i \in 1 .. Len(values) : values[i] # None}
  <1>0. DOMAIN values = 1 .. Len(values)
    OBVIOUS
  <1>1. FirstOfAll(values) = IF told = {} THEN None ELSE values[Min(told)]
    BY <1>0 DEF FirstOfAll
  <1>2. told \in SUBSET Nat
    OBVIOUS
  <1>3. told # {} => Min(told) \in told /\ \A m \in told : Min(told) <= m
    <2> HIDE DEF told
    <2> QED
      BY <1>2, LeastIsMin
  <1>4. \A i \in 1 .. Len(values) : values[i] \in Opt(T)
    OBVIOUS
  <1>5. FirstOfAll(values) \in Opt(T)
    BY <1>1, <1>3, <1>4 DEF Opt
  <1>6. FirstOfAll(values) = None <=> \A i \in 1 .. Len(values) : values[i] = None
    BY <1>1, <1>3
  <1>7. ASSUME NEW i \in 1 .. Len(values), values[i] # None, \A j \in 1 .. i - 1 : values[j] = None
        PROVE  FirstOfAll(values) = values[i]
    <2>1. i \in told /\ \A m \in told : i <= m
      BY <1>7
    <2>2. Min(told) = i
      BY <1>2, <1>3, <2>1
    <2> QED
      BY <1>1, <2>1, <2>2
  <1>8. ASSUME FirstOfAll(values) # None
        PROVE  \E i \in 1 .. Len(values) : values[i] # None /\ \A j \in 1 .. i - 1 : values[j] = None
    <2> PICK i : i = Min(told)
      OBVIOUS
    <2>1. i \in 1 .. Len(values) /\ values[i] # None /\ \A m \in told : i <= m
      BY <1>1, <1>3, <1>8
    <2>2. ASSUME NEW j \in 1 .. i - 1 PROVE values[j] = None
      BY <2>1
    <2> QED
      BY <2>1, <2>2
  <1> QED
    BY <1>5, <1>6, <1>7, <1>8

\* The first value of two sequences is that of the one, or else of the other.
LEMMA FirstOfBoth ==
    ASSUME NEW T, NEW a \in Seq(Opt(T)), NEW b \in Seq(Opt(T))
    PROVE  FirstOfAll(a \o b) = IF FirstOfAll(a) # None THEN FirstOfAll(a) ELSE FirstOfAll(b)
  <1> PICK both : both = a \o b
    OBVIOUS
  <1>1. /\ both \in Seq(Opt(T)) /\ Len(both) = Len(a) + Len(b)
        /\ \A i \in 1 .. Len(a) + Len(b) : both[i] = IF i <= Len(a) THEN a[i] ELSE b[i - Len(a)]
    BY ConcatProperties
  <1>2. Len(a) \in Nat /\ Len(b) \in Nat
    OBVIOUS
  <1>3. CASE FirstOfAll(a) # None
    <2>3. PICK i \in 1 .. Len(a) : a[i] # None /\ \A j \in 1 .. i - 1 : a[j] = None
      BY <1>3, FirstOfAllIs
    <2>4. i \in 1 .. Len(both) /\ both[i] = a[i] /\ \A j \in 1 .. i - 1 : both[j] = None
      BY <1>1, <1>2, <2>3
    <2> QED
      BY <1>1, <1>3, <2>3, <2>4, FirstOfAllIs
  <1>4. CASE FirstOfAll(a) = None /\ FirstOfAll(b) # None
    <2>0. \A i \in 1 .. Len(a) : a[i] = None
      BY <1>4, FirstOfAllIs
    <2>3. PICK i \in 1 .. Len(b) : b[i] # None /\ \A j \in 1 .. i - 1 : b[j] = None
      BY <1>4, FirstOfAllIs
    <2>4. Len(a) + i \in 1 .. Len(both) /\ both[Len(a) + i] = b[i]
      BY <1>1, <1>2, <2>3
    <2>5. ASSUME NEW j \in 1 .. Len(a) + i - 1 PROVE both[j] = None
      BY <1>1, <1>2, <2>0, <2>3, <2>5
    <2> PICK m : m = Len(a) + i
      OBVIOUS
    <2>6. FirstOfAll(both) = both[m]
      <3>1. m \in 1 .. Len(both) /\ both[m] # None /\ \A j \in 1 .. m - 1 : both[j] = None
        BY <2>3, <2>4, <2>5
      <3> QED
        BY <1>1, <3>1, FirstOfAllIs
    <2>7. FirstOfAll(b) = b[i]
      BY <2>3, FirstOfAllIs
    <2> QED
      BY <1>4, <2>4, <2>6, <2>7
  <1>5. CASE FirstOfAll(a) = None /\ FirstOfAll(b) = None
    <2>1. (\A i \in 1 .. Len(a) : a[i] = None) /\ (\A i \in 1 .. Len(b) : b[i] = None)
      BY <1>5, FirstOfAllIs
    <2>2. \A i \in 1 .. Len(both) : both[i] = None
      BY <1>1, <1>2, <2>1
    <2> QED
      BY <1>1, <1>5, <2>2, FirstOfAllIs
  <1> QED
    BY <1>3, <1>4, <1>5

\* What stands on some pages, in their order.
Seen(numbers, pages) == [i \in DOMAIN pages |-> numbers[pages[i]]]

LEMMA SeenType ==
    ASSUME NEW numbers \in Seq(Opt(Texts)), NEW pages \in Seq(DOMAIN numbers)
    PROVE  Seen(numbers, pages) \in Seq(Opt(Texts)) /\ Len(Seen(numbers, pages)) = Len(pages)
  <1>1. \A i \in 1 .. Len(pages) : pages[i] \in DOMAIN numbers
    OBVIOUS
  <1>2. \A i \in 1 .. Len(pages) : numbers[pages[i]] \in Opt(Texts)
    BY <1>1
  <1>3. Seen(numbers, pages) = [i \in 1 .. Len(pages) |-> numbers[pages[i]]] /\ Len(pages) \in Nat
    BY DEF Seen
  <1> QED
    BY <1>2, <1>3

\* A sequence that agrees with two others, one after the other.
LEMMA ConcatIs ==
    ASSUME NEW X, NEW a \in Seq(X), NEW b \in Seq(X), NEW c \in Seq(X), Len(c) = Len(a) + Len(b),
           \A i \in 1 .. Len(a) : c[i] = a[i], \A i \in 1 .. Len(b) : c[Len(a) + i] = b[i]
    PROVE  c = a \o b
  <1>1. /\ a \o b \in Seq(X) /\ Len(a \o b) = Len(a) + Len(b)
        /\ \A i \in 1 .. Len(a) + Len(b) : (a \o b)[i] = IF i <= Len(a) THEN a[i] ELSE b[i - Len(a)]
    BY ConcatProperties
  <1>2. Len(a) \in Nat /\ Len(b) \in Nat
    OBVIOUS
  <1> PICK d : d = a \o b
    OBVIOUS
  <1>3. ASSUME NEW i \in 1 .. Len(c) PROVE c[i] = d[i]
    <2>1. CASE i <= Len(a)
      BY <1>1, <1>2, <2>1
    <2>2. CASE ~(i <= Len(a))
      <3>1. i - Len(a) \in 1 .. Len(b) /\ Len(a) + (i - Len(a)) = i
        BY <1>2, <2>2
      <3>2. c[Len(a) + (i - Len(a))] = b[i - Len(a)]
        BY <3>1
      <3> QED
        BY <1>1, <2>2, <3>1, <3>2
    <2> QED
      BY <2>1, <2>2
  <1>4. d \in Seq(X) /\ Len(d) = Len(c)
    BY <1>1
  <1>5. c = d
    BY <1>3, <1>4
  <1> QED
    BY <1>5

LEMMA SeenOfBoth ==
    ASSUME NEW numbers \in Seq(Opt(Texts)), NEW a \in Seq(DOMAIN numbers), NEW b \in Seq(DOMAIN numbers)
    PROVE  Seen(numbers, a \o b) = Seen(numbers, a) \o Seen(numbers, b)
  <1> PICK both : both = a \o b
    OBVIOUS
  <1>1. /\ both \in Seq(DOMAIN numbers) /\ Len(both) = Len(a) + Len(b)
        /\ \A i \in 1 .. Len(a) + Len(b) : both[i] = IF i <= Len(a) THEN a[i] ELSE b[i - Len(a)]
    BY ConcatProperties
  <1>0. PICK sa, sb, sc : sa = Seen(numbers, a) /\ sb = Seen(numbers, b) /\ sc = Seen(numbers, both)
    OBVIOUS
  <1>2. /\ sa \in Seq(Opt(Texts)) /\ Len(sa) = Len(a) /\ \A i \in 1 .. Len(a) : sa[i] = numbers[a[i]]
        /\ sb \in Seq(Opt(Texts)) /\ Len(sb) = Len(b) /\ \A i \in 1 .. Len(b) : sb[i] = numbers[b[i]]
        /\ sc \in Seq(Opt(Texts)) /\ Len(sc) = Len(both) /\ \A i \in 1 .. Len(both) : sc[i] = numbers[both[i]]
    BY <1>0, <1>1, SeenType DEF Seen
  <1>3. Len(a) \in Nat /\ Len(b) \in Nat
    OBVIOUS
  <1>4. \A i \in 1 .. Len(a) : both[i] = a[i] /\ sc[i] = sa[i]
    BY <1>1, <1>2, <1>3
  <1>5. ASSUME NEW i \in 1 .. Len(b) PROVE sc[Len(a) + i] = sb[i]
    <2>1. Len(a) + i \in 1 .. Len(a) + Len(b) /\ ~(Len(a) + i <= Len(a)) /\ Len(a) + i - Len(a) = i
      BY <1>3
    <2> PICK m : m = Len(a) + i
      OBVIOUS
    <2>2. m \in 1 .. Len(both) /\ both[m] = b[i]
      BY <1>1, <2>1
    <2>3. sc[m] = numbers[both[m]] /\ sb[i] = numbers[b[i]]
      BY <1>2, <2>2
    <2> QED
      BY <2>2, <2>3
  <1>6. sc = sa \o sb
    <2>1. Len(sc) = Len(sa) + Len(sb) /\ \A i \in 1 .. Len(sa) : sc[i] = sa[i]
      BY <1>1, <1>2, <1>4
    <2>2. \A i \in 1 .. Len(sb) : sc[Len(sa) + i] = sb[i]
      BY <1>2, <1>5
    <2>3. sa \in Seq(Opt(Texts)) /\ sb \in Seq(Opt(Texts)) /\ sc \in Seq(Opt(Texts))
      BY <1>2
    <2> QED
      BY <2>1, <2>2, <2>3, ConcatIs
  <1> QED
    BY <1>0, <1>6

\* What is read of some pages is the pages themselves and the first number on them.
LEMMA ReadIs ==
    ASSUME NEW f \in Files, NEW pages \in Seq(DOMAIN Numbers(f))
    PROVE  /\ ReadPages(f, pages) = [items |-> pages, number |-> FirstOfAll(Seen(Numbers(f), pages))]
           /\ ReadPages(f, pages) \in Part
  <1>1. ReadPages(f, pages) = [items |-> pages, number |-> FirstOfAll(Seen(Numbers(f), pages))]
    BY DEF ReadPages, Seen
  <1>2. Numbers(f) \in Seq(Opt(Texts))
    BY SplitIs
  <1>3. FirstOfAll(Seen(Numbers(f), pages)) \in Opt(Texts)
    BY <1>2, SeenType, FirstOfAllIs
  <1>4. DOMAIN Numbers(f) \subseteq Nat
    BY <1>2
  <1>5. pages \in Seq(Nat)
    BY <1>4
  <1> QED
    BY <1>1, <1>3, <1>5 DEF Opt, Part

\* The number of the first n chunks together is the first of their numbers.
LEMMA NumbersJoin ==
    ASSUME NEW numbers \in Seq(Opt(Texts)), NEW chunks \in Seq(Seq(DOMAIN numbers)), chunks # << >>
    PROVE  FirstOfAll(Seen(numbers, FlattenSeq(chunks)))
              = FirstOfAll([c \in 1 .. Len(chunks) |-> FirstOfAll(Seen(numbers, chunks[c]))])
  <1> DEFINE first(pages) == FirstOfAll(Seen(numbers, pages))
             firsts(n) == [c \in 1 .. n |-> first(chunks[c])]
  <1>1. PICK joined :
           /\ \A n \in 1 .. Len(chunks) : joined[n] \in Seq(DOMAIN numbers)
           /\ joined[1] = chunks[1]
           /\ \A n \in 2 .. Len(chunks) : joined[n] = joined[n - 1] \o chunks[n]
           /\ joined[Len(chunks)] = FlattenSeq(chunks)
    BY FlattenJoins
  <1>2. \A pages \in Seq(DOMAIN numbers) : first(pages) \in Opt(Texts)
    BY SeenType, FirstOfAllIs
  <1>3. \A c \in 1 .. Len(chunks) : chunks[c] \in Seq(DOMAIN numbers)
    OBVIOUS
  <1>4. \A c \in 1 .. Len(chunks) : first(chunks[c]) \in Opt(Texts)
    <2> HIDE DEF first
    <2> QED
      BY <1>2, <1>3
  <1>5. ASSUME NEW a \in Seq(DOMAIN numbers), NEW b \in Seq(DOMAIN numbers)
        PROVE  first(a \o b) = IF first(a) # None THEN first(a) ELSE first(b)
    <2>1. Seen(numbers, a) \in Seq(Opt(Texts)) /\ Seen(numbers, b) \in Seq(Opt(Texts))
      BY SeenType
    <2>2. Seen(numbers, a \o b) = Seen(numbers, a) \o Seen(numbers, b)
      BY SeenOfBoth
    <2> QED
      BY <2>1, <2>2, FirstOfBoth
  <1> HIDE DEF first
  <1>6. ASSUME NEW v \in Opt(Texts) PROVE FirstOfAll(<<v>>) = v
    <2>0. PICK w : w = <<v>>
      OBVIOUS
    <2>1. w \in Seq(Opt(Texts)) /\ Len(w) = 1 /\ w[1] = v
      BY <2>0
    <2>2. ASSUME v = None PROVE FirstOfAll(w) = None
      <3>1. \A i \in 1 .. Len(w) : w[i] = None
        BY <2>1, <2>2
      <3> QED
        BY <2>1, <3>1, FirstOfAllIs
    <2>3. ASSUME v # None PROVE FirstOfAll(w) = v
      <3>1. 1 \in 1 .. Len(w) /\ \A j \in 1 .. 1 - 1 : w[j] = None
        BY <2>1
      <3> QED
        BY <2>1, <2>3, <3>1, FirstOfAllIs
    <2> QED
      BY <2>0, <2>2, <2>3
  <1>7. ASSUME NEW n \in 1 .. Len(chunks)
        PROVE  /\ firsts(n) \in Seq(Opt(Texts))
               /\ n = 1 => firsts(n) = <<first(chunks[1])>>
               /\ n > 1 => firsts(n) = firsts(n - 1) \o <<first(chunks[n])>> /\ firsts(n - 1) \in Seq(Opt(Texts))
    <2>1. n \in Nat /\ \A c \in 1 .. n : first(chunks[c]) \in Opt(Texts)
      BY <1>4
    <2>2. firsts(n) \in Seq(Opt(Texts)) /\ Len(firsts(n)) = n
      BY <2>1
    <2>3. n = 1 => firsts(n) = <<first(chunks[1])>>
      OBVIOUS
    <2>4. ASSUME n > 1
          PROVE  firsts(n) = firsts(n - 1) \o <<first(chunks[n])>> /\ firsts(n - 1) \in Seq(Opt(Texts))
      <3>1. n - 1 \in Nat /\ \A c \in 1 .. n - 1 : first(chunks[c]) \in Opt(Texts)
        BY <2>1, <2>4
      <3>2. firsts(n - 1) \in Seq(Opt(Texts)) /\ Len(firsts(n - 1)) = n - 1
        BY <3>1
      <3>3. <<first(chunks[n])>> \in Seq(Opt(Texts)) /\ Len(<<first(chunks[n])>>) = 1
        BY <2>1
      <3>4. \A i \in 1 .. n - 1 : firsts(n)[i] = firsts(n - 1)[i]
        BY <3>1
      <3>5. \A i \in 1 .. 1 : firsts(n)[n - 1 + i] = <<first(chunks[n])>>[i]
        BY <2>1
      <3> HIDE DEF firsts
      <3> QED
        BY <2>1, <2>2, <3>2, <3>3, <3>4, <3>5, ConcatIs
    <2> QED
      BY <2>2, <2>3, <2>4
  <1> HIDE DEF firsts
  <1> DEFINE Bad == {n \in 1 .. Len(chunks) : first(joined[n]) # FirstOfAll(firsts(n))}
  <1>8. Bad = {}
    <2> SUFFICES ASSUME Bad # {} PROVE FALSE
      OBVIOUS
    <2>1. Bad \in SUBSET Nat
      OBVIOUS
    <2> HIDE DEF Bad
    <2>2. PICK n \in Bad : \A m \in Bad : n <= m
      BY <2>1, Least
    <2>3. n \in 1 .. Len(chunks) /\ first(joined[n]) # FirstOfAll(firsts(n))
      BY <2>2 DEF Bad
    <2> PICK v : v = first(chunks[n])
      OBVIOUS
    <2>4. v \in Opt(Texts) /\ FirstOfAll(<<v>>) = v /\ <<v>> \in Seq(Opt(Texts))
      BY <1>4, <1>6, <2>3
    <2>5. n # 1
      BY <1>1, <1>7, <2>3, <2>4
    <2>6. n - 1 \in 1 .. Len(chunks) /\ n - 1 \notin Bad /\ n > 1 /\ n \in 2 .. Len(chunks)
      BY <2>2, <2>3, <2>5
    <2>7. first(joined[n - 1]) = FirstOfAll(firsts(n - 1))
      BY <2>6 DEF Bad
    <2>8. first(joined[n]) = IF first(joined[n - 1]) # None THEN first(joined[n - 1]) ELSE v
      <3>1. joined[n] = joined[n - 1] \o chunks[n]
        BY <1>1, <2>6
      <3>2. joined[n - 1] \in Seq(DOMAIN numbers) /\ chunks[n] \in Seq(DOMAIN numbers)
        BY <1>1, <1>3, <2>3, <2>6
      <3>3. first(joined[n - 1] \o chunks[n]) = IF first(joined[n - 1]) # None THEN first(joined[n - 1]) ELSE v
        BY <1>5, <3>2
      <3> QED
        BY <3>1, <3>3
    <2>9. FirstOfAll(firsts(n)) = IF FirstOfAll(firsts(n - 1)) # None THEN FirstOfAll(firsts(n - 1)) ELSE v
      <3>1. firsts(n) = firsts(n - 1) \o <<v>> /\ firsts(n - 1) \in Seq(Opt(Texts))
        BY <1>7, <2>3, <2>6
      <3>2. FirstOfAll(firsts(n - 1) \o <<v>>)
               = IF FirstOfAll(firsts(n - 1)) # None THEN FirstOfAll(firsts(n - 1)) ELSE FirstOfAll(<<v>>)
        BY <2>4, <3>1, FirstOfBoth
      <3> QED
        BY <2>4, <3>1, <3>2
    <2> QED
      BY <2>3, <2>7, <2>8, <2>9
  <1>9. first(FlattenSeq(chunks)) = FirstOfAll(firsts(Len(chunks)))
    <2>1. Len(chunks) \in 1 .. Len(chunks)
      OBVIOUS
    <2> QED
      BY <1>1, <1>8, <2>1
  <1> QED
    BY <1>9 DEF first, firsts

\* Chunks read one by one and merged are read as one.
LEMMA MergeReads ==
    ASSUME NEW f \in Files, NEW chunks \in Seq(Seq(DOMAIN Numbers(f))), chunks # << >>,
           NEW parts \in Seq(Part), Len(parts) = Len(chunks),
           \A c \in 1 .. Len(parts) : parts[c] = ReadPages(f, chunks[c]),
           FlattenSeq(chunks) \in Seq(DOMAIN Numbers(f))
    PROVE  Merge(parts) = ReadPages(f, FlattenSeq(chunks))
  <1>1. \A c \in 1 .. Len(chunks) : chunks[c] \in Seq(DOMAIN Numbers(f))
    OBVIOUS
  <1> DEFINE number(c) == FirstOfAll(Seen(Numbers(f), chunks[c]))
  <1>2. \A c \in 1 .. Len(chunks) : parts[c].items = chunks[c] /\ parts[c].number = number(c)
    <2> SUFFICES ASSUME NEW c \in 1 .. Len(chunks)
                 PROVE  parts[c].items = chunks[c] /\ parts[c].number = number(c)
      OBVIOUS
    <2>1. ReadPages(f, chunks[c]) = [items |-> chunks[c], number |-> number(c)]
      BY <1>1, ReadIs
    <2>2. parts[c] = ReadPages(f, chunks[c])
      OBVIOUS
    <2> QED
      BY <2>1, <2>2
  <1>3. DOMAIN parts = 1 .. Len(chunks)
    OBVIOUS
  <1>4. [c \in DOMAIN parts |-> parts[c].items] = chunks
    <2>1. [c \in DOMAIN parts |-> parts[c].items] = [c \in 1 .. Len(chunks) |-> chunks[c]]
      BY ONLY <1>2, <1>3
    <2>2. chunks = [c \in 1 .. Len(chunks) |-> chunks[c]]
      OBVIOUS
    <2> QED
      BY <2>1, <2>2
  <1>5. [c \in DOMAIN parts |-> parts[c].number]
           = [c \in 1 .. Len(chunks) |-> FirstOfAll(Seen(Numbers(f), chunks[c]))]
    BY ONLY <1>2, <1>3
  <1>6. Numbers(f) \in Seq(Opt(Texts))
    BY SplitIs
  <1>7. FirstOfAll([c \in DOMAIN parts |-> parts[c].number]) = FirstOfAll(Seen(Numbers(f), FlattenSeq(chunks)))
    BY <1>5, <1>6, NumbersJoin
  <1>8. Merge(parts) = [items |-> FlattenSeq(chunks), number |-> FirstOfAll(Seen(Numbers(f), FlattenSeq(chunks)))]
    BY <1>4, <1>7 DEF Merge
  <1> QED
    BY <1>8, ReadIs

LEMMA DocumentIs ==
    ASSUME NEW f \in Files, NEW g \in 1 .. Len(Split(f))
    PROVE  Split(f)[g] \in Seq(DOMAIN Numbers(f)) /\ Split(f)[g] # << >>
  <1> PICK docs, d, D : docs = Split(f) /\ d = docs[g] /\ D = DOMAIN Numbers(f)
    OBVIOUS
  <1>1. /\ docs \in Seq(Seq(Nat))
        /\ \A h \in DOMAIN docs : docs[h] # << >>
        /\ \A h \in DOMAIN docs : \A i \in DOMAIN docs[h] : docs[h][i] \in DOMAIN Contents[f].pages
        /\ Numbers(f) \in Seq(Opt(Texts)) /\ Len(Numbers(f)) = Len(Contents[f].pages)
    BY SplitIs
  <1>2. g \in DOMAIN docs
    BY <1>1
  <1>3. d \in Seq(Nat) /\ d # << >> /\ \A i \in DOMAIN d : d[i] \in DOMAIN Contents[f].pages
    BY <1>1, <1>2
  <1>4. DOMAIN Contents[f].pages = D
    BY DEF Numbers
  <1>5. d = [i \in 1 .. Len(d) |-> d[i]] /\ Len(d) \in Nat /\ \A i \in 1 .. Len(d) : d[i] \in D
    BY <1>3, <1>4
  <1>6. d \in Seq(D)
    BY ONLY <1>5
  <1> QED
    BY <1>3, <1>6

\* The requests that the pages of a document are read with.
Requests(f, pages) == IF IsText(f, pages) THEN <<pages>> ELSE Chunks(pages)

LEMMA RequestsAre ==
    ASSUME NEW f \in Files, NEW pages \in Seq(DOMAIN Numbers(f)), pages # << >>
    PROVE  /\ Requests(f, pages) \in Seq(Seq(DOMAIN Numbers(f)))
           /\ Len(Requests(f, pages)) \in Nat \ {0}
           /\ \A c \in 1 .. Len(Requests(f, pages)) : Requests(f, pages)[c] \in Seq(DOMAIN Numbers(f))
           /\ Requests(f, pages) # << >>
           /\ FlattenSeq(Requests(f, pages)) = pages
  <1> PICK D : D = DOMAIN Numbers(f)
    OBVIOUS
  <1>1. <<pages>> \in Seq(Seq(D)) /\ <<pages>> # << >> /\ FlattenSeq(<<pages>>) = pages
    BY FlattenOne
  <1>2. Chunks(pages) \in Seq(Seq(D)) /\ Chunks(pages) # << >> /\ FlattenSeq(Chunks(pages)) = pages
    BY ChunksJoin
  <1> PICK r : r = Requests(f, pages)
    OBVIOUS
  <1>3. r \in Seq(Seq(D)) /\ r # << >> /\ FlattenSeq(r) = pages
    BY <1>1, <1>2 DEF Requests
  <1>4. Len(r) \in Nat \ {0} /\ \A c \in 1 .. Len(r) : r[c] \in Seq(D)
    BY <1>3
  <1> QED
    BY <1>3, <1>4

-----------------------------------------------------------------------------
(* What holds in every state of the browser and of the server.             *)

\* The file is the one that the loop's item stands for.
Of(request, file, ls) ==
    /\ request[1] \in DOMAIN ls /\ request[2] \in DOMAIN ls[request[1]].files
    /\ file = ls[request[1]].files[request[2]]

LoopsOK(ls) ==
    /\ ls \in Seq(Loop)
    /\ \A l \in DOMAIN ls : ls[l].at \in 1 .. Len(ls[l].files) + 1

\* An item has its own file's outcome, which answers every document of it.
ItemOK(item, ls) ==
    /\ item \in Shown
    /\ Of(item.id, item.file, ls)
    /\ item.result # None => item.result.file = item.file
    /\ item.status = "done" => Len(item.result.results) = Len(Split(item.file))

ItemsOK(its, ls) == its \in Seq(Shown) /\ \A i \in DOMAIN its : ItemOK(its[i], ls)

\* What has been read of a document is what its first requests are for.
DocOK(doc, f, pages) ==
    /\ doc.stage \in {"open", "classify"} => doc.parts = << >>
    /\ doc.stage \in {"extract", "merged"} =>
          /\ Len(doc.parts) <= Len(Requests(f, pages))
          /\ \A c \in 1 .. Len(doc.parts) : doc.parts[c] = ReadPages(f, Requests(f, pages)[c])
    /\ doc.stage = "extract" => Len(doc.parts) < Len(Requests(f, pages))
    /\ doc.stage = "merged" => Len(doc.parts) = Len(Requests(f, pages))
    /\ doc.stage = "judged" => \E e \in Extractions, rate \in Rates : doc.row = Row(e, rate)

\* The server has split its loop's file, and is at one of the documents or past the last.
ServerOK(s, ls) ==
    /\ s \in Ingestion
    /\ Of(s.request, s.file, ls)
    /\ s.documents = Split(s.file)
    /\ Len(s.results) <= Len(s.documents)
    /\ Len(s.results) = Len(s.documents) => s.doc.stage = "open"
    /\ DocOK(s.doc, s.file, s.documents[Len(s.results) + 1])

IInv ==
    /\ LoopsOK(loops) /\ busy \in BOOLEAN
    /\ ItemsOK(items, loops)
    /\ server # None => ServerOK(server, loops)

\* Loops are added and go on, but keep their files.
Extends(ls, more) == \A l \in DOMAIN ls : l \in DOMAIN more /\ more[l].files = ls[l].files

LEMMA StillOK ==
    ASSUME NEW ls, NEW more, Extends(ls, more)
    PROVE  /\ \A r, f : Of(r, f, ls) => Of(r, f, more)
           /\ \A its : ItemsOK(its, ls) => ItemsOK(its, more)
           /\ \A s : ServerOK(s, ls) => ServerOK(s, more)
  <1>1. ASSUME NEW r, NEW f, Of(r, f, ls) PROVE Of(r, f, more)
    BY <1>1 DEF Of, Extends
  <1>2. ASSUME NEW its, ItemsOK(its, ls) PROVE ItemsOK(its, more)
    BY <1>1, <1>2 DEF ItemsOK, ItemOK
  <1>3. ASSUME NEW s, ServerOK(s, ls) PROVE ServerOK(s, more)
    BY <1>1, <1>3 DEF ServerOK
  <1> QED
    BY <1>1, <1>2, <1>3

\* Patching items with an outcome of the file that the request was for.
Patched(its, id, status, result) ==
    [i \in DOMAIN its |-> IF its[i].id = id THEN [its[i] EXCEPT !.status = status, !.result = result] ELSE its[i]]

LEMMA PatchedOK ==
    ASSUME NEW its, NEW ls, ItemsOK(its, ls), NEW id, NEW status \in {"done", "error"},
           NEW result \in {None} \cup [file : Files, results : Seq(Branches)],
           \A f : Of(id, f, ls) => /\ result # None => result.file = f
                                   /\ status = "done" => Len(result.results) = Len(Split(f))
    PROVE  ItemsOK(Patched(its, id, status, result), ls)
  <1>0. PICK new : new = [i \in DOMAIN its |-> IF its[i].id = id
                                               THEN [its[i] EXCEPT !.status = status, !.result = result]
                                               ELSE its[i]]
    OBVIOUS
  <1>1. its \in Seq(Shown) /\ \A i \in DOMAIN its : ItemOK(its[i], ls)
    BY DEF ItemsOK
  <1>2. ASSUME NEW i \in DOMAIN its PROVE ItemOK(new[i], ls)
    <2>1. CASE its[i].id # id
      BY <1>0, <1>1, <2>1
    <2>2. CASE its[i].id = id
      <3> PICK old, it : old = its[i] /\ it = new[i]
        OBVIOUS
      <3>1. ItemOK(old, ls) /\ old.id = id
        BY <1>1, <2>2
      <3>2. it = [old EXCEPT !.status = status, !.result = result]
        BY <1>0, <2>2
      <3>3. it \in Shown /\ it.id = id /\ it.file = old.file /\ it.status = status /\ it.result = result
        BY <3>1, <3>2 DEF Shown, ItemOK
      <3>4. Of(id, old.file, ls)
        BY <3>1 DEF ItemOK
      <3>5. (result # None => result.file = old.file) /\ (status = "done" => Len(result.results) = Len(Split(old.file)))
        BY <3>4
      <3>6. ItemOK(it, ls)
        BY <3>3, <3>4, <3>5 DEF ItemOK
      <3> QED
        BY <3>6
    <2> QED
      BY <2>1, <2>2
  <1>3. new = [i \in 1 .. Len(its) |-> new[i]] /\ Len(its) \in Nat /\ DOMAIN its = 1 .. Len(its)
    <2>0. its \in Seq(Shown)
      BY DEF ItemsOK
    <2>1. Len(its) \in Nat /\ DOMAIN its = 1 .. Len(its)
      BY ONLY <2>0
    <2>2. new = [i \in DOMAIN its |-> new[i]]
      BY <1>0
    <2> QED
      BY ONLY <2>1, <2>2
  <1>4. \A i \in 1 .. Len(its) : new[i] \in Shown
    BY <1>2, <1>3 DEF ItemOK
  <1>5. new \in Seq(Shown) /\ DOMAIN new = DOMAIN its
    BY ONLY <1>3, <1>4
  <1> QED
    BY <1>0, <1>2, <1>5 DEF ItemsOK, Patched

\* Records of an ingestion, by their fields.
LEMMA IngestionFields ==
    ASSUME NEW R, NEW F, NEW D, NEW B, NEW T,
           NEW s \in [request : R, file : F, documents : D, results : B, doc : T],
           NEW b \in B, NEW d \in T, NEW new, new = [s EXCEPT !.results = b, !.doc = d]
    PROVE  /\ new \in [request : R, file : F, documents : D, results : B, doc : T]
           /\ new.request = s.request /\ new.file = s.file /\ new.documents = s.documents
           /\ new.results = b /\ new.doc = d
  OBVIOUS

\* The document at hand goes on as d.
LEMMA DocStep ==
    ASSUME NEW s, NEW ls, ServerOK(s, ls), Len(s.results) < Len(s.documents), NEW d \in Documents,
           DocOK(d, s.file, s.documents[Len(s.results) + 1])
    PROVE  ServerOK([s EXCEPT !.doc = d], ls)
  <1>0. PICK new : new = [s EXCEPT !.doc = d]
    OBVIOUS
  <1>1. s \in Ingestion
    BY DEF ServerOK
  <1>2. s.results \in Seq(Branches) /\ Len(s.results) \in Nat /\ Len(s.documents) \in Nat
    BY <1>1 DEF Ingestion
  <1>3. /\ new \in Ingestion /\ new.doc = d /\ new.results = s.results /\ new.documents = s.documents
        /\ new.file = s.file /\ new.request = s.request
    <2>1. new = [s EXCEPT !.results = s.results, !.doc = d]
      BY <1>0, <1>1 DEF Ingestion
    <2> QED
      BY <1>1, <1>2, <2>1, IngestionFields DEF Ingestion
  <1>4. Of(s.request, s.file, ls) /\ s.documents = Split(s.file)
    BY DEF ServerOK
  <1>5. ServerOK(new, ls)
    BY <1>2, <1>3, <1>4 DEF ServerOK
  <1> QED
    BY <1>0, <1>5

LEMMA FreshOK ==
    ASSUME NEW tries \in 1 .. MaxTries, NEW f, NEW pages
    PROVE  Fresh(tries) \in Documents /\ DocOK(Fresh(tries), f, pages) /\ Fresh(tries).stage = "open"
  <1>1. << >> \in Seq(Part) /\ None \in Rows
    BY DEF Rows
  <1>2. 0 \in 0 .. MaxAttempts - 1 /\ "open" \in Stages
    BY IntakeAssumption DEF Stages
  <1> QED
    BY <1>1, <1>2 DEF Fresh, Documents, DocOK

\* The document at hand has its result, and the next one begins.
LEMMA ConcludedStep ==
    ASSUME NEW s, NEW ls, ServerOK(s, ls), Len(s.results) < Len(s.documents), NEW branch \in Branches
    PROVE  ServerOK([s EXCEPT !.results = Append(@, branch), !.doc = Fresh(1)], ls)
  <1>0. PICK new : new = [s EXCEPT !.results = Append(@, branch), !.doc = Fresh(1)]
    OBVIOUS
  <1>1. s \in Ingestion /\ s.results \in Seq(Branches) /\ s.documents \in Seq(Seq(Nat))
    BY DEF ServerOK, Ingestion
  <1>2. PICK results : results = Append(s.results, branch) /\ results \in Seq(Branches) /\ Len(results) = Len(s.results) + 1
    <2>1. Append(s.results, branch) \in Seq(Branches) /\ Len(Append(s.results, branch)) = Len(s.results) + 1
      BY <1>1, AppendProperties
    <2> QED
      BY <2>1
  <1>3. Fresh(1) \in Documents /\ Fresh(1).stage = "open" /\ \A pages : DocOK(Fresh(1), s.file, pages)
    BY FreshOK, IntakeAssumption
  <1>4. /\ new \in Ingestion /\ new.doc = Fresh(1) /\ new.results = results /\ new.documents = s.documents
        /\ new.file = s.file /\ new.request = s.request
    <2>1. new = [s EXCEPT !.results = results, !.doc = Fresh(1)]
      BY <1>0, <1>1, <1>2 DEF Ingestion
    <2> QED
      BY <1>1, <1>2, <1>3, <2>1, IngestionFields DEF Ingestion
  <1>5. Of(s.request, s.file, ls) /\ s.documents = Split(s.file)
    BY DEF ServerOK
  <1>6. Len(results) <= Len(s.documents)
    BY <1>1, <1>2
  <1>7. ServerOK(new, ls)
    BY <1>3, <1>4, <1>5, <1>6 DEF ServerOK
  <1> QED
    BY <1>0, <1>7

\* What the invariant says of a server that is at one of the documents.
LEMMA ServerFacts ==
    ASSUME server # None, ServerOK(server, loops)
    PROVE  /\ server \in Ingestion /\ server.file \in Files
           /\ server.doc \in Documents
           /\ Len(server.results) \in Nat /\ Len(server.documents) \in Nat
           /\ server.documents = Split(server.file)
           /\ Len(server.results) <= Len(server.documents)
           /\ Len(server.results) < Len(server.documents) =>
                 /\ Pages \in Seq(DOMAIN Numbers(server.file)) /\ Pages # << >>
                 /\ DocOK(server.doc, server.file, Pages)
                 /\ ChunksOf(Pages) = Requests(server.file, Pages)
  <1>1. /\ server \in Ingestion /\ server.documents = Split(server.file)
        /\ Len(server.results) <= Len(server.documents)
        /\ DocOK(server.doc, server.file, Pages)
    BY DEF ServerOK, Pages
  <1>2. /\ server.file \in Files /\ server.results \in Seq(Branches) /\ server.documents \in Seq(Seq(Nat))
        /\ server.doc \in Documents
    BY <1>1 DEF Ingestion, Documents
  <1>3. Len(server.results) \in Nat /\ Len(server.documents) \in Nat
    BY <1>2
  <1>4. ASSUME Len(server.results) < Len(server.documents)
        PROVE  Pages \in Seq(DOMAIN Numbers(server.file)) /\ Pages # << >>
    <2>1. PICK g : g = Len(server.results) + 1
      OBVIOUS
    <2>2. g \in 1 .. Len(Split(server.file)) /\ Pages = Split(server.file)[g]
      BY <1>1, <1>3, <1>4, <2>1 DEF Pages
    <2> QED
      BY <1>2, <2>2, DocumentIs
  <1>5. ChunksOf(Pages) = Requests(server.file, Pages)
    BY DEF ChunksOf, Requests
  <1> QED
    BY <1>1, <1>2, <1>3, <1>4, <1>5

\* A loop that goes on is still one of its kind, as are the others.
MovedOn(ls, l) == [ls EXCEPT ![l].at = @ + 1]

LEMMA LoopGoesOn ==
    ASSUME NEW ls \in Seq(Loop), NEW l \in DOMAIN ls, NEW more, more = MovedOn(ls, l)
    PROVE  /\ more \in Seq(Loop) /\ DOMAIN more = DOMAIN ls
           /\ \A k \in DOMAIN ls :
                 /\ ls[k] \in Loop /\ more[k].files = ls[k].files
                 /\ more[k].at = IF k = l THEN ls[k].at + 1 ELSE ls[k].at
  <1>1. DOMAIN ls = 1 .. Len(ls) /\ Len(ls) \in Nat
    OBVIOUS
  <1>2. \A k \in DOMAIN ls : ls[k] \in Loop
    BY <1>1, ElementOfSeq
  <1>3. DOMAIN more = DOMAIN ls /\ \A k \in DOMAIN ls : more[k] = IF k = l THEN [ls[l] EXCEPT !.at = @ + 1] ELSE ls[k]
    BY DEF MovedOn
  <1>4. more = [k \in DOMAIN ls |-> more[k]]
    BY DEF MovedOn
  <1>5. [ls[l] EXCEPT !.at = @ + 1] \in Loop
    BY <1>2 DEF Loop
  <1>6. \A k \in DOMAIN ls : more[k] \in Loop
    BY <1>2, <1>3, <1>5
  <1>7. more \in Seq(Loop)
    BY ONLY <1>1, <1>4, <1>6
  <1>8. ASSUME NEW k \in DOMAIN ls
        PROVE  more[k].files = ls[k].files /\ more[k].at = IF k = l THEN ls[k].at + 1 ELSE ls[k].at
    BY <1>2, <1>3 DEF Loop
  <1> QED
    BY <1>2, <1>3, <1>7, <1>8

LEMMA MoveOnOK ==
    ASSUME IInv, NEW l \in DOMAIN loops, Waiting(l), NEW status \in {"done", "error"},
           NEW result \in {None} \cup [file : Files, results : Seq(Branches)],
           \A f : Of(Request(l), f, loops) => /\ result # None => result.file = f
                                              /\ status = "done" => Len(result.results) = Len(Split(f)),
           MoveOn(l, status, result)
    PROVE  LoopsOK(loops') /\ busy' \in BOOLEAN /\ ItemsOK(items', loops') /\ Extends(loops, loops')
  <1>1. loops' = [loops EXCEPT ![l].at = @ + 1] /\ items' = PatchItem(Request(l), status, result)
    BY DEF MoveOn
  <1>2. loops \in Seq(Loop) /\ \A k \in DOMAIN loops : loops[k].at \in 1 .. Len(loops[k].files) + 1
    BY DEF IInv, LoopsOK
  <1>3. busy' \in BOOLEAN
    BY DEF MoveOn, IInv
  <1>5. /\ loops' \in Seq(Loop) /\ DOMAIN loops' = DOMAIN loops
        /\ \A k \in DOMAIN loops : loops[k] \in Loop
        /\ \A k \in DOMAIN loops : loops'[k].files = loops[k].files
        /\ \A k \in DOMAIN loops : loops'[k].at = IF k = l THEN loops[k].at + 1 ELSE loops[k].at
    <2>1. PICK more : more = loops'
      OBVIOUS
    <2>2. more = MovedOn(loops, l)
      BY <1>1, <2>1 DEF MovedOn
    <2>3. loops \in Seq(Loop) /\ l \in DOMAIN loops
      BY <1>2
    <2>4. /\ more \in Seq(Loop) /\ DOMAIN more = DOMAIN loops
          /\ \A k \in DOMAIN loops :
                /\ loops[k] \in Loop /\ more[k].files = loops[k].files
                /\ more[k].at = IF k = l THEN loops[k].at + 1 ELSE loops[k].at
      BY ONLY <2>2, <2>3, LoopGoesOn
    <2> QED
      BY <2>1, <2>4
  <1>6. LoopsOK(loops')
    <2> SUFFICES ASSUME NEW k \in DOMAIN loops PROVE loops'[k].at \in 1 .. Len(loops'[k].files) + 1
      BY <1>5 DEF LoopsOK
    <2> PICK files : files = loops[k].files
      OBVIOUS
    <2>1. files \in Seq(Files)
      <3>1. loops[k] \in Loop
        BY <1>5
      <3> QED
        BY <3>1, IntakeAssumption DEF Loop
    <2>2. Len(files) \in Nat /\ loops[k].at \in 1 .. Len(files) + 1
      BY <1>2, <2>1
    <2>3. k = l => loops[k].at <= Len(files)
      BY DEF Waiting
    <2> QED
      BY <1>5, <2>2, <2>3
  <1>7. Extends(loops, loops')
    BY <1>5 DEF Extends
  <1>8. ItemsOK(items', loops)
    <2> PICK new, id : new = items' /\ id = Request(l)
      OBVIOUS
    <2>1. new = Patched(items, id, status, result)
      BY <1>1 DEF PatchItem, Patched
    <2>2. ItemsOK(items, loops)
      BY DEF IInv
    <2>4. \A f : Of(id, f, loops) => /\ result # None => result.file = f
                                     /\ status = "done" => Len(result.results) = Len(Split(f))
      OBVIOUS
    <2>5. status \in {"done", "error"} /\ result \in {None} \cup [file : Files, results : Seq(Branches)]
      OBVIOUS
    <2>3. ItemsOK(new, loops)
      BY ONLY <2>1, <2>2, <2>4, <2>5, PatchedOK
    <2> QED
      BY <2>3
  <1>9. ItemsOK(items', loops')
    <2> PICK new, more : new = items' /\ more = loops'
      OBVIOUS
    <2>1. ItemsOK(new, more)
      BY <1>7, <1>8, StillOK
    <2> QED
      BY <2>1
  <1> QED
    BY <1>3, <1>6, <1>7, <1>9

\* A new selection's items stand for its files, which are in its loop.
LEMMA IngestOK ==
    ASSUME IInv, NEW files \in Selections, Ingest(files)
    PROVE  LoopsOK(loops') /\ busy' \in BOOLEAN /\ ItemsOK(items', loops') /\ Extends(loops, loops')
  <1> PICK l, new, more, its :
         /\ l = Len(loops) + 1 /\ more = loops'
         /\ new = [n \in DOMAIN files |-> Item(l, n, files[n])] /\ its = items'
    OBVIOUS
  <1>1. files # << >> /\ its = new \o items /\ busy' = TRUE /\ more = Append(loops, [files |-> files, at |-> 1])
    BY DEF Ingest
  <1>2. files \in Seq(Files) /\ Len(files) \in Nat /\ DOMAIN files = 1 .. Len(files)
    BY IntakeAssumption
  <1>3. loops \in Seq(Loop) /\ \A k \in DOMAIN loops : loops[k].at \in 1 .. Len(loops[k].files) + 1
    BY DEF IInv, LoopsOK
  <1>4. l \in Nat /\ DOMAIN loops = 1 .. l - 1
    BY <1>3
  <1>5. [files |-> files, at |-> 1] \in Loop
    BY DEF Loop
  <1>6. /\ more \in Seq(Loop) /\ Len(more) = l
        /\ \A k \in 1 .. l - 1 : more[k] = loops[k]
        /\ more[l] = [files |-> files, at |-> 1]
    BY <1>1, <1>3, <1>5, AppendProperties
  <1>7. DOMAIN more = 1 .. l
    BY <1>4, <1>6
  <1>8. LoopsOK(more)
    <2> SUFFICES ASSUME NEW k \in 1 .. l PROVE more[k].at \in 1 .. Len(more[k].files) + 1
      BY <1>6, <1>7 DEF LoopsOK
    <2>1. CASE k = l
      BY <1>2, <1>6, <2>1
    <2>2. CASE k \in 1 .. l - 1
      BY <1>3, <1>4, <1>6, <2>2
    <2> QED
      BY <1>4, <2>1, <2>2
  <1>9. Extends(loops, more)
    BY <1>4, <1>6, <1>7 DEF Extends
  <1>10. ItemsOK(items, more)
    BY <1>9, StillOK DEF IInv
  <1>11. ASSUME NEW n \in 1 .. Len(files) PROVE ItemOK(Item(l, n, files[n]), more)
    <2> PICK item : item = Item(l, n, files[n])
      OBVIOUS
    <2>1. files[n] \in Files /\ n \in Nat
      BY <1>2
    <2>2. /\ item \in Shown /\ item.id = <<l, n>> /\ item.file = files[n]
          /\ item.result = None /\ item.status = "processing"
      BY <1>4, <2>1 DEF Item, Shown
    <2>3. Of(<<l, n>>, files[n], more)
      BY <1>2, <1>4, <1>6, <1>7 DEF Of
    <2>4. ItemOK(item, more)
      BY <2>2, <2>3 DEF ItemOK
    <2> QED
      BY <2>4
  <1>12. new \in Seq(Shown) /\ Len(new) = Len(files) /\ \A n \in 1 .. Len(new) : ItemOK(new[n], more)
    <2>1. new = [n \in 1 .. Len(files) |-> Item(l, n, files[n])]
      BY <1>2
    <2>2. \A n \in 1 .. Len(files) : Item(l, n, files[n]) \in Shown
      BY <1>11 DEF ItemOK
    <2>3. new \in Seq(Shown) /\ Len(new) = Len(files)
      BY ONLY <1>2, <2>1, <2>2
    <2> QED
      BY <1>11, <2>1, <2>3
  <1>13. ItemsOK(its, more)
    <2>1. items \in Seq(Shown) /\ new \in Seq(Shown)
      BY <1>10, <1>12 DEF ItemsOK
    <2>2. /\ its \in Seq(Shown) /\ Len(its) = Len(new) + Len(items)
          /\ \A i \in 1 .. Len(new) + Len(items) : its[i] = IF i <= Len(new) THEN new[i] ELSE items[i - Len(new)]
      BY <1>1, <2>1, ConcatProperties
    <2>3. Len(new) \in Nat /\ Len(items) \in Nat /\ DOMAIN items = 1 .. Len(items) /\ DOMAIN its = 1 .. Len(its)
      BY <2>1, <2>2
    <2> SUFFICES ASSUME NEW i \in 1 .. Len(new) + Len(items) PROVE ItemOK(its[i], more)
      BY <2>2, <2>3 DEF ItemsOK
    <2>4. CASE i <= Len(new)
      <3>1. i \in 1 .. Len(new) /\ its[i] = new[i]
        BY <2>2, <2>3, <2>4
      <3> QED
        BY <1>12, <3>1
    <2>5. CASE ~(i <= Len(new))
      <3>1. i - Len(new) \in DOMAIN items /\ its[i] = items[i - Len(new)]
        BY <2>2, <2>3, <2>5
      <3> QED
        BY <1>10, <3>1 DEF ItemsOK
    <2> QED
      BY <2>4, <2>5
  <1> QED
    BY <1>1, <1>8, <1>9, <1>13

LEMMA StillInv ==
    ASSUME IInv, LoopsOK(loops'), busy' \in BOOLEAN, ItemsOK(items', loops'), Extends(loops, loops'),
           server' \in {None, server}
    PROVE  IInv'
  <1> PICK ls, more, s : ls = loops /\ more = loops' /\ s = server
    OBVIOUS
  <1>1. s # None => ServerOK(s, ls)
    BY DEF IInv
  <1>2. s # None => ServerOK(s, more)
    BY <1>1, StillOK
  <1> QED
    BY <1>2 DEF IInv

\* A step of the server inside its file.
LEMMA ServerInv ==
    ASSUME IInv, UNCHANGED <<items, busy, loops>>, ServerOK(server', loops)
    PROVE  IInv'
  BY DEF IInv

LEMMA BeginOK ==
    ASSUME IInv, NEW l \in DOMAIN loops, Begin(l)
    PROVE  IInv'
  <1> PICK f, at, s : f = loops[l].files[loops[l].at] /\ at = loops[l].at /\ s = server'
    OBVIOUS
  <1>1. /\ s = [request |-> <<l, at>>, file |-> f, documents |-> Split(f), results |-> << >>, doc |-> Fresh(1)]
        /\ UNCHANGED <<items, busy, loops>> /\ at <= Len(loops[l].files)
    BY DEF Begin, Waiting, Request
  <1>2. loops \in Seq(Loop) /\ at \in 1 .. Len(loops[l].files) + 1
    BY DEF IInv, LoopsOK
  <1>3. loops[l] \in Loop /\ l \in Nat
    BY <1>2
  <1>4. loops[l].files \in Seq(Files) /\ Len(loops[l].files) \in Nat
    BY <1>3, IntakeAssumption DEF Loop
  <1>5. at \in 1 .. Len(loops[l].files)
    BY <1>1, <1>2, <1>4
  <1>6. f \in Files /\ at \in DOMAIN loops[l].files /\ at \in Nat
    BY <1>4, <1>5
  <1>7. Of(<<l, at>>, f, loops)
    BY <1>6 DEF Of
  <1>8. Split(f) \in Seq(Seq(Nat)) /\ Len(Split(f)) \in Nat /\ Len(Split(f)) # 0
    BY <1>6, SplitIs
  <1>9. Fresh(1) \in Documents /\ Fresh(1).stage = "open" /\ \A pages : DocOK(Fresh(1), f, pages)
    BY FreshOK, IntakeAssumption
  <1>10. s \in Ingestion
    BY <1>1, <1>3, <1>6, <1>8, <1>9 DEF Ingestion
  <1>11. Len(s.results) = 0
    BY <1>1
  <1>12. ServerOK(s, loops)
    BY <1>1, <1>7, <1>8, <1>9, <1>10, <1>11 DEF ServerOK
  <1> QED
    BY <1>1, <1>12, ServerInv

\* What a running document gives: the server's record, and what is read of it so far.
LEMMA RunningIs ==
    ASSUME IInv, NEW stage, Running(stage)
    PROVE  /\ server # None /\ ServerOK(server, loops) /\ UNCHANGED <<items, busy, loops>>
           /\ Len(server.results) < Len(server.documents) /\ server.doc.stage = stage
           /\ server.doc \in Documents /\ server.file \in Files
           /\ Pages \in Seq(DOMAIN Numbers(server.file)) /\ Pages # << >>
           /\ DocOK(server.doc, server.file, Pages)
           /\ ChunksOf(Pages) = Requests(server.file, Pages)
  BY ServerFacts DEF IInv, Running

LEMMA ConcludedOK ==
    ASSUME IInv, NEW stage, Running(stage), NEW branch \in Branches, Concluded(branch)
    PROVE  IInv'
  <1>1. PICK s, new : s = server /\ new = server'
    OBVIOUS
  <1>2. new = [s EXCEPT !.results = Append(@, branch), !.doc = Fresh(1)]
    BY <1>1 DEF Concluded
  <1>3. ServerOK(s, loops) /\ Len(s.results) < Len(s.documents) /\ UNCHANGED <<items, busy, loops>>
    BY <1>1, RunningIs
  <1>4. ServerOK(new, loops)
    BY <1>2, <1>3, ConcludedStep
  <1> QED
    BY <1>1, <1>3, <1>4, ServerInv

LEMMA DocGoesOn ==
    ASSUME IInv, NEW stage, Running(stage), NEW d \in Documents, DocOK(d, server.file, Pages), Doc(d)
    PROVE  IInv'
  <1>1. PICK s, new : s = server /\ new = server'
    OBVIOUS
  <1>2. new = [s EXCEPT !.doc = d]
    BY <1>1 DEF Doc
  <1>3. ServerOK(s, loops) /\ Len(s.results) < Len(s.documents) /\ UNCHANGED <<items, busy, loops>>
    BY <1>1, RunningIs
  <1>4. DocOK(d, s.file, s.documents[Len(s.results) + 1])
    BY <1>1 DEF Pages
  <1>5. ServerOK(new, loops)
    BY <1>2, <1>3, <1>4, DocStep
  <1> QED
    BY <1>1, <1>3, <1>5, ServerInv

\* Records of a document, by their fields.
LEMMA DocumentFields ==
    ASSUME NEW G, NEW T, NEW A, NEW P, NEW R,
           NEW d \in [stage : G, tries : T, attempts : A, parts : P, row : R],
           NEW g \in G, NEW a \in A, NEW p \in P, NEW r \in R
    PROVE  /\ [d EXCEPT !.parts = p, !.attempts = a, !.stage = g]
                 \in [stage : G, tries : T, attempts : A, parts : P, row : R]
           /\ [d EXCEPT !.attempts = a] \in [stage : G, tries : T, attempts : A, parts : P, row : R]
           /\ [d EXCEPT !.stage = g, !.row = r] \in [stage : G, tries : T, attempts : A, parts : P, row : R]
  OBVIOUS

LEMMA ExtractOK ==
    ASSUME IInv, Extract
    PROVE  IInv'
  <1> PICK f, pages, doc, n : f = server.file /\ pages = Pages /\ doc = server.doc /\ n = Len(doc.parts) + 1
    OBVIOUS
  <1>0. Running("extract")
    BY DEF Extract
  <1>1. /\ doc \in Documents /\ f \in Files /\ pages \in Seq(DOMAIN Numbers(f)) /\ pages # << >>
        /\ DocOK(doc, f, pages) /\ doc.stage = "extract" /\ ChunksOf(pages) = Requests(f, pages)
    BY <1>0, RunningIs
  <1> PICK requests, part : requests = Requests(f, pages) /\ part = ReadPages(f, requests[n])
    OBVIOUS
  <1>2. doc.parts \in Seq(Part) /\ Len(doc.parts) \in Nat
    BY <1>1 DEF Documents
  <1>3. /\ Len(requests) \in Nat
        /\ \A c \in 1 .. Len(requests) : requests[c] \in Seq(DOMAIN Numbers(f))
    BY <1>1, RequestsAre
  <1>4. /\ Len(doc.parts) < Len(requests)
        /\ \A c \in 1 .. Len(doc.parts) : doc.parts[c] = ReadPages(f, requests[c])
    BY <1>1 DEF DocOK
  <1>5. n \in 1 .. Len(requests)
    BY <1>2, <1>3, <1>4
  <1>6. part \in Part
    BY <1>1, <1>3, <1>5, ReadIs
  <1> PICK parts : parts = Append(doc.parts, part)
    OBVIOUS
  <1>7. /\ parts \in Seq(Part) /\ Len(parts) = n
        /\ \A c \in 1 .. n - 1 : parts[c] = doc.parts[c]
        /\ parts[n] = part
    <2>1. /\ Append(doc.parts, part) \in Seq(Part)
          /\ Len(Append(doc.parts, part)) = n
          /\ \A c \in 1 .. Len(doc.parts) : Append(doc.parts, part)[c] = doc.parts[c]
          /\ Append(doc.parts, part)[Len(doc.parts) + 1] = part
      BY <1>2, <1>6, AppendProperties
    <2> QED
      BY <1>2, <2>1
  <1>8. \A c \in 1 .. n : parts[c] = ReadPages(f, requests[c])
    <2> SUFFICES ASSUME NEW c \in 1 .. n PROVE parts[c] = ReadPages(f, requests[c])
      OBVIOUS
    <2>0. n \in Nat /\ n - 1 = Len(doc.parts)
      BY <1>2
    <2>1. c = n \/ c \in 1 .. n - 1
      BY ONLY <2>0, c \in 1 .. n
    <2>2. c \in 1 .. n - 1 => c \in 1 .. Len(doc.parts)
      BY <2>0
    <2> QED
      BY <1>4, <1>7, <2>1, <2>2
  <1> PICK stage, d : /\ stage = IF n = Len(requests) THEN "merged" ELSE "extract"
                      /\ d = [doc EXCEPT !.parts = parts, !.attempts = 0, !.stage = stage]
    OBVIOUS
  <1>9. Doc(d)
    <2>1. LET p == Append(server.doc.parts, ReadPages(server.file, ChunksOf(Pages)[Len(server.doc.parts) + 1]))
          IN  Doc([server.doc EXCEPT !.parts = p, !.attempts = 0,
                                     !.stage = IF Len(p) = Len(ChunksOf(Pages)) THEN "merged" ELSE "extract"])
      BY DEF Extract
    <2>2. Append(server.doc.parts, ReadPages(server.file, ChunksOf(Pages)[Len(server.doc.parts) + 1])) = parts
      BY <1>1
    <2>3. Doc([doc EXCEPT !.parts = parts, !.attempts = 0,
                          !.stage = IF Len(parts) = Len(ChunksOf(Pages)) THEN "merged" ELSE "extract"])
      BY <2>1, <2>2
    <2>4. (IF Len(parts) = Len(ChunksOf(Pages)) THEN "merged" ELSE "extract") = stage
      BY <1>1, <1>7
    <2> QED
      BY <2>3, <2>4
  <1>10. d \in Documents /\ d.stage = stage /\ d.parts = parts
    <2>1. 0 \in 0 .. MaxAttempts - 1 /\ stage \in Stages
      BY IntakeAssumption DEF Stages
    <2>2. d \in Documents
      BY <1>1, <1>7, <2>1, DocumentFields DEF Documents
    <2> QED
      BY <1>1, <2>2 DEF Documents
  <1>11. DocOK(d, f, pages)
    BY <1>5, <1>7, <1>8, <1>10 DEF DocOK
  <1> QED
    BY <1>0, <1>9, <1>10, <1>11, DocGoesOn

\* A step of the server at one of its documents.
LEMMA DocumentStep ==
    ASSUME IInv, \/ Open \/ Classify \/ Extract \/ Malformed \/ TransientFailure \/ PermanentFailure \/ Judge \/ Save
    PROVE  IInv'
  <1> PICK doc, f, pages : doc = server.doc /\ f = server.file /\ pages = Pages
    OBVIOUS
  <1>a. ASSUME NEW stage, Running(stage), DeadLettered PROVE IInv'
    BY <1>a, ConcludedOK DEF DeadLettered, Branches
  <1>b. ASSUME NEW stage, Running(stage) PROVE doc \in Documents /\ doc.stage = stage /\ DocOK(doc, f, pages)
    BY <1>b, RunningIs
  <1>1. CASE Open
    <2>1. Running("open")
      BY <1>1 DEF Open
    <2>2. CASE Concluded("non_invoice")
      BY <2>1, <2>2, ConcludedOK DEF Branches
    <2>3. CASE DeadLettered
      BY <1>a, <2>1, <2>3
    <2>4. CASE Doc([doc EXCEPT !.stage = "classify"])
      <3> PICK d : d = [doc EXCEPT !.stage = "classify"]
        OBVIOUS
      <3>1. d \in Documents /\ DocOK(d, f, pages)
        BY <1>b, <2>1 DEF Documents, DocOK, Stages
      <3> QED
        BY <2>1, <2>4, <3>1, DocGoesOn
    <2> QED
      BY <1>1, <2>2, <2>3, <2>4 DEF Open
  <1>2. CASE Classify
    <2>1. Running("classify")
      BY <1>2 DEF Classify
    <2>2. CASE Concluded("non_invoice")
      BY <2>1, <2>2, ConcludedOK DEF Branches
    <2>3. CASE DeadLettered
      BY <1>a, <2>1, <2>3
    <2>4. CASE Doc([doc EXCEPT !.stage = "extract"])
      <3> PICK d : d = [doc EXCEPT !.stage = "extract"]
        OBVIOUS
      <3>1. doc \in Documents /\ doc.parts = << >>
        BY <1>b, <2>1 DEF DocOK
      <3>2. d \in Documents /\ d.stage = "extract" /\ d.parts = << >>
        BY <3>1 DEF Documents, Stages
      <3>3. Len(Requests(f, pages)) \in Nat \ {0}
        BY <2>1, RunningIs, RequestsAre
      <3>4. DocOK(d, f, pages)
        BY <3>2, <3>3 DEF DocOK
      <3> QED
        BY <2>1, <2>4, <3>2, <3>4, DocGoesOn
    <2> QED
      BY <1>2, <2>2, <2>3, <2>4 DEF Classify
  <1>3. CASE Extract
    BY <1>3, ExtractOK
  <1>4. CASE Malformed
    <2>1. Running("extract")
      BY <1>4 DEF Malformed
    <2>2. CASE doc.attempts + 1 < MaxAttempts /\ Doc([doc EXCEPT !.attempts = @ + 1])
      <3> PICK d, attempts : d = [doc EXCEPT !.attempts = @ + 1] /\ attempts = doc.attempts + 1
        OBVIOUS
      <3>1. doc \in Documents /\ DocOK(doc, f, pages)
        BY <1>b, <2>1
      <3>2. attempts \in 0 .. MaxAttempts - 1
        BY <2>2, <3>1, IntakeAssumption DEF Documents
      <3>3. d \in Documents /\ d.stage = doc.stage /\ d.parts = doc.parts /\ d.row = doc.row
        <4>1. d = [doc EXCEPT !.attempts = attempts] /\ doc \in Documents
          BY <3>1
        <4>2. [doc EXCEPT !.attempts = attempts] \in Documents
          BY ONLY <3>2, <4>1, DocumentFields, doc.stage \in Stages, doc.parts \in Seq(Part), doc.row \in Rows DEF Documents
        <4> QED
          BY ONLY <4>1, <4>2 DEF Documents
      <3>4. DocOK(d, f, pages)
        BY <3>1, <3>3 DEF DocOK
      <3> QED
        BY <2>1, <2>2, <3>3, <3>4, DocGoesOn
    <2>3. CASE DeadLettered
      BY <1>a, <2>1, <2>3
    <2> QED
      BY <1>4, <2>2, <2>3 DEF Malformed
  <1>5. CASE TransientFailure
    <2> PICK stage : Running(stage)
      BY <1>5 DEF TransientFailure
    <2>2. CASE doc.tries < MaxTries /\ Doc(Fresh(doc.tries + 1))
      <3>1. doc.tries + 1 \in 1 .. MaxTries
        BY <1>b, <2>2, IntakeAssumption DEF Documents
      <3>2. Fresh(doc.tries + 1) \in Documents /\ DocOK(Fresh(doc.tries + 1), f, pages)
        BY <3>1, FreshOK
      <3> QED
        BY <2>2, <3>2, DocGoesOn
    <2>3. CASE DeadLettered
      BY <1>a, <2>3
    <2> QED
      BY <1>5, <2>2, <2>3 DEF TransientFailure
  <1>6. CASE PermanentFailure
    BY <1>6, <1>a DEF PermanentFailure
  <1>7. CASE Judge
    <2>1. Running("merged")
      BY <1>7 DEF Judge
    <2>2. CASE DeadLettered
      BY <1>a, <2>1, <2>2
    <2>3. ASSUME NEW e \in Extractions, NEW rate \in Rates, Doc([doc EXCEPT !.stage = "judged", !.row = Row(e, rate)])
          PROVE  IInv'
      <3> PICK row, d : row = Row(e, rate) /\ d = [doc EXCEPT !.stage = "judged", !.row = row]
        OBVIOUS
      <3>1. doc \in Documents
        BY <1>b, <2>1
      <3>2. row \in Rows
        BY DEF Rows
      <3>3. d \in Documents /\ d.stage = "judged" /\ d.row = row
        <4>1. "judged" \in Stages
          BY DEF Stages
        <4>2. d \in Documents
          BY <3>1, <3>2, <4>1, DocumentFields DEF Documents
        <4>3. d = [doc EXCEPT !.stage = "judged", !.row = row]
          OBVIOUS
        <4> QED
          BY ONLY <3>1, <4>2, <4>3 DEF Documents
      <3>4. DocOK(d, f, pages)
        BY <3>3 DEF DocOK
      <3> QED
        BY <2>1, <2>3, <3>3, <3>4, DocGoesOn
    <2> QED
      BY <1>7, <2>2, <2>3 DEF Judge
  <1>8. CASE Save
    BY <1>8, <1>a, ConcludedOK DEF Save, Branches
  <1> QED
    BY <1>1, <1>2, <1>3, <1>4, <1>5, <1>6, <1>7, <1>8

\* The ingestion is over, with its response or without one.
LEMMA RespondOK ==
    ASSUME IInv, Respond \/ ServerStops
    PROVE  IInv'
  <1> PICK s, l, ok : /\ s = server /\ l = server.request[1]
                      /\ ok = [file |-> server.file, results |-> server.results]
    OBVIOUS
  <1>1. server' = None /\ server # None
    BY DEF Respond, ServerStops
  <1>2. ServerOK(server, loops)
    BY <1>1 DEF IInv
  <1>3. l \in DOMAIN loops
    BY <1>2 DEF ServerOK, Of
  <1>4. CASE UNCHANGED <<items, busy, loops>>
    BY <1>1, <1>4 DEF IInv
  <1>5. CASE Heard /\ MoveOn(l, "error", None)
    <2>1. LoopsOK(loops') /\ busy' \in BOOLEAN /\ ItemsOK(items', loops') /\ Extends(loops, loops')
      BY <1>3, <1>5, MoveOnOK DEF Heard
    <2> QED
      BY <1>1, <2>1, StillInv
  <1>6. CASE Heard /\ MoveOn(l, "done", ok) /\ Respond
    <2>1. Len(server.results) = Len(Split(server.file)) /\ server.file \in Files /\ server.results \in Seq(Branches)
      BY <1>2, <1>6 DEF Respond, ServerOK, Ingestion
    <2>2. ok \in [file : Files, results : Seq(Branches)] /\ ok.file = server.file /\ ok.results = server.results
      BY <2>1
    <2>3. Request(l) = server.request /\ Waiting(l)
      BY <1>6 DEF Heard
    <2>4. \A f : Of(Request(l), f, loops) => f = server.file
      BY <1>2, <2>3 DEF ServerOK, Of
    <2>5. ok \in {None} \cup [file : Files, results : Seq(Branches)]
      BY <2>2
    <2>6. \A f : Of(Request(l), f, loops) => /\ ok # None => ok.file = f
                                             /\ "done" = "done" => Len(ok.results) = Len(Split(f))
      BY <2>1, <2>2, <2>4
    <2>7. LoopsOK(loops') /\ busy' \in BOOLEAN /\ ItemsOK(items', loops') /\ Extends(loops, loops')
      BY <1>3, <1>6, <2>3, <2>5, <2>6, MoveOnOK
    <2> QED
      BY <1>1, <2>7, StillInv
  <1> QED
    BY <1>4, <1>5, <1>6 DEF Respond, ServerStops

LEMMA InvInit == Init => IInv
  <1> SUFFICES ASSUME Init PROVE IInv
    OBVIOUS
  <1>1. items = << >> /\ busy = FALSE /\ loops = << >> /\ server = None
    BY DEF Init
  <1>2. LoopsOK(loops)
    BY <1>1 DEF LoopsOK
  <1>3. ItemsOK(items, loops)
    BY <1>1 DEF ItemsOK
  <1> QED
    BY <1>1, <1>2, <1>3 DEF IInv

LEMMA InvNext == IInv /\ [Next]_vars => IInv'
  <1> SUFFICES ASSUME IInv, [Next]_vars PROVE IInv'
    OBVIOUS
  <1>1. ASSUME NEW files \in Selections, Ingest(files) PROVE IInv'
    <2>1. LoopsOK(loops') /\ busy' \in BOOLEAN /\ ItemsOK(items', loops') /\ Extends(loops, loops')
      BY <1>1, IngestOK
    <2>2. UNCHANGED server
      BY <1>1 DEF Ingest
    <2> QED
      BY <2>1, <2>2, StillInv
  <1>2. CASE Clear
    <2>1. items' = << >> /\ UNCHANGED <<busy, loops, server>>
      BY <1>2 DEF Clear
    <2>2. ItemsOK(<< >>, loops)
      BY DEF ItemsOK
    <2> QED
      BY <2>1, <2>2 DEF IInv
  <1>3. ASSUME NEW l \in DOMAIN loops, ConnectionFails(l) PROVE IInv'
    <2>1. LoopsOK(loops') /\ busy' \in BOOLEAN /\ ItemsOK(items', loops') /\ Extends(loops, loops')
      BY <1>3, MoveOnOK DEF ConnectionFails
    <2>2. UNCHANGED server
      BY <1>3 DEF ConnectionFails
    <2> QED
      BY <2>1, <2>2, StillInv
  <1>4. ASSUME NEW l \in DOMAIN loops, Begin(l) PROVE IInv'
    BY <1>4, BeginOK
  <1>5. CASE ServerStep
    BY <1>5, DocumentStep, RespondOK DEF ServerStep
  <1>6. CASE ServerStops
    BY <1>6, RespondOK
  <1>7. CASE UNCHANGED vars
    BY <1>7 DEF IInv, vars
  <1> QED
    BY <1>1, <1>2, <1>3, <1>4, <1>5, <1>6, <1>7 DEF Next

LEMMA Invariant == Spec => []IInv
  BY InvInit, InvNext, PTL DEF Spec

-----------------------------------------------------------------------------
(* The properties.                                                         *)

\* The upload store's items and the server's locals hold what their types declare, however many
\* files, documents and retries there are (uploadStore.ts:5-12, preprocess.py, extract.py, retry.py).
THEOREM TypeCorrect == Spec => []TypeOK
  <1>1. IInv => TypeOK
    BY DEF IInv, LoopsOK, ItemsOK, ServerOK, TypeOK
  <1> QED
    BY <1>1, Invariant, PTL

\* An outcome is shown at the file it belongs to, whatever was dropped, failed or lost since
\* (uploadStore.ts:28-29,41).
THEOREM OutcomesKeepTheirFiles == Spec => []OutcomesAreTheirOwn
  <1>1. IInv => OutcomesAreTheirOwn
    BY DEF IInv, ItemsOK, ItemOK, OutcomesAreTheirOwn
  <1> QED
    BY <1>1, Invariant, PTL

\* A response has one result for each document of its file, stored or dead-lettered
\* (retry.py:82-86).
THEOREM EachDocumentIsAnswered == Spec => []EveryDocumentAnswered
  <1>1. IInv => EveryDocumentAnswered
    BY DEF IInv, ItemsOK, ItemOK, EveryDocumentAnswered
  <1> QED
    BY <1>1, Invariant, PTL

\* However often chunks were repaired and the document retried, what is merged of its chunks is
\* what one call would have read: every line item once, in order, and the first number
\* (extract.py:86-128).
THEOREM MergedIsWhole == Spec => []ReadingComplete
  <1>1. IInv => ReadingComplete
    <2> SUFFICES ASSUME IInv, server # None, server.doc.stage = "merged"
                 PROVE  Merge(server.doc.parts) = ReadPages(server.file, Pages)
      BY DEF ReadingComplete
    <2> PICK f, pages, parts, requests :
           f = server.file /\ pages = Pages /\ parts = server.doc.parts /\ requests = Requests(f, pages)
      OBVIOUS
    <2>1. ServerOK(server, loops)
      BY DEF IInv
    <2>2. Len(server.results) < Len(server.documents) /\ server.doc \in Documents
      BY <2>1, ServerFacts DEF ServerOK
    <2>3. f \in Files /\ pages \in Seq(DOMAIN Numbers(f)) /\ pages # << >> /\ DocOK(server.doc, f, pages)
      BY <2>1, <2>2, ServerFacts
    <2>4. /\ requests \in Seq(Seq(DOMAIN Numbers(f))) /\ requests # << >> /\ FlattenSeq(requests) = pages
      BY <2>3, RequestsAre
    <2>5. parts \in Seq(Part)
      BY <2>2 DEF Documents
    <2>6. Len(parts) = Len(requests) /\ \A c \in 1 .. Len(parts) : parts[c] = ReadPages(f, requests[c])
      BY <2>3 DEF DocOK
    <2> QED
      BY <2>3, <2>4, <2>5, <2>6, MergeReads
  <1> QED
    BY <1>1, Invariant, PTL

\* Whatever numbers stand on which pages, the documents of a file hold each of its pages once, in
\* order; none mixes two numbers, and neighbours differ in theirs (preprocess.py:99-126).
THEOREM SplittingIsSound == Spec => []PagesCovered
  <1>1. IInv => PagesCovered
    <2> SUFFICES ASSUME IInv, server # None PROVE PagesCovered
      BY DEF PagesCovered
    <2> PICK f, docs, numbers : f = server.file /\ docs = server.documents /\ numbers = Numbers(f)
      OBVIOUS
    <2>1. f \in Files /\ docs = Split(f)
      BY ServerFacts DEF IInv
    <2>2. /\ docs \in Seq(Seq(Nat)) /\ FlattenSeq(docs) = [i \in DOMAIN Contents[f].pages |-> i]
          /\ numbers \in Seq(Opt(Texts)) /\ numbers # << >>
      BY <2>1, SplitIs
    <2>3. ASSUME NEW g \in DOMAIN docs, File.kind = "pdf" /\ File.readable
          PROVE  Cardinality(NumbersOf(numbers, docs[g])) <= 1
      <3>1. docs = Groups(numbers)
        BY <2>1, <2>3 DEF Split, File
      <3>2. g \in 1 .. Cardinality(Starts(numbers))
        BY <2>2, <3>1, GroupsAre
      <3> QED
        BY <2>2, <3>1, <3>2, DocumentNumber
    <2>4. ASSUME NEW g \in 2 .. Len(docs)
          PROVE  NumbersOf(numbers, docs[g]) # NumbersOf(numbers, docs[g - 1]) /\ numbers[docs[g][1]] # None
      <3>1. docs = Groups(numbers)
        <4>1. ~(Contents[f].kind = "pdf" /\ Contents[f].readable) => Len(docs) = 1
          BY <2>1 DEF Split
        <4> QED
          BY <2>1, <4>1 DEF Split
      <3>2. g \in 2 .. Cardinality(Starts(numbers))
        BY <2>2, <3>1, GroupsAre
      <3> QED
        BY <2>2, <3>1, <3>2, DocumentsDiffer
    <2> QED
      BY <2>2, <2>3, <2>4 DEF PagesCovered, File
  <1> QED
    BY <1>1, Invariant, PTL

-----------------------------------------------------------------------------
(* What a clean row is worth.                                              *)

LEMMA JudgedRow ==
    ASSUME IInv, server # None, server.doc.stage = "judged"
    PROVE  \E e \in Extractions, rate \in Rates : server.doc.row = Row(e, rate)
  BY DEF IInv, ServerOK, DocOK

LEMMA ClampedIs ==
    ASSUME NEW x \in Int, NEW top \in Nat
    PROVE  Clamped(x, top) = IF x < 0 THEN 0 ELSE IF top < x THEN top ELSE x
  <1>1. ASSUME NEW y \in Int, NEW z \in Int PROVE Min({y, z}) = IF y <= z THEN y ELSE z
    <2> PICK least : least = IF y <= z THEN y ELSE z
      OBVIOUS
    <2>1. least \in {y, z} /\ \A m \in {y, z} : least <= m
      OBVIOUS
    <2>2. \A n \in {y, z} : (\A m \in {y, z} : n <= m) => n = least
      BY <2>1
    <2> QED
      BY <2>1, <2>2 DEF Min
  <1>2. ASSUME NEW y \in Int, NEW z \in Int PROVE Max({y, z}) = IF y <= z THEN z ELSE y
    <2> PICK most : most = IF y <= z THEN z ELSE y
      OBVIOUS
    <2>1. most \in {y, z} /\ \A m \in {y, z} : most >= m
      OBVIOUS
    <2>2. \A n \in {y, z} : (\A m \in {y, z} : n >= m) => n = most
      BY <2>1
    <2> QED
      BY <2>1, <2>2 DEF Max
  <1>3. Min({top, x}) = IF top <= x THEN top ELSE x
    BY <1>1
  <1>4. Min({top, x}) \in Int
    BY <1>3
  <1>5. Max({0, Min({top, x})}) = IF 0 <= Min({top, x}) THEN Min({top, x}) ELSE 0
    BY <1>2, <1>4
  <1> QED
    BY <1>3, <1>5 DEF Clamped

\* Without a total no more than 68 percent of confidence is left.
LEMMA NoTotalIsDoubt ==
    ASSUME NEW e, e.total = None, e.self \in 0 .. 100 \cup {None}, NEW v, NEW ambiguous
    PROVE  Confidence(e, v, ambiguous) \in 0 .. 6800
  <1>1. \A doubt : Less(doubt, 40) \in {0, 40} /\ Less(doubt, 15) \in {0, 15} /\ Less(doubt, 20) \in {0, 20}
                   /\ Less(doubt, 10) \in {0, 10}
    BY DEF Less
  <1>2. Less(e.total = None, 40) = 40
    BY DEF Less
  <1> PICK x, self :
         /\ x = 100 - Less(~v.totals, 40) - Less(~v.taxes, 15) - Less(~v.lines, 15) - Less(ambiguous, 20)
                    - Less(e.number = None, 10) - Less(e.total = None, 40) - Less(e.vendor = None, 10)
         /\ self = IF e.self = None THEN 70 ELSE e.self
    OBVIOUS
  <1>3. x \in Int /\ x <= 60
    BY <1>1, <1>2
  <1>4. self \in 0 .. 100
    OBVIOUS
  <1> PICK det : det = Clamped(x, 100)
    OBVIOUS
  <1>5. det \in 0 .. 60
    BY <1>3, ClampedIs
  <1>6. PICK y, top : y = 80 * det + 20 * self /\ top = 10000
    OBVIOUS
  <1>8. y \in Int /\ top \in Nat /\ ~(y < 0) /\ ~(top < y)
    <2>1. y \in Int /\ 0 <= y /\ y <= 6800
      BY ONLY <1>4, <1>5, <1>6
    <2>2. top \in Nat /\ 6800 < top
      BY ONLY <1>6
    <2> QED
      BY ONLY <2>1, <2>2
  <1>9. Clamped(y, top) = IF y < 0 THEN 0 ELSE IF top < y THEN top ELSE y
    BY ONLY <1>8, ClampedIs
  <1>10. Clamped(y, top) \in 0 .. 6800
    BY ONLY <1>4, <1>5, <1>6, <1>8, <1>9
  <1> QED
    BY <1>6, <1>10 DEF Confidence

LEMMA FigureInBase ==
    ASSUME NEW amount \in Figure, amount # None, NEW currency, NEW rate \in Figure,
           ConvertToBase(amount, currency, rate).ok
    PROVE  ConvertToBase(amount, currency, rate).base # None
  <1>1. amount \in Int /\ None \notin Int
    BY IntakeAssumption DEF Figure
  <1>2. CASE currency \in {None, BaseCurrency}
    BY <1>1, <1>2 DEF ConvertToBase
  <1>3. CASE currency \notin {None, BaseCurrency} /\ rate = None
    BY <1>3 DEF ConvertToBase
  <1>4. CASE currency \notin {None, BaseCurrency} /\ rate # None
    <2>1. rate \in Int /\ amount * rate \in Int
      BY <1>1, <1>4 DEF Figure
    <2>2. \A n \in Int : HalfUp(n) \in Int
      BY DEF HalfUp
    <2>3. ConvertToBase(amount, currency, rate).base = HalfUp(amount * rate)
      BY <1>4 DEF ConvertToBase
    <2> QED
      BY <1>1, <2>1, <2>2, <2>3
  <1> QED
    BY <1>2, <1>3, <1>4

\* With a review threshold above 68 percent, an invoice that counts as spend has a figure in the
\* base currency: neither an unread total nor a failed conversion passes the checks, unless the model
\* is more than certain of itself (validate.py:99-133, pipeline.py:222-229).
THEOREM CleanRowsHaveFigures ==
    ASSUME Threshold \in Int, Threshold > 68
    PROVE  Spec => []CleanHasFigure
  <1>1. IInv => CleanHasFigure
    <2> SUFFICES ASSUME IInv, server # None, server.doc.stage = "judged", server.doc.row.status = "clean",
                        server.doc.row.read.self \in 0 .. 100 \cup {None}
                 PROVE  server.doc.row.base # None
      BY DEF CleanHasFigure
    <2> PICK e \in Extractions, rate \in Rates : server.doc.row = Row(e, rate)
      BY JudgedRow
    <2> PICK dated, converted, currency :
          /\ currency = NormalizeCurrency(e.currency)
          /\ dated = NormalizeDate(e.date, DayFirst(currency))
          /\ converted = ConvertToBase(e.total, currency, rate)
      OBVIOUS
    <2>1. Row(e, rate) = [read |-> e, date |-> dated.date, base |-> converted.base,
                          status |-> IF converted.ok THEN Assess(e, dated.ambiguous) ELSE "needs_review"]
      BY DEF Row
    <2>2. converted.ok /\ Assess(e, dated.ambiguous) = "clean" /\ e.self \in 0 .. 100 \cup {None}
      BY <2>1
    <2>3. e.total \in Figure /\ rate \in Figure
      BY IntakeAssumption
    <2>4. e.total # None
      <3> SUFFICES ASSUME e.total = None PROVE FALSE
        OBVIOUS
      <3>0. PICK confidence : confidence = Confidence(e, Reconcile(e), dated.ambiguous)
        OBVIOUS
      <3>1. confidence >= 100 * Threshold
        BY <2>2, <3>0 DEF Assess
      <3>2. confidence \in 0 .. 6800
        <4>1. e.total = None /\ e.self \in 0 .. 100 \cup {None}
          BY <2>2
        <4>2. \A v, ambiguous : Confidence(e, v, ambiguous) \in 0 .. 6800
          BY ONLY <4>1, NoTotalIsDoubt
        <4> QED
          BY ONLY <3>0, <4>2
      <3>3. Threshold \in Int /\ Threshold > 68
        OBVIOUS
      <3> QED
        BY ONLY <3>1, <3>2, <3>3
    <2>5. converted.base # None
      BY <2>2, <2>3, <2>4, FigureInBase
    <2> QED
      BY <2>1, <2>5
  <1> QED
    BY <1>1, Invariant, PTL

\* Three numbers make the same date in either order, or one that is flagged.
LEMMA NumbersAreCertain ==
    ASSUME NEW raw \in RawDate, raw # None, raw.form # "words", NEW one, NEW other,
           NormalizeDate(raw, one).ambiguous # TRUE
    PROVE  NormalizeDate(raw, other).date = NormalizeDate(raw, one).date
  <1>1. raw.form \in {"iso", "numeric"} /\ raw.a \in Nat /\ raw.b \in Nat /\ raw.c \in Nat
    BY DEF RawDate
  <1>2. CASE raw.form = "iso"
    BY <1>2 DEF NormalizeDate
  <1>3. CASE raw.form = "numeric" /\ raw.a > 999
    BY <1>3 DEF NormalizeDate
  <1>4. CASE raw.form = "numeric" /\ ~(raw.a > 999)
    <2> PICK a, b, year : a = raw.a /\ b = raw.b /\ year = IF raw.c > 99 THEN raw.c ELSE 2000 + raw.c
      OBVIOUS
    <2>1. \A first : NormalizeDate(raw, first) = Numeric(a, b, year, first)
      BY <1>4 DEF NormalizeDate
    <2>2. CASE a <= 12 /\ b <= 12 /\ a # b
      <3>1. Numeric(a, b, year, one) = Flagged(IF one # "no" THEN SafeDate(year, b, a) ELSE SafeDate(year, a, b))
        BY <1>1, <2>2 DEF Numeric
      <3>2. \A y, m, d : Flagged(SafeDate(y, m, d)).ambiguous = TRUE
        BY DEF Flagged, SafeDate
      <3>3. Numeric(a, b, year, one).ambiguous = TRUE
        <4>1. CASE one # "no"
          BY ONLY <3>1, <3>2, <4>1
        <4>2. CASE one = "no"
          BY ONLY <3>1, <3>2, <4>2
        <4> QED
          BY <4>1, <4>2
      <3>4. NormalizeDate(raw, one) = Numeric(a, b, year, one)
        BY <2>1
      <3>5. NormalizeDate(raw, one).ambiguous = TRUE
        BY <3>3, <3>4
      <3> QED
        BY <3>5
    <2>3. CASE ~(a <= 12 /\ b <= 12 /\ a # b)
      <3>1. Numeric(a, b, year, one) = Numeric(a, b, year, other)
        BY <1>1, <2>3 DEF Numeric
      <3> QED
        BY <2>1, <3>1
    <2> QED
      BY <2>2, <2>3
  <1> QED
    BY <1>1, <1>2, <1>3, <1>4

\* An invoice that counts as spend is dated by its numbers alone: no convention on the order of day
\* and month decides the month it is counted in (normalize.py:42-49, validate.py:129).
THEOREM CleanDatesAreCertain == Spec => []CleanDateIsCertain
  <1>1. IInv => CleanDateIsCertain
    <2> SUFFICES ASSUME IInv, server # None, server.doc.stage = "judged", server.doc.row.status = "clean",
                        server.doc.row.read.date # None, server.doc.row.read.date.form # "words",
                        NEW dayFirst \in {"yes", "no"}
                 PROVE  NormalizeDate(server.doc.row.read.date, dayFirst).date = server.doc.row.date
      BY DEF CleanDateIsCertain
    <2> PICK e \in Extractions, rate \in Rates : server.doc.row = Row(e, rate)
      BY JudgedRow
    <2> PICK first, dated, converted, currency :
          /\ currency = NormalizeCurrency(e.currency) /\ first = DayFirst(currency)
          /\ dated = NormalizeDate(e.date, first)
          /\ converted = ConvertToBase(e.total, currency, rate)
      OBVIOUS
    <2>1. Row(e, rate) = [read |-> e, date |-> dated.date, base |-> converted.base,
                          status |-> IF converted.ok THEN Assess(e, dated.ambiguous) ELSE "needs_review"]
      BY DEF Row
    <2>2. Assess(e, dated.ambiguous) = "clean" /\ e.date # None /\ e.date.form # "words" /\ e.date \in RawDate
      BY <2>1, IntakeAssumption
    <2>3. dated.ambiguous # TRUE
      BY <2>2 DEF Assess
    <2>4. NormalizeDate(e.date, dayFirst).date = dated.date
      BY <2>2, <2>3, NumbersAreCertain
    <2> QED
      BY <2>1, <2>4
  <1> QED
    BY <1>1, Invariant, PTL
=============================================================================
