----------------------------- MODULE ReportsProofs -----------------------------
(***************************************************************************)
(* Theorems about the reports, for every ledger, calendar day and audit     *)
(* trail.  Induction is by the least counterexample.                        *)
(***************************************************************************)
EXTENDS Books, Lemmas

-----------------------------------------------------------------------------
(* The calendar.                                                           *)

LEMMA MonthLengths ==
    ASSUME NEW y, NEW m
    PROVE  MonthLength(y, m) \in 28 .. 31 /\ (m = 12 => MonthLength(y, m) = 31)
  BY DEF MonthLength

DateOf(y, m, k) == [y |-> y, m |-> m, d |-> k]

LEMMA DateFields ==
    ASSUME NEW d \in Date
    PROVE  /\ d.y \in Int /\ d.m \in 1 .. 12 /\ d.d \in 1 .. 31 /\ d.d <= MonthLength(d.y, d.m)
           /\ d = DateOf(d.y, d.m, d.d)
  <1>1. d \in [y : Int, m : 1 .. 12, d : 1 .. 31] /\ d.d \in 1 .. MonthLength(d.y, d.m)
    BY DEF Date, IsDate
  <1>2. MonthLength(d.y, d.m) \in Int
    BY MonthLengths
  <1> QED
    BY <1>1, <1>2 DEF DateOf

LEMMA DateIs ==
    ASSUME NEW y \in Int, NEW m \in 1 .. 12, NEW k \in 1 .. MonthLength(y, m)
    PROVE  /\ DateOf(y, m, k) \in Date /\ IsDate(DateOf(y, m, k))
           /\ DateOf(y, m, k).y = y /\ DateOf(y, m, k).m = m /\ DateOf(y, m, k).d = k
  <1>1. k \in 1 .. 31
    BY MonthLengths
  <1> QED
    BY <1>1 DEF Date, IsDate, DateOf

LEMMA FirstIs ==
    ASSUME NEW y \in Int, NEW m \in 1 .. 12
    PROVE  /\ FirstOf(y, m) = DateOf(y, m, 1) /\ FirstOf(y, m) \in Date
           /\ EndOfMonth(FirstOf(y, m)) = DateOf(y, m, MonthLength(y, m))
           /\ EndOfMonth(FirstOf(y, m)) \in Date
  <1>1. MonthLength(y, m) \in 28 .. 31
    BY MonthLengths
  <1>2. 1 \in 1 .. MonthLength(y, m) /\ MonthLength(y, m) \in 1 .. MonthLength(y, m)
    BY <1>1
  <1>3. DateOf(y, m, 1) \in Date /\ DateOf(y, m, MonthLength(y, m)) \in Date
    BY <1>2, DateIs
  <1>4. FirstOf(y, m) = DateOf(y, m, 1)
    BY DEF FirstOf, DateOf
  <1>5. EndOfMonth(FirstOf(y, m)) = DateOf(y, m, MonthLength(y, m))
    BY DEF FirstOf, DateOf, EndOfMonth
  <1> QED
    BY <1>3, <1>4, <1>5

\* The first of the month k months on or back, as far as periods go.
LEMMA MonthsOn ==
    ASSUME NEW y \in Int, NEW m \in 1 .. 12, NEW k \in -3 .. 2
    PROVE  PlusMonths(FirstOf(y, m), k) =
               IF m + k < 1 THEN FirstOf(y - 1, m + k + 12)
               ELSE IF m + k > 12 THEN FirstOf(y + 1, m + k - 12)
               ELSE FirstOf(y, m + k)
  <1> DEFINE n == m - 1 + k
  <1>1. FirstOf(y, m).y = y /\ FirstOf(y, m).m = m
    BY DEF FirstOf
  <1>2. PlusMonths(FirstOf(y, m), k) = FirstOf(y + n \div 12, (n % 12) + 1)
    BY <1>1 DEF PlusMonths
  <1>3. n \in -3 .. 13
    OBVIOUS
  <1>4. CASE n < 0
    <2>1. n \div 12 = -1 /\ n % 12 = n + 12
      BY <1>3, <1>4
    <2> QED
      BY <1>2, <1>4, <2>1
  <1>5. CASE n > 11
    <2>1. n \div 12 = 1 /\ n % 12 = n - 12
      BY <1>3, <1>5
    <2> QED
      BY <1>2, <1>5, <2>1
  <1>6. CASE n \in 0 .. 11
    <2>1. n \div 12 = 0 /\ n % 12 = n
      BY <1>6
    <2>2. ~(m + k < 1) /\ ~(m + k > 12) /\ y + 0 = y /\ n + 1 = m + k
      BY <1>6
    <2> QED
      BY <1>2, <2>1, <2>2
  <1> QED
    BY <1>3, <1>4, <1>5, <1>6

\* The order of dates is that of years, months and days.
Rank(y, m, d) == 10000 * y + 100 * m + d

LEMMA Weights ==
    ASSUME NEW y \in Int, NEW m \in 1 .. 12, NEW d \in 1 .. 31, NEW z \in Int, NEW n \in 1 .. 12, NEW e \in 1 .. 31
    PROVE  /\ Rank(y, m, d) \in Int
           /\ y < z \/ (y = z /\ m < n) \/ (y = z /\ m = n /\ d < e) => Rank(y, m, d) < Rank(z, n, e)
  BY DEF Rank

LEMMA IsoIsRank ==
    ASSUME NEW d
    PROVE  Iso(d) = Rank(d.y, d.m, d.d)
  BY DEF Iso, Rank

LEMMA Later ==
    ASSUME NEW c \in Date, NEW d \in Date,
           c.y < d.y \/ (c.y = d.y /\ c.m < d.m) \/ (c.y = d.y /\ c.m = d.m /\ c.d < d.d)
    PROVE  Iso(c) \in Int /\ Iso(d) \in Int /\ Iso(c) < Iso(d)
  <1>1. /\ c.y \in Int /\ c.m \in 1 .. 12 /\ c.d \in 1 .. 31
        /\ d.y \in Int /\ d.m \in 1 .. 12 /\ d.d \in 1 .. 31
    BY DateFields
  <1>2. Iso(c) \in Int /\ Iso(d) \in Int
    BY <1>1, Weights, IsoIsRank
  <1>3. Iso(c) < Iso(d)
    BY <1>1, Weights, IsoIsRank
  <1> QED
    BY <1>2, <1>3

LEMMA NotLater ==
    ASSUME NEW c \in Date, NEW d \in Date,
           c.y < d.y \/ (c.y = d.y /\ c.m < d.m) \/ (c.y = d.y /\ c.m = d.m /\ c.d <= d.d)
    PROVE  Iso(c) \in Int /\ Iso(d) \in Int /\ Iso(c) <= Iso(d)
  <1>1. c = DateOf(c.y, c.m, c.d) /\ d = DateOf(d.y, d.m, d.d) /\ c.d \in Int /\ d.d \in Int
    BY DateFields
  <1>2. c = d \/ c.y < d.y \/ (c.y = d.y /\ c.m < d.m) \/ (c.y = d.y /\ c.m = d.m /\ c.d < d.d)
    BY <1>1
  <1>3. Iso(c) \in Int
    <2>1. c.y \in Int /\ c.m \in 1 .. 12 /\ c.d \in 1 .. 31
      BY DateFields
    <2> QED
      BY <2>1, Weights, IsoIsRank
  <1> QED
    BY <1>2, <1>3, Later

LEMMA DayBeforeIs ==
    ASSUME NEW d \in Date
    PROVE  DayBefore(d) \in Date /\ Iso(DayBefore(d)) \in Int /\ Iso(d) \in Int /\ Iso(DayBefore(d)) < Iso(d)
  <1>1. /\ d.y \in Int /\ d.m \in 1 .. 12 /\ d.d \in 1 .. 31 /\ d.d <= MonthLength(d.y, d.m)
        /\ d = DateOf(d.y, d.m, d.d)
    BY DateFields
  <1>2. CASE d.d > 1
    <2>1. DayBefore(d) = DateOf(d.y, d.m, d.d - 1)
      BY <1>1, <1>2 DEF DayBefore, DateOf
    <2>2. d.d - 1 \in 1 .. MonthLength(d.y, d.m) /\ d.d - 1 < d.d
      BY <1>1, <1>2, MonthLengths
    <2>3. DayBefore(d) \in Date
      BY <1>1, <2>1, <2>2, DateIs
    <2> PICK c \in Date : c = DayBefore(d)
      BY <2>3
    <2>4. c.y = d.y /\ c.m = d.m /\ c.d < d.d
      BY <2>1, <2>2 DEF DateOf
    <2>5. Iso(c) \in Int /\ Iso(d) \in Int /\ Iso(c) < Iso(d)
      BY <2>4, Later
    <2> QED
      BY <2>5
  <1>3. CASE ~(d.d > 1)
    <2>1. d = FirstOf(d.y, d.m)
      BY <1>1, <1>3 DEF DateOf, FirstOf
    <2> DEFINE y == IF d.m = 1 THEN d.y - 1 ELSE d.y
               m == IF d.m = 1 THEN 12 ELSE d.m - 1
    <2>2. PlusMonths(d, -1) = FirstOf(y, m)
      BY <1>1, <2>1, MonthsOn
    <2>3. y \in Int /\ m \in 1 .. 12 /\ (y < d.y \/ (y = d.y /\ m < d.m))
      BY <1>1
    <2>4. DayBefore(d) = DateOf(y, m, MonthLength(y, m)) /\ DayBefore(d) \in Date
      BY <1>3, <2>2, <2>3, FirstIs DEF DayBefore
    <2>5. DayBefore(d).y = y /\ DayBefore(d).m = m
      BY <2>4 DEF DateOf
    <2> QED
      BY <2>3, <2>4, <2>5, Later
  <1> QED
    BY <1>2, <1>3

-----------------------------------------------------------------------------
(* Going back day by day.                                                  *)

\* f goes back from d, day by day, n days.
GoesBack(f, d, n) == f = [k \in 0 .. n |-> IF k = 0 THEN d ELSE DayBefore(f[k - 1])]

LEMMA GoesBackOneMore ==
    ASSUME NEW d, NEW n \in Nat \ {0}, NEW f, GoesBack(f, d, n - 1)
    PROVE  \E g : GoesBack(g, d, n)
  <1> DEFINE g == [k \in 0 .. n |-> IF k < n THEN f[k] ELSE DayBefore(f[n - 1])]
  <1>1. ASSUME NEW k \in 0 .. n
        PROVE  g[k] = IF k = 0 THEN d ELSE DayBefore(g[k - 1])
    <2>1. CASE k < n
      <3>1. k \in 0 .. n - 1
        BY <2>1
      <3>2. f[k] = IF k = 0 THEN d ELSE DayBefore(f[k - 1])
        BY <3>1 DEF GoesBack
      <3>3. k # 0 => k - 1 \in 0 .. n /\ k - 1 < n
        BY <2>1
      <3> QED
        BY <2>1, <3>2, <3>3
    <2>2. CASE k = n
      <3>1. g[n] = DayBefore(f[n - 1]) /\ g[n - 1] = f[n - 1] /\ n # 0
        OBVIOUS
      <3> HIDE DEF g
      <3> QED
        BY <2>2, <3>1
    <2> QED
      BY <2>1, <2>2
  <1>2. GoesBack(g, d, n)
    BY <1>1 DEF GoesBack
  <1> QED
    BY <1>2

LEMMA AllGoBack ==
    ASSUME NEW d, NEW n \in Nat
    PROVE  \E f : GoesBack(f, d, n)
  <1> DEFINE Bad == {k \in Nat : ~\E f : GoesBack(f, d, k)}
  <1> SUFFICES ASSUME Bad # {} PROVE FALSE
    OBVIOUS
  <1>1. Bad \in SUBSET Nat
    OBVIOUS
  <1> HIDE DEF Bad
  <1>2. PICK k \in Bad : \A m \in Bad : k <= m
    BY <1>1, Least
  <1>3. k \in Nat /\ ~\E f : GoesBack(f, d, k)
    BY <1>2 DEF Bad
  <1>4. k # 0
    <2> DEFINE g == [j \in 0 .. 0 |-> d]
    <2>1. GoesBack(g, d, 0)
      BY DEF GoesBack
    <2> QED
      BY <1>3, <2>1
  <1>5. \E f : GoesBack(f, d, k - 1)
    BY <1>2, <1>3, <1>4 DEF Bad
  <1> QED
    BY <1>3, <1>4, <1>5, GoesBackOneMore

LEMMA GoingBackIsOne ==
    ASSUME NEW d, NEW m \in Nat, NEW n \in Nat, NEW f, NEW g, GoesBack(f, d, m), GoesBack(g, d, n),
           NEW k \in Nat, k <= m, k <= n
    PROVE  f[k] = g[k]
  <1> DEFINE Bad == {j \in 0 .. k : f[j] # g[j]}
  <1> SUFFICES ASSUME Bad # {} PROVE FALSE
    OBVIOUS
  <1>1. Bad \in SUBSET Nat
    OBVIOUS
  <1>2. /\ \A j \in 0 .. k : f[j] = IF j = 0 THEN d ELSE DayBefore(f[j - 1])
        /\ \A j \in 0 .. k : g[j] = IF j = 0 THEN d ELSE DayBefore(g[j - 1])
    <2>1. \A j \in 0 .. k : j \in 0 .. m /\ j \in 0 .. n
      OBVIOUS
    <2> QED
      BY <2>1 DEF GoesBack
  <1> HIDE DEF Bad
  <1>3. PICK j \in Bad : \A i \in Bad : j <= i
    BY <1>1, Least
  <1>4. j \in 0 .. k /\ f[j] # g[j]
    BY <1>3 DEF Bad
  <1>5. j # 0
    BY <1>2, <1>4
  <1>6. f[j - 1] = g[j - 1]
    BY <1>3, <1>4, <1>5 DEF Bad
  <1> QED
    BY <1>2, <1>4, <1>5, <1>6

LEMMA MinusDaysIs ==
    ASSUME NEW d, NEW n \in Nat
    PROVE  /\ MinusDays(d, 0) = d
           /\ MinusDays(d, n + 1) = DayBefore(MinusDays(d, n))
  <1> DEFINE h(k) == CHOOSE f : GoesBack(f, d, k)
  <1>1. ASSUME NEW k \in Nat PROVE GoesBack(h(k), d, k) /\ MinusDays(d, k) = h(k)[k]
    <2>1. GoesBack(h(k), d, k)
      BY AllGoBack
    <2>2. MinusDays(d, k) = h(k)[k]
      BY DEF MinusDays, GoesBack
    <2> QED
      BY <2>1, <2>2
  <1> HIDE DEF h
  <1>2. MinusDays(d, 0) = d
    <2>1. h(0)[0] = d
      BY <1>1 DEF GoesBack
    <2> QED
      BY <1>1, <2>1
  <1>3. h(n + 1)[n + 1] = DayBefore(h(n + 1)[n])
    BY <1>1 DEF GoesBack
  <1>4. h(n + 1)[n] = h(n)[n]
    BY <1>1, GoingBackIsOne
  <1> QED
    BY <1>1, <1>2, <1>3, <1>4

LEMMA MinusDaysDate ==
    ASSUME NEW d \in Date, NEW n \in Nat
    PROVE  MinusDays(d, n) \in Date
  <1> DEFINE Bad == {k \in Nat : MinusDays(d, k) \notin Date}
  <1> SUFFICES ASSUME Bad # {} PROVE FALSE
    OBVIOUS
  <1>1. Bad \in SUBSET Nat
    OBVIOUS
  <1> HIDE DEF Bad
  <1>2. PICK k \in Bad : \A m \in Bad : k <= m
    BY <1>1, Least
  <1>3. k \in Nat /\ MinusDays(d, k) \notin Date
    BY <1>2 DEF Bad
  <1>4. k # 0
    BY <1>3, MinusDaysIs
  <1>5. k - 1 \in Nat /\ MinusDays(d, k - 1) \in Date
    BY <1>2, <1>3, <1>4 DEF Bad
  <1>6. MinusDays(d, (k - 1) + 1) = DayBefore(MinusDays(d, k - 1))
    BY <1>5, MinusDaysIs
  <1>7. (k - 1) + 1 = k
    BY <1>3
  <1> QED
    BY <1>3, <1>5, <1>6, <1>7, DayBeforeIs

\* More days back is an earlier date.
LEMMA MinusDaysFalls ==
    ASSUME NEW d \in Date, NEW j \in Nat, NEW n \in Nat, j < n
    PROVE  Iso(MinusDays(d, n)) \in Int /\ Iso(MinusDays(d, j)) \in Int /\ Iso(MinusDays(d, n)) < Iso(MinusDays(d, j))
  <1> DEFINE Bad == {k \in Nat : j < k /\ ~(Iso(MinusDays(d, k)) < Iso(MinusDays(d, j)))}
  <1>1. \A k \in Nat : /\ MinusDays(d, k) \in Date /\ Iso(MinusDays(d, k)) \in Int
                       /\ Iso(MinusDays(d, k + 1)) < Iso(MinusDays(d, k))
    <2> TAKE k \in Nat
    <2>1. MinusDays(d, k) \in Date
      BY MinusDaysDate
    <2> QED
      BY <2>1, MinusDaysIs, DayBeforeIs
  <1>2. Bad = {}
    <2> SUFFICES ASSUME Bad # {} PROVE FALSE
      OBVIOUS
    <2>1. Bad \in SUBSET Nat
      OBVIOUS
    <2> HIDE DEF Bad
    <2>2. PICK k \in Bad : \A m \in Bad : k <= m
      BY <2>1, Least
    <2>3. k \in Nat /\ j < k /\ ~(Iso(MinusDays(d, k)) < Iso(MinusDays(d, j)))
      BY <2>2 DEF Bad
    <2> PICK i \in Nat : i = k - 1
      BY <2>3
    <2>4. Iso(MinusDays(d, i + 1)) < Iso(MinusDays(d, i)) /\ i + 1 = k
      BY <1>1, <2>3
    <2>5. i # j
      BY <2>3, <2>4
    <2>6. i \notin Bad /\ j < i
      BY <2>2, <2>3, <2>5
    <2>7. Iso(MinusDays(d, i)) < Iso(MinusDays(d, j))
      BY <2>6 DEF Bad
    <2> QED
      BY <1>1, <2>3, <2>4, <2>7
  <1> QED
    BY <1>1, <1>2

\* Among so many days back, those since the n-th are that one and the ones after it.
LEMMA DaysSinceIs ==
    ASSUME NEW n \in Nat, NEW most \in Nat, n <= most, today \in Date
    PROVE  Cardinality(DaysSince(MinusDays(today, n), most)) = n + 1
  <1> DEFINE i(k) == Iso(MinusDays(today, k))
  <1>1. \A k \in Nat : i(k) \in Int
    BY MinusDaysDate, DayBeforeIs
  <1>2. ASSUME NEW k \in 0 .. most
        PROVE  i(k) >= i(n) <=> k \in 0 .. n
    <2>1. CASE k < n
      <3>1. i(n) < i(k)
        BY <2>1, MinusDaysFalls
      <3> HIDE DEF i
      <3> QED
        BY <1>1, <2>1, <3>1
    <2>2. CASE n < k
      <3>1. i(k) < i(n)
        BY <2>2, MinusDaysFalls
      <3> HIDE DEF i
      <3> QED
        BY <1>1, <2>2, <3>1
    <2>3. CASE k = n
      <3> HIDE DEF i
      <3> QED
        BY <1>1, <2>3
    <2> QED
      BY <2>1, <2>2, <2>3
  <1>3. DaysSince(MinusDays(today, n), most) = {k \in 0 .. most : i(k) >= i(n)}
    BY DEF DaysSince
  <1> HIDE DEF i
  <1>4. DaysSince(MinusDays(today, n), most) = 0 .. n
    BY <1>2, <1>3
  <1>5. Cardinality(0 .. n) = IF 0 > n THEN 0 ELSE n - 0 + 1
    BY FS_Interval
  <1> QED
    BY <1>4, <1>5

-----------------------------------------------------------------------------
(* Periods of whole months of a year: from the first of month a to the end  *)
(* of month b.                                                             *)

Whole(y, a, b) == Span(FirstOf(y, a), EndOfMonth(FirstOf(y, b)))

LEMMA WholeIs ==
    ASSUME NEW y \in Int, NEW a \in 1 .. 12, NEW b \in a .. 12
    PROVE  /\ Whole(y, a, b).from = FirstOf(y, a) /\ Whole(y, a, b).from \in Date
           /\ Whole(y, a, b).to = EndOfMonth(FirstOf(y, b)) /\ Whole(y, a, b).to \in Date
           /\ Iso(Whole(y, a, b).from) <= Iso(Whole(y, a, b).to)
           /\ DayAfter(Whole(y, a, b).to) = IF b = 12 THEN FirstOf(y + 1, 1) ELSE FirstOf(y, b + 1)
  <1> DEFINE from == FirstOf(y, a)
             to == EndOfMonth(FirstOf(y, b))
  <1>1. b \in 1 .. 12
    OBVIOUS
  <1>2. from = DateOf(y, a, 1) /\ from \in Date
    BY FirstIs
  <1>3. to = DateOf(y, b, MonthLength(y, b)) /\ to \in Date
    BY <1>1, FirstIs
  <1>4. from.y = y /\ from.m = a /\ from.d = 1 /\ to.y = y /\ to.m = b /\ to.d = MonthLength(y, b)
    BY <1>2, <1>3 DEF DateOf
  <1>5. MonthLength(y, b) \in 28 .. 31
    BY MonthLengths
  <1>6. from.y < to.y \/ (from.y = to.y /\ from.m < to.m) \/ (from.y = to.y /\ from.m = to.m /\ from.d <= to.d)
    BY <1>1, <1>4, <1>5
  <1>7. Iso(from) <= Iso(to)
    BY <1>2, <1>3, <1>6, NotLater
  <1>8. DayAfter(to) = PlusMonths(FirstOf(y, b), 1)
    BY <1>4, <1>5 DEF DayAfter
  <1>9. PlusMonths(FirstOf(y, b), 1) = IF b = 12 THEN FirstOf(y + 1, 1) ELSE FirstOf(y, b + 1)
    BY <1>1, MonthsOn
  <1> QED
    BY <1>2, <1>3, <1>7, <1>8, <1>9 DEF Whole, Span

LEMMA WholeHolds ==
    ASSUME NEW d \in Date, NEW a \in 1 .. 12, NEW b \in a .. 12, a <= d.m, d.m <= b
    PROVE  Iso(Whole(d.y, a, b).from) <= Iso(d) /\ Iso(d) <= Iso(Whole(d.y, a, b).to)
  <1> DEFINE from == FirstOf(d.y, a)
             to == EndOfMonth(FirstOf(d.y, b))
  <1>1. d.y \in Int /\ d.m \in 1 .. 12 /\ d.d \in 1 .. 31 /\ d.d <= MonthLength(d.y, d.m) /\ b \in 1 .. 12
    BY DateFields
  <1>2. from = DateOf(d.y, a, 1) /\ from \in Date /\ Whole(d.y, a, b).from = from
    BY <1>1, FirstIs, WholeIs
  <1>3. to = DateOf(d.y, b, MonthLength(d.y, b)) /\ to \in Date /\ Whole(d.y, a, b).to = to
    BY <1>1, FirstIs, WholeIs
  <1>4. from.y = d.y /\ from.m = a /\ from.d = 1 /\ to.y = d.y /\ to.m = b /\ to.d = MonthLength(d.y, b)
    BY <1>2, <1>3 DEF DateOf
  <1>5. from.y = d.y /\ (from.m < d.m \/ (from.m = d.m /\ from.d <= d.d))
    BY <1>1, <1>4
  <1>6. d.y = to.y /\ (d.m < to.m \/ (d.m = to.m /\ d.d <= to.d))
    BY <1>1, <1>4
  <1> HIDE DEF from, to
  <1> QED
    BY <1>2, <1>3, <1>5, <1>6, NotLater

\* The first month of a quarter.
QuarterStart(m) == ((m - 1) \div 3) * 3 + 1

LEMMA Quarters ==
    ASSUME NEW m \in 1 .. 12
    PROVE  /\ QuarterStart(m) \in {1, 4, 7, 10} /\ QuarterStart(m) <= m /\ m <= QuarterStart(m) + 2
           /\ m \in {1, 4, 7, 10} => QuarterStart(m) = m
  <1>1. CASE m \in 1 .. 3
    <2>1. (m - 1) \div 3 = 0
      BY <1>1
    <2> QED
      BY <1>1, <2>1 DEF QuarterStart
  <1>2. CASE m \in 4 .. 6
    <2>1. (m - 1) \div 3 = 1
      BY <1>2
    <2> QED
      BY <1>2, <2>1 DEF QuarterStart
  <1>3. CASE m \in 7 .. 9
    <2>1. (m - 1) \div 3 = 2
      BY <1>3
    <2> QED
      BY <1>3, <2>1 DEF QuarterStart
  <1>4. CASE m \in 10 .. 12
    <2>1. (m - 1) \div 3 = 3
      BY <1>4
    <2> QED
      BY <1>4, <2>1 DEF QuarterStart
  <1> QED
    BY <1>1, <1>2, <1>3, <1>4

\* This month, quarter and year are whole months ...
LEMMA ThisIsWhole ==
    ASSUME NEW d \in Date
    PROVE  /\ Resolved("this_month", d) = Whole(d.y, d.m, d.m)
           /\ Resolved("this_quarter", d) = Whole(d.y, QuarterStart(d.m), QuarterStart(d.m) + 2)
           /\ Resolved("this_year", d) = Whole(d.y, 1, 12)
  <1>1. d.y \in Int /\ d.m \in 1 .. 12 /\ d = DateOf(d.y, d.m, d.d)
    BY DateFields
  <1>2. Resolved("this_month", d) = Whole(d.y, d.m, d.m)
    <2>1. Resolved("this_month", d) = Span(FirstOf(d.y, d.m), EndOfMonth(d))
      BY DEF Resolved
    <2>2. EndOfMonth(d) = EndOfMonth(FirstOf(d.y, d.m))
      BY <1>1 DEF DateOf, FirstOf, EndOfMonth
    <2> QED
      BY <2>1, <2>2 DEF Whole
  <1>3. Resolved("this_quarter", d) = Whole(d.y, QuarterStart(d.m), QuarterStart(d.m) + 2)
    <2> DEFINE q == QuarterStart(d.m)
    <2>1. Resolved("this_quarter", d) = QuarterOf(FirstOf(d.y, q))
      BY DEF Resolved, QuarterStart
    <2>2. q \in {1, 4, 7, 10}
      BY <1>1, Quarters
    <2> HIDE DEF q
    <2>3. PlusMonths(FirstOf(d.y, q), 2) = FirstOf(d.y, q + 2)
      BY <1>1, <2>2, MonthsOn
    <2>4. QuarterOf(FirstOf(d.y, q)) = Whole(d.y, q, q + 2)
      BY <2>3 DEF QuarterOf, Whole
    <2> QED
      BY <2>1, <2>4 DEF q
  <1>4. Resolved("this_year", d) = Whole(d.y, 1, 12)
    <2>1. Resolved("this_year", d) = Span(FirstOf(d.y, 1), DateOf(d.y, 12, 31))
      BY DEF Resolved, DateOf
    <2>2. EndOfMonth(FirstOf(d.y, 12)) = DateOf(d.y, 12, MonthLength(d.y, 12)) /\ MonthLength(d.y, 12) = 31
      BY <1>1, FirstIs, MonthLengths
    <2> QED
      BY <2>1, <2>2 DEF Whole
  <1> QED
    BY <1>2, <1>3, <1>4

\* ... and so are the ones before them.
LEMMA LastIsWhole ==
    ASSUME NEW d \in Date
    PROVE  /\ Resolved("last_month", d) = IF d.m = 1 THEN Whole(d.y - 1, 12, 12) ELSE Whole(d.y, d.m - 1, d.m - 1)
           /\ Resolved("last_quarter", d) = IF QuarterStart(d.m) = 1 THEN Whole(d.y - 1, 10, 12)
                                            ELSE Whole(d.y, QuarterStart(d.m) - 3, QuarterStart(d.m) - 1)
           /\ Resolved("last_year", d) = Whole(d.y - 1, 1, 12)
  <1>1. d.y \in Int /\ d.m \in 1 .. 12
    BY DateFields
  <1>2. Resolved("last_month", d) = IF d.m = 1 THEN Whole(d.y - 1, 12, 12) ELSE Whole(d.y, d.m - 1, d.m - 1)
    <2>1. Resolved("last_month", d) = Span(PlusMonths(FirstOf(d.y, d.m), -1), EndOfMonth(PlusMonths(FirstOf(d.y, d.m), -1)))
      BY DEF Resolved
    <2>2. PlusMonths(FirstOf(d.y, d.m), -1) = IF d.m = 1 THEN FirstOf(d.y - 1, 12) ELSE FirstOf(d.y, d.m - 1)
      BY <1>1, MonthsOn
    <2> QED
      BY <2>1, <2>2 DEF Whole
  <1>3. Resolved("last_quarter", d) = IF QuarterStart(d.m) = 1 THEN Whole(d.y - 1, 10, 12)
                                      ELSE Whole(d.y, QuarterStart(d.m) - 3, QuarterStart(d.m) - 1)
    <2> DEFINE q == QuarterStart(d.m)
               y == IF q = 1 THEN d.y - 1 ELSE d.y
               r == IF q = 1 THEN 10 ELSE q - 3
    <2>1. Resolved("last_quarter", d) = QuarterOf(PlusMonths(FirstOf(d.y, q), -3))
      BY DEF Resolved, QuarterStart
    <2>2. q \in {1, 4, 7, 10}
      BY <1>1, Quarters
    <2> HIDE DEF q
    <2>3. y \in Int /\ r \in 1 .. 10
      BY <1>1, <2>2
    <2>4. PlusMonths(FirstOf(d.y, q), -3) = FirstOf(y, r)
      BY <1>1, <2>2, MonthsOn
    <2> HIDE DEF y, r
    <2>5. PlusMonths(FirstOf(y, r), 2) = FirstOf(y, r + 2)
      BY <2>3, MonthsOn
    <2>6. QuarterOf(FirstOf(y, r)) = Whole(y, r, r + 2)
      BY <2>5 DEF QuarterOf, Whole
    <2>7. Resolved("last_quarter", d) = Whole(y, r, r + 2)
      BY <2>1, <2>4, <2>6
    <2>8. q # 1 => r + 2 = q - 1
      BY <2>2 DEF r
    <2> QED
      BY <2>7, <2>8 DEF q, y, r
  <1>4. Resolved("last_year", d) = Whole(d.y - 1, 1, 12)
    <2>1. Resolved("last_year", d) = Span(FirstOf(d.y - 1, 1), DateOf(d.y - 1, 12, 31))
      BY DEF Resolved, DateOf, FirstOf
    <2>2. EndOfMonth(FirstOf(d.y - 1, 12)) = DateOf(d.y - 1, 12, MonthLength(d.y - 1, 12)) /\ MonthLength(d.y - 1, 12) = 31
      BY <1>1, FirstIs, MonthLengths
    <2> QED
      BY <2>1, <2>2 DEF Whole
  <1> QED
    BY <1>2, <1>3, <1>4

-----------------------------------------------------------------------------
(* Periods that meet.                                                      *)

\* What PeriodsTile asks of a period and the one before it.
Tiles(last, this, kind) ==
    /\ DayAfter(last.to) = this.from
    /\ Iso(this.from) <= Iso(today) /\ Iso(today) <= Iso(this.to)
    /\ last = Resolved(kind, last.from)

LEMMA WholesTile ==
    ASSUME today \in Date,
           NEW a \in 1 .. 12, NEW b \in a .. 12, a <= today.m, today.m <= b,
           NEW y \in Int, NEW i \in 1 .. 12, NEW j \in i .. 12,
           (y = today.y - 1 /\ j = 12 /\ a = 1) \/ (y = today.y /\ j + 1 = a),
           NEW kind, Resolved(kind, FirstOf(y, i)) = Whole(y, i, j)
    PROVE  Tiles(Whole(y, i, j), Whole(today.y, a, b), kind)
  <1>1. today.y \in Int
    BY DateFields
  <1>2. Whole(y, i, j).from = FirstOf(y, i)
    BY WholeIs
  <1>3. DayAfter(Whole(y, i, j).to) = FirstOf(today.y, a)
    <2>1. DayAfter(Whole(y, i, j).to) = IF j = 12 THEN FirstOf(y + 1, 1) ELSE FirstOf(y, j + 1)
      BY WholeIs
    <2>2. CASE y = today.y - 1 /\ j = 12 /\ a = 1
      <3>1. y + 1 = today.y
        BY <1>1, <2>2
      <3> QED
        BY <2>1, <2>2, <3>1
    <2>3. CASE y = today.y /\ j + 1 = a
      <3>1. j # 12
        BY <2>3
      <3> QED
        BY <2>1, <2>3, <3>1
    <2> QED
      BY <2>2, <2>3
  <1>4. Whole(today.y, a, b).from = FirstOf(today.y, a)
    BY <1>1, WholeIs
  <1>5. Iso(Whole(today.y, a, b).from) <= Iso(today) /\ Iso(today) <= Iso(Whole(today.y, a, b).to)
    BY WholeHolds
  <1> QED
    BY <1>2, <1>3, <1>4, <1>5 DEF Tiles

LEMMA MonthsTile ==
    ASSUME today \in Date
    PROVE  Tiles(PeriodOf("last_month"), PeriodOf("this_month"), "this_month")
  <1> DEFINE y == IF today.m = 1 THEN today.y - 1 ELSE today.y
             i == IF today.m = 1 THEN 12 ELSE today.m - 1
  <1>1. today.y \in Int /\ today.m \in 1 .. 12
    BY DateFields
  <1>2. PeriodOf("last_month") = Whole(y, i, i) /\ PeriodOf("this_month") = Whole(today.y, today.m, today.m)
    BY ThisIsWhole, LastIsWhole DEF PeriodOf
  <1>3. y \in Int /\ i \in 1 .. 12 /\ i \in i .. 12
        /\ ((y = today.y - 1 /\ i = 12 /\ today.m = 1) \/ (y = today.y /\ i + 1 = today.m))
    BY <1>1
  <1> HIDE DEF y, i
  <1>4. FirstOf(y, i) \in Date /\ FirstOf(y, i).y = y /\ FirstOf(y, i).m = i
    BY <1>3, FirstIs DEF FirstOf
  <1>5. Resolved("this_month", FirstOf(y, i)) = Whole(y, i, i)
    BY <1>4, ThisIsWhole
  <1> PICK m : m = today.m
    OBVIOUS
  <1>6. m \in 1 .. 12 /\ m \in m .. 12 /\ m <= today.m /\ today.m <= m
    BY <1>1
  <1> QED
    BY <1>2, <1>3, <1>5, <1>6, WholesTile

LEMMA QuartersTile ==
    ASSUME today \in Date
    PROVE  Tiles(PeriodOf("last_quarter"), PeriodOf("this_quarter"), "this_quarter")
  <1> DEFINE q == QuarterStart(today.m)
             y == IF q = 1 THEN today.y - 1 ELSE today.y
             i == IF q = 1 THEN 10 ELSE q - 3
  <1>1. today.y \in Int /\ today.m \in 1 .. 12
    BY DateFields
  <1>2. q \in {1, 4, 7, 10} /\ q <= today.m /\ today.m <= q + 2
    BY <1>1, Quarters
  <1>3. PeriodOf("this_quarter") = Whole(today.y, q, q + 2)
    BY ThisIsWhole DEF PeriodOf
  <1>4. PeriodOf("last_quarter") = IF q = 1 THEN Whole(today.y - 1, 10, 12) ELSE Whole(today.y, q - 3, q - 1)
    BY LastIsWhole DEF PeriodOf
  <1> HIDE DEF q
  <1>5. y \in Int /\ i \in {1, 4, 7, 10}
        /\ ((y = today.y - 1 /\ i + 2 = 12 /\ q = 1) \/ (y = today.y /\ (i + 2) + 1 = q))
    BY <1>1, <1>2
  <1>6. PeriodOf("last_quarter") = Whole(y, i, i + 2)
    <2>1. q # 1 => i + 2 = q - 1
      BY <1>2
    <2> QED
      BY <1>4, <2>1
  <1> HIDE DEF y, i
  <1>7. i \in 1 .. 12 /\ i + 2 \in i .. 12 /\ q \in 1 .. 12 /\ q + 2 \in q .. 12
    BY <1>2, <1>5
  <1>8. FirstOf(y, i) \in Date /\ FirstOf(y, i).y = y /\ FirstOf(y, i).m = i
    BY <1>5, <1>7, FirstIs DEF FirstOf
  <1>9. QuarterStart(i) = i
    BY <1>5, <1>7, Quarters
  <1>10. Resolved("this_quarter", FirstOf(y, i)) = Whole(y, i, i + 2)
    BY <1>8, <1>9, ThisIsWhole
  <1> QED
    BY <1>2, <1>3, <1>5, <1>6, <1>7, <1>10, WholesTile

LEMMA YearsTile ==
    ASSUME today \in Date
    PROVE  Tiles(PeriodOf("last_year"), PeriodOf("this_year"), "this_year")
  <1>1. today.y \in Int /\ today.m \in 1 .. 12
    BY DateFields
  <1>2. PeriodOf("last_year") = Whole(today.y - 1, 1, 12) /\ PeriodOf("this_year") = Whole(today.y, 1, 12)
    BY ThisIsWhole, LastIsWhole DEF PeriodOf
  <1> PICK y \in Int : y = today.y - 1
    BY <1>1
  <1>3. FirstOf(y, 1) \in Date /\ FirstOf(y, 1).y = y
    <2>1. 1 \in 1 .. 12
      OBVIOUS
    <2>2. FirstOf(y, 1) \in Date
      BY <2>1, FirstIs
    <2> QED
      BY <2>2 DEF FirstOf
  <1>4. Resolved("this_year", FirstOf(y, 1)) = Whole(y, 1, 12)
    BY <1>3, ThisIsWhole
  <1>5. 1 \in 1 .. 12 /\ 12 \in 1 .. 12 /\ 1 <= today.m /\ today.m <= 12
    BY <1>1
  <1> QED
    BY <1>2, <1>4, <1>5, WholesTile

\* A period of two dates in order.
Proper(p) == p.from \in Date /\ p.to \in Date /\ Iso(p.from) <= Iso(p.to)

LEMMA WholeIsProper ==
    ASSUME NEW y \in Int, NEW a \in 1 .. 12, NEW b \in a .. 12
    PROVE  Proper(Whole(y, a, b))
  BY WholeIs DEF Proper

LEMMA PeriodsAreProper ==
    ASSUME today \in Date, NEW p \in Phrases \ {"all_time"}
    PROVE  Proper(PeriodOf(p))
  <1>1. today.y \in Int /\ today.y - 1 \in Int /\ today.m \in 1 .. 12
    BY DateFields
  <1>2. CASE p = "this_month" \/ p = "this_quarter" \/ p = "this_year"
    <2>1. QuarterStart(today.m) \in 1 .. 12 /\ QuarterStart(today.m) + 2 \in QuarterStart(today.m) .. 12
      BY <1>1, Quarters
    <2>2. today.m \in today.m .. 12 /\ 1 \in 1 .. 12 /\ 12 \in 1 .. 12
      BY <1>1
    <2>3. /\ Proper(Whole(today.y, today.m, today.m)) /\ Proper(Whole(today.y, 1, 12))
          /\ Proper(Whole(today.y, QuarterStart(today.m), QuarterStart(today.m) + 2))
      BY <1>1, <2>1, <2>2, WholeIsProper
    <2> QED
      BY <1>2, <2>3, ThisIsWhole DEF PeriodOf
  <1>3. CASE p = "last_month"
    <2>1. Proper(Whole(today.y - 1, 12, 12))
      BY <1>1, WholeIsProper
    <2>2. today.m # 1 => Proper(Whole(today.y, today.m - 1, today.m - 1))
      BY <1>1, WholeIsProper
    <2> QED
      BY <1>3, <2>1, <2>2, LastIsWhole DEF PeriodOf
  <1>4. CASE p = "last_quarter"
    <2>1. Proper(Whole(today.y - 1, 10, 12))
      BY <1>1, WholeIsProper
    <2>2. QuarterStart(today.m) # 1 => Proper(Whole(today.y, QuarterStart(today.m) - 3, QuarterStart(today.m) - 1))
      <3>1. QuarterStart(today.m) \in {1, 4, 7, 10}
        BY <1>1, Quarters
      <3> QED
        BY <1>1, <3>1, WholeIsProper
    <2> QED
      BY <1>4, <2>1, <2>2, LastIsWhole DEF PeriodOf
  <1>5. CASE p = "last_year"
    <2>1. Proper(Whole(today.y - 1, 1, 12))
      BY <1>1, WholeIsProper
    <2> QED
      BY <1>5, <2>1, LastIsWhole DEF PeriodOf
  <1>6. CASE p = "ytd"
    <2>1. PeriodOf("ytd") = Span(FirstOf(today.y, 1), today)
      BY DEF PeriodOf, Resolved
    <2>2. 1 \in 1 .. 12 /\ 12 \in 1 .. 12 /\ 1 <= today.m /\ today.m <= 12
      BY <1>1
    <2>3. Iso(FirstOf(today.y, 1)) <= Iso(today) /\ FirstOf(today.y, 1) \in Date
      <3>1. Whole(today.y, 1, 12).from = FirstOf(today.y, 1) /\ FirstOf(today.y, 1) \in Date
        BY <1>1, <2>2, WholeIs, FirstIs
      <3> QED
        BY <2>2, <3>1, WholeHolds
    <2> QED
      BY <1>6, <2>1, <2>3 DEF Proper, Span
  <1>7. ASSUME NEW n \in Nat \ {0}
        PROVE  Proper(Span(MinusDays(today, n), today))
    <2>1. Iso(MinusDays(today, n)) < Iso(MinusDays(today, 0)) /\ Iso(MinusDays(today, n)) \in Int
          /\ Iso(MinusDays(today, 0)) \in Int
      BY MinusDaysFalls
    <2>2. MinusDays(today, 0) = today /\ MinusDays(today, n) \in Date
      BY MinusDaysIs, MinusDaysDate
    <2> QED
      BY <2>1, <2>2 DEF Proper, Span
  <1>8. CASE p = "last_7_days" \/ p = "last_30_days"
    <2>1. PeriodOf("last_7_days") = Span(MinusDays(today, 6), today) /\ PeriodOf("last_30_days") = Span(MinusDays(today, 29), today)
      BY DEF PeriodOf, Resolved
    <2> QED
      BY <1>7, <1>8, <2>1
  <1> QED
    BY <1>2, <1>3, <1>4, <1>5, <1>6, <1>8 DEF Phrases

LEMMA AllTile ==
    ASSUME today \in Date
    PROVE  PeriodsTile
  <1>1. ASSUME NEW p \in Phrases \ {"all_time"}
        PROVE  IsDate(PeriodOf(p).from) /\ IsDate(PeriodOf(p).to) /\ Iso(PeriodOf(p).from) <= Iso(PeriodOf(p).to)
    <2>1. Proper(PeriodOf(p))
      BY PeriodsAreProper
    <2> QED
      BY <2>1 DEF Proper, Date
  <1>2. ASSUME NEW pair \in Adjacent
        PROVE  Tiles(PeriodOf(pair[1]), PeriodOf(pair[2]), pair[2])
    BY MonthsTile, QuartersTile, YearsTile DEF Adjacent
  <1>3. /\ PeriodOf("last_7_days").from = MinusDays(today, 6)
        /\ PeriodOf("last_30_days").from = MinusDays(today, 29)
    BY DEF PeriodOf, Resolved, Span
  <1>4. /\ Cardinality(DaysSince(PeriodOf("last_7_days").from, 40)) = 7
        /\ Cardinality(DaysSince(PeriodOf("last_30_days").from, 40)) = 30
    <2>1. Cardinality(DaysSince(MinusDays(today, 6), 40)) = 6 + 1 /\ Cardinality(DaysSince(MinusDays(today, 29), 40)) = 29 + 1
      BY DaysSinceIs
    <2> QED
      BY <1>3, <2>1
  <1> QED
    BY <1>1, <1>2, <1>4 DEF PeriodsTile, Tiles

\* On every day of the calendar, this month, quarter and year hold it, the last ones end on the day
\* before, and seven and thirty days are so many (daterange.py:33-69).
THEOREM PeriodsMeet == Spec => []PeriodsTile
  <1>1. Init => today \in Days
    BY DEF Init
  <1>2. today \in Days /\ [Next]_vars => (today \in Days)'
    BY DEF Next, NextDay, Store, Log, vars
  <1>3. today \in Days => PeriodsTile
    BY BooksAssumption, AllTile DEF BooksAssumption
  <1> QED
    BY <1>1, <1>2, <1>3, PTL DEF Spec

-----------------------------------------------------------------------------
(* What a summary consists of.                                             *)

BaseOf(R) == [i \in DOMAIN R |-> Amount(R[i].base)]

CreditOf(R) == [i \in DOMAIN R |-> Magnitude(BaseOf(R)[i])]

BucketOf(R, bucket) == {i \in DOMAIN R : Bucket(R[i]) = bucket}

LEMMA HeadlineIs ==
    ASSUME NEW R
    PROVE  /\ Summary(R).spend = SumOf(BaseOf(R), BucketOf(R, "spend")) - Summary(R).credits
           /\ Summary(R).credits = SumOf(CreditOf(R), BucketOf(R, "credit"))
           /\ Summary(R).counted = Cardinality(BucketOf(R, "spend"))
           /\ Summary(R).pending = SumOf(BaseOf(R), BucketOf(R, "pending"))
  BY DEF Summary, BaseOf, CreditOf, BucketOf

LEMMA BreakdownsAre ==
    ASSUME NEW R
    PROVE  /\ Summary(R).byCategory = [k \in {Category(R[i]) : i \in BucketOf(R, "spend")} |->
                                 SumOf(BaseOf(R), {i \in BucketOf(R, "spend") : Category(R[i]) = k})]
           /\ Summary(R).byVendor = [k \in {Vendor(R[i]) : i \in BucketOf(R, "spend")} |->
                                 SumOf(BaseOf(R), {i \in BucketOf(R, "spend") : Vendor(R[i]) = k})]
  BY DEF Summary, BaseOf, CreditOf, BucketOf

\* A breakdown of figures by some key adds up to their sum.
LEMMA Breakdown ==
    ASSUME NEW I, IsFiniteSet(I), NEW v, Figures(v, I), NEW key, DOMAIN key = I,
           NEW by, DOMAIN by = {key[i] : i \in I},
           \A k \in DOMAIN by : by[k] = SumOf(v, {i \in I : key[i] = k})
    PROVE  Total(by) = SumOf(v, I)
  <1> DEFINE K == {key[i] : i \in I}
  <1>1. IsFiniteSet(K)
    <2> DEFINE f == [i \in I |-> key[i]]
    <2>1. f \in Surjection(I, K)
      BY DEF Surjection
    <2> QED
      BY <2>1, FS_Surjection
  <1>2. \A k \in K : by[k] = SumOf(v, Having(key, I, {k}))
    <2> TAKE k \in K
    <2>1. Having(key, I, {k}) = {i \in I : key[i] = k}
      BY DEF Having
    <2> QED
      BY <2>1
  <1>3. \A i \in I : key[i] \in K
    OBVIOUS
  <1> HIDE DEF K
  <1>4. SumOf(by, K) = SumOf(v, I)
    BY <1>1, <1>2, <1>3, SumByKey
  <1> QED
    BY <1>4 DEF Total, K

LEMMA BreakdownsAdd ==
    ASSUME NEW R, IsFiniteSet(DOMAIN R), Figures(BaseOf(R), DOMAIN R)
    PROVE  /\ Total(Summary(R).byCategory) = SumOf(BaseOf(R), BucketOf(R, "spend"))
           /\ Total(Summary(R).byVendor) = SumOf(BaseOf(R), BucketOf(R, "spend"))
  <1> DEFINE I == BucketOf(R, "spend")
             v == BaseOf(R)
  <1>1. IsFiniteSet(I) /\ Figures(v, I)
    BY FS_Subset DEF BucketOf, Figures
  <1>2. Total(Summary(R).byCategory) = SumOf(v, I)
    <2> DEFINE by == [k \in {Category(R[i]) : i \in I} |-> SumOf(v, {i \in I : Category(R[i]) = k})]
               key == [i \in I |-> Category(R[i])]
    <2>1. Summary(R).byCategory = by
      BY BreakdownsAre
    <2> HIDE DEF I, v
    <2>2. DOMAIN by = {key[i] : i \in I} /\ DOMAIN key = I
      OBVIOUS
    <2>3. \A k \in DOMAIN by : by[k] = SumOf(v, {i \in I : key[i] = k})
      <3> TAKE k \in DOMAIN by
      <3>1. {i \in I : Category(R[i]) = k} = {i \in I : key[i] = k}
        OBVIOUS
      <3> QED
        BY <3>1
    <2> HIDE DEF by, key
    <2> QED
      BY <1>1, <2>1, <2>2, <2>3, Breakdown
  <1>3. Total(Summary(R).byVendor) = SumOf(v, I)
    <2> DEFINE by == [k \in {Vendor(R[i]) : i \in I} |-> SumOf(v, {i \in I : Vendor(R[i]) = k})]
               key == [i \in I |-> Vendor(R[i])]
    <2>1. Summary(R).byVendor = by
      BY BreakdownsAre
    <2> HIDE DEF I, v
    <2>2. DOMAIN by = {key[i] : i \in I} /\ DOMAIN key = I
      OBVIOUS
    <2>3. \A k \in DOMAIN by : by[k] = SumOf(v, {i \in I : key[i] = k})
      <3> TAKE k \in DOMAIN by
      <3>1. {i \in I : Vendor(R[i]) = k} = {i \in I : key[i] = k}
        OBVIOUS
      <3> QED
        BY <3>1
    <2> HIDE DEF by, key
    <2> QED
      BY <1>1, <2>1, <2>2, <2>3, Breakdown
  <1> QED
    BY <1>2, <1>3

\* The rows of a period that go into one kind of figure.
In(p, bucket) == {i \in DOMAIN rows : InPeriod(rows[i], p) /\ Bucket(rows[i]) = bucket}

LEMMA PeriodSummary ==
    ASSUME IsFiniteSet(DOMAIN rows), Figures(BaseOf(rows), DOMAIN rows), NEW p
    PROVE  /\ Of(p).spend = SumOf(BaseOf(rows), In(p, "spend")) - Of(p).credits
           /\ Of(p).credits = SumOf(CreditOf(rows), In(p, "credit"))
           /\ Of(p).counted = Cardinality(In(p, "spend"))
           /\ Of(p).pending = SumOf(BaseOf(rows), In(p, "pending"))
           /\ Total(Of(p).byCategory) = SumOf(BaseOf(rows), In(p, "spend"))
           /\ Total(Of(p).byVendor) = SumOf(BaseOf(rows), In(p, "spend"))
  <1> DEFINE R == SummaryRows(rows, p)
  <1>1. DOMAIN R = {i \in DOMAIN rows : InPeriod(rows[i], p)} /\ \A i \in DOMAIN R : R[i] = rows[i]
    BY DEF SummaryRows, Restrict
  <1>2. Of(p) = Summary(R)
    BY DEF Of
  <1> HIDE DEF R
  <1>3. \A bucket : BucketOf(R, bucket) = In(p, bucket)
    BY <1>1 DEF BucketOf, In
  <1>4. /\ \A i \in DOMAIN R : i \in DOMAIN rows /\ BaseOf(R)[i] = BaseOf(rows)[i]
        /\ \A i \in DOMAIN R : CreditOf(R)[i] = CreditOf(rows)[i]
    <2>1. \A i \in DOMAIN R : i \in DOMAIN rows /\ BaseOf(R)[i] = BaseOf(rows)[i]
      BY <1>1 DEF BaseOf
    <2> QED
      BY <2>1 DEF CreditOf
  <1>5. IsFiniteSet(DOMAIN R) /\ Figures(BaseOf(R), DOMAIN R)
    <2>1. IsFiniteSet(DOMAIN R)
      BY <1>1, FS_Subset
    <2> QED
      BY <1>4, <2>1 DEF Figures
  <1>6. ASSUME NEW bucket
        PROVE  /\ SumOf(BaseOf(R), In(p, bucket)) = SumOf(BaseOf(rows), In(p, bucket))
               /\ SumOf(CreditOf(R), In(p, bucket)) = SumOf(CreditOf(rows), In(p, bucket))
    <2>1. In(p, bucket) \subseteq DOMAIN R
      BY <1>1 DEF In
    <2>2. IsFiniteSet(In(p, bucket))
      BY <1>5, <2>1, FS_Subset
    <2> QED
      BY <1>4, <2>1, <2>2, SumAgrees
  <1>7. /\ Of(p).spend = SumOf(BaseOf(R), In(p, "spend")) - Of(p).credits
        /\ Of(p).credits = SumOf(CreditOf(R), In(p, "credit"))
        /\ Of(p).counted = Cardinality(In(p, "spend"))
        /\ Of(p).pending = SumOf(BaseOf(R), In(p, "pending"))
    BY <1>2, <1>3, HeadlineIs
  <1>8. /\ Total(Of(p).byCategory) = SumOf(BaseOf(R), In(p, "spend"))
        /\ Total(Of(p).byVendor) = SumOf(BaseOf(R), In(p, "spend"))
    BY <1>2, <1>3, <1>5, BreakdownsAdd
  <1> QED
    BY <1>6, <1>7, <1>8

-----------------------------------------------------------------------------
(* Periods that meet leave no day between them.                            *)

Earlier(c, d) == c.y < d.y \/ (c.y = d.y /\ c.m < d.m) \/ (c.y = d.y /\ c.m = d.m /\ c.d < d.d)

LEMMA DatesAreOrdered ==
    ASSUME NEW c \in Date, NEW d \in Date
    PROVE  /\ Iso(c) \in Int /\ Iso(d) \in Int
           /\ Iso(c) < Iso(d) <=> Earlier(c, d)
           /\ c = d \/ Earlier(c, d) \/ Earlier(d, c)
  <1>1. /\ c.y \in Int /\ c.m \in Int /\ c.d \in Int /\ c = DateOf(c.y, c.m, c.d)
        /\ d.y \in Int /\ d.m \in Int /\ d.d \in Int /\ d = DateOf(d.y, d.m, d.d)
    BY DateFields
  <1>2. c = d \/ Earlier(c, d) \/ Earlier(d, c)
    BY <1>1 DEF Earlier
  <1>3. Earlier(c, d) => Iso(c) < Iso(d)
    BY Later DEF Earlier
  <1>4. Earlier(d, c) => Iso(d) < Iso(c)
    BY Later DEF Earlier
  <1>5. Iso(c) \in Int /\ Iso(d) \in Int
    BY NotLater, <1>1
  <1> QED
    BY <1>2, <1>3, <1>4, <1>5

LEMMA NoDayBetween ==
    ASSUME NEW c \in Date, NEW d \in Date
    PROVE  /\ DayAfter(c) \in Date /\ Iso(DayAfter(c)) \in Int
           /\ Iso(c) < Iso(DayAfter(c))
           /\ Iso(d) <= Iso(c) <=> ~(Iso(d) >= Iso(DayAfter(c)))
  <1>1. /\ c.y \in Int /\ c.m \in 1 .. 12 /\ c.d \in 1 .. 31 /\ c.d <= MonthLength(c.y, c.m)
        /\ d.y \in Int /\ d.m \in 1 .. 12 /\ d.d \in 1 .. 31 /\ d.d <= MonthLength(d.y, d.m)
        /\ c = DateOf(c.y, c.m, c.d)
    BY DateFields
  <1>2. MonthLength(c.y, c.m) \in 28 .. 31
    BY MonthLengths
  <1> DEFINE e == DayAfter(c)
  <1>3. e \in Date /\ Earlier(c, e) /\ ~(Earlier(c, d) /\ Earlier(d, e))
    <2>1. CASE c.d < MonthLength(c.y, c.m)
      <3>1. e = DateOf(c.y, c.m, c.d + 1)
        BY <1>1, <2>1 DEF DayAfter, DateOf
      <3>2. c.d + 1 \in 1 .. MonthLength(c.y, c.m)
        BY <1>1, <1>2, <2>1
      <3>3. e \in Date /\ e.y = c.y /\ e.m = c.m /\ e.d = c.d + 1
        BY <1>1, <3>1, <3>2, DateIs
      <3> HIDE DEF e
      <3> QED
        BY <1>1, <3>3 DEF Earlier
    <2>2. CASE ~(c.d < MonthLength(c.y, c.m))
      <3> DEFINE y == IF c.m = 12 THEN c.y + 1 ELSE c.y
                 m == IF c.m = 12 THEN 1 ELSE c.m + 1
      <3>1. e = FirstOf(y, m)
        BY <1>1, <2>2, MonthsOn DEF DayAfter
      <3>2. y \in Int /\ m \in 1 .. 12
        BY <1>1
      <3>3. e \in Date /\ e.y = y /\ e.m = m /\ e.d = 1
        <4> HIDE DEF e, y, m
        <4> QED
          BY <3>1, <3>2, FirstIs DEF FirstOf
      <3>4. c.d = MonthLength(c.y, c.m)
        BY <1>1, <1>2, <2>2
      <3> HIDE DEF e
      <3> QED
        BY <1>1, <3>3, <3>4 DEF Earlier
    <2> QED
      BY <2>1, <2>2
  <1> HIDE DEF e
  <1>4. Iso(c) < Iso(e) /\ Iso(e) \in Int /\ Iso(c) \in Int /\ Iso(d) \in Int
    BY <1>3, DatesAreOrdered
  <1>5. ~(Iso(c) < Iso(d) /\ Iso(d) < Iso(e))
    BY <1>3, DatesAreOrdered
  <1> QED
    BY <1>3, <1>4, <1>5 DEF e

\* What is dated in one of two periods that meet is in the one or the other.
LEMMA PeriodsDivide ==
    ASSUME NEW last, Proper(last), NEW this, Proper(this), DayAfter(last.to) = this.from,
           None \notin Date, NEW row, row.date \in Date \cup {None}
    PROVE  /\ InPeriod(row, Span(last.from, this.to)) <=> InPeriod(row, last) \/ InPeriod(row, this)
           /\ ~(InPeriod(row, last) /\ InPeriod(row, this))
           /\ InPeriod(row, Span(None, None))
           /\ row.date # None <=> InPeriod(row, Span(None, last.to)) \/ InPeriod(row, Span(this.from, None))
           /\ ~(InPeriod(row, Span(None, last.to)) /\ InPeriod(row, Span(this.from, None)))
  <1>1. /\ last.from \in Date /\ last.to \in Date /\ this.from \in Date /\ this.to \in Date
        /\ Iso(last.from) <= Iso(last.to) /\ Iso(this.from) <= Iso(this.to)
    BY DEF Proper
  <1>2. \A f, t : Span(f, t).from = f /\ Span(f, t).to = t
    BY DEF Span
  <1>3. InPeriod(row, Span(None, None))
    BY <1>2 DEF InPeriod
  <1>4. CASE row.date = None
    <2>1. ~InPeriod(row, last) /\ ~InPeriod(row, this)
      BY <1>1, <1>4 DEF InPeriod
    <2>2. ~InPeriod(row, Span(last.from, this.to)) /\ ~InPeriod(row, Span(None, last.to)) /\ ~InPeriod(row, Span(this.from, None))
      BY <1>1, <1>2, <1>4 DEF InPeriod
    <2> QED
      BY <1>3, <1>4, <2>1, <2>2
  <1>5. CASE row.date \in Date
    <2> DEFINE i == Iso(row.date)
               a == Iso(last.from)
               b == Iso(last.to)
               c == Iso(this.from)
               e == Iso(this.to)
    <2>1. /\ i \in Int /\ a \in Int /\ b \in Int /\ c \in Int /\ e \in Int
      BY <1>1, <1>5, DatesAreOrdered
    <2>2. b < c /\ (i <= b <=> ~(i >= c))
      BY <1>1, <1>5, NoDayBetween
    <2>3. /\ InPeriod(row, last) <=> i >= a /\ i <= b
          /\ InPeriod(row, this) <=> i >= c /\ i <= e
      BY <1>1, <1>5 DEF InPeriod
    <2>4. /\ InPeriod(row, Span(last.from, this.to)) <=> i >= a /\ i <= e
          /\ InPeriod(row, Span(None, last.to)) <=> i <= b
          /\ InPeriod(row, Span(this.from, None)) <=> i >= c
      BY <1>1, <1>2, <1>5 DEF InPeriod
    <2>5. a <= b /\ c <= e /\ row.date # None
      BY <1>1, <1>5
    <2> HIDE DEF i, a, b, c, e
    <2> QED
      BY <1>3, <2>1, <2>2, <2>3, <2>4, <2>5
  <1> QED
    BY <1>4, <1>5

-----------------------------------------------------------------------------
(* Summaries add up.                                                       *)

LedgerOK ==
    /\ IsFiniteSet(DOMAIN rows) /\ \A i \in DOMAIN rows : Booked(rows[i])
    /\ None \notin Int /\ None \notin Date

LEMMA LedgerFigures ==
    ASSUME LedgerOK
    PROVE  /\ Figures(BaseOf(rows), DOMAIN rows) /\ Figures(CreditOf(rows), DOMAIN rows)
           /\ \A p, bucket : /\ IsFiniteSet(In(p, bucket)) /\ Cardinality(In(p, bucket)) \in Nat
                             /\ Figures(BaseOf(rows), In(p, bucket)) /\ Figures(CreditOf(rows), In(p, bucket))
                             /\ SumOf(BaseOf(rows), In(p, bucket)) \in Int
                             /\ SumOf(CreditOf(rows), In(p, bucket)) \in Int
  <1>1. \A i \in DOMAIN rows : BaseOf(rows)[i] \in Int
    BY DEF LedgerOK, Booked, BaseOf, Amount
  <1>2. \A i \in DOMAIN rows : CreditOf(rows)[i] \in Int
    BY <1>1 DEF CreditOf, Magnitude
  <1>3. ASSUME NEW p, NEW bucket
        PROVE  /\ IsFiniteSet(In(p, bucket)) /\ Cardinality(In(p, bucket)) \in Nat
               /\ Figures(BaseOf(rows), In(p, bucket)) /\ Figures(CreditOf(rows), In(p, bucket))
    <2>1. In(p, bucket) \in SUBSET DOMAIN rows
      BY DEF In
    <2>2. IsFiniteSet(In(p, bucket))
      BY <2>1, FS_Subset DEF LedgerOK
    <2> QED
      BY <1>1, <1>2, <2>1, <2>2, FS_CardinalityType DEF Figures
  <1>4. ASSUME NEW p, NEW bucket
        PROVE  SumOf(BaseOf(rows), In(p, bucket)) \in Int /\ SumOf(CreditOf(rows), In(p, bucket)) \in Int
    BY <1>3, SumType
  <1> QED
    BY <1>1, <1>2, <1>3, <1>4 DEF Figures

LEMMA OverviewAdds ==
    ASSUME LedgerOK, NEW p
    PROVE  Of(p).spend = Total(Of(p).byCategory) - Of(p).credits /\ Total(Of(p).byVendor) = Total(Of(p).byCategory)
  <1>1. IsFiniteSet(DOMAIN rows) /\ Figures(BaseOf(rows), DOMAIN rows)
    BY LedgerFigures DEF LedgerOK
  <1> QED
    BY <1>1, PeriodSummary

\* What SummaryAdds asks of two periods that meet.
PeriodsAdd(last, this) ==
    LET both == Of(Span(last.from, this.to))
        before == Of(Span(None, last.to))
        since == Of(Span(this.from, None))
    IN  /\ both.spend = Of(last).spend + Of(this).spend
        /\ both.credits = Of(last).credits + Of(this).credits
        /\ both.counted = Of(last).counted + Of(this).counted
        /\ both.pending = Of(last).pending + Of(this).pending
        /\ Of(Span(None, None)).counted - (before.counted + since.counted)
             = Cardinality({i \in DOMAIN rows : rows[i].date = None /\ Bucket(rows[i]) = "spend"})

LEMMA MeetingPeriodsAdd ==
    ASSUME LedgerOK, NEW last, Proper(last), NEW this, Proper(this), DayAfter(last.to) = this.from
    PROVE  PeriodsAdd(last, this)
  <1> DEFINE both == Span(last.from, this.to)
             before == Span(None, last.to)
             since == Span(this.from, None)
             all == Span(None, None)
             v == BaseOf(rows)
             w == CreditOf(rows)
  <1>1. IsFiniteSet(DOMAIN rows) /\ Figures(v, DOMAIN rows)
    BY LedgerFigures DEF LedgerOK
  <1>2. ASSUME NEW i \in DOMAIN rows
        PROVE  /\ InPeriod(rows[i], both) <=> InPeriod(rows[i], last) \/ InPeriod(rows[i], this)
               /\ ~(InPeriod(rows[i], last) /\ InPeriod(rows[i], this))
               /\ InPeriod(rows[i], all)
               /\ rows[i].date # None <=> InPeriod(rows[i], before) \/ InPeriod(rows[i], since)
               /\ ~(InPeriod(rows[i], before) /\ InPeriod(rows[i], since))
    <2>1. rows[i].date \in Date \cup {None} /\ None \notin Date
      BY DEF LedgerOK, Booked
    <2> QED
      BY <2>1, PeriodsDivide
  <1> HIDE DEF both, before, since, all
  <1>3. \A bucket : In(both, bucket) = In(last, bucket) \cup In(this, bucket) /\ In(last, bucket) \cap In(this, bucket) = {}
    BY <1>2 DEF In
  <1>4. ASSUME NEW bucket
        PROVE  /\ SumOf(v, In(both, bucket)) = SumOf(v, In(last, bucket)) + SumOf(v, In(this, bucket))
               /\ SumOf(w, In(both, bucket)) = SumOf(w, In(last, bucket)) + SumOf(w, In(this, bucket))
               /\ Cardinality(In(both, bucket)) = Cardinality(In(last, bucket)) + Cardinality(In(this, bucket))
    <2> DEFINE A == In(last, bucket)
               B == In(this, bucket)
    <2>1. /\ IsFiniteSet(A) /\ IsFiniteSet(B) /\ Cardinality(A) \in Nat /\ Cardinality(B) \in Nat
          /\ Figures(v, A) /\ Figures(v, B) /\ Figures(w, A) /\ Figures(w, B)
      BY LedgerFigures
    <2>2. In(both, bucket) = A \cup B /\ A \cap B = {}
      BY <1>3
    <2> HIDE DEF A, B, v, w
    <2>3. Figures(v, A \cup B) /\ Figures(w, A \cup B)
      BY <2>1 DEF Figures
    <2>4. SumOf(v, A \cup B) = SumOf(v, A) + SumOf(v, B) /\ SumOf(w, A \cup B) = SumOf(w, A) + SumOf(w, B)
      BY <2>1, <2>2, <2>3, SumUnion
    <2>5. Cardinality(A \cup B) = Cardinality(A) + Cardinality(B)
      BY <2>1, <2>2, FS_Union, FS_EmptySet
    <2> QED
      BY <2>2, <2>4, <2>5 DEF A, B
  <1>5. ASSUME NEW p
        PROVE  /\ Of(p).spend = SumOf(v, In(p, "spend")) - SumOf(w, In(p, "credit"))
               /\ Of(p).credits = SumOf(w, In(p, "credit"))
               /\ Of(p).counted = Cardinality(In(p, "spend"))
               /\ Of(p).pending = SumOf(v, In(p, "pending"))
    BY <1>1, PeriodSummary
  <1>6. /\ Of(both).spend = Of(last).spend + Of(this).spend
        /\ Of(both).credits = Of(last).credits + Of(this).credits
        /\ Of(both).counted = Of(last).counted + Of(this).counted
        /\ Of(both).pending = Of(last).pending + Of(this).pending
    <2>1. \A p, bucket : SumOf(v, In(p, bucket)) \in Int /\ SumOf(w, In(p, bucket)) \in Int
      BY LedgerFigures
    <2> HIDE DEF v, w
    <2> QED
      BY <1>4, <1>5, <2>1
  <1>7. Of(all).counted - (Of(before).counted + Of(since).counted)
          = Cardinality({i \in DOMAIN rows : rows[i].date = None /\ Bucket(rows[i]) = "spend"})
    <2> DEFINE A == In(before, "spend")
               B == In(since, "spend")
               C == {i \in DOMAIN rows : rows[i].date = None /\ Bucket(rows[i]) = "spend"}
    <2>1. In(all, "spend") = (A \cup B) \cup C /\ A \cap B = {} /\ (A \cup B) \cap C = {}
      BY <1>2 DEF In
    <2>2. IsFiniteSet(A) /\ IsFiniteSet(B) /\ Cardinality(A) \in Nat /\ Cardinality(B) \in Nat
      BY LedgerFigures
    <2>3. IsFiniteSet(C) /\ Cardinality(C) \in Nat
      BY <1>1, FS_Subset, FS_CardinalityType
    <2>4. Of(all).counted = Cardinality(In(all, "spend")) /\ Of(before).counted = Cardinality(A) /\ Of(since).counted = Cardinality(B)
      BY <1>5
    <2> HIDE DEF A, B, C
    <2>5. IsFiniteSet(A \cup B) /\ Cardinality(A \cup B) = Cardinality(A) + Cardinality(B)
      BY <2>1, <2>2, FS_Union, FS_EmptySet
    <2>6. Cardinality((A \cup B) \cup C) = Cardinality(A \cup B) + Cardinality(C)
      <3> DEFINE D == A \cup B
      <3>1. IsFiniteSet(D) /\ D \cap C = {} /\ Cardinality(D) \in Nat
        BY <2>1, <2>5, FS_CardinalityType
      <3> HIDE DEF D
      <3>2. Cardinality(D \cup C) = Cardinality(D) + Cardinality(C) - Cardinality(D \cap C)
        BY <2>3, <3>1, FS_Union
      <3>3. Cardinality(D \cap C) = 0
        BY <3>1, FS_EmptySet
      <3>4. Cardinality(D \cup C) = Cardinality(D) + Cardinality(C)
        BY ONLY <2>3, <3>1, <3>2, <3>3
      <3> QED
        BY <3>4 DEF D
    <2>7. Cardinality(In(all, "spend")) = Cardinality(A) + Cardinality(B) + Cardinality(C)
      BY <2>1, <2>5, <2>6
    <2> QED
      BY <2>2, <2>3, <2>4, <2>7 DEF C
  <1> QED
    BY <1>6, <1>7 DEF PeriodsAdd, both, before, since, all

LEMMA AllAdd ==
    ASSUME LedgerOK, today \in Date
    PROVE  SummaryAdds
  <1>1. \A s \in {Of(PeriodOf(p)) : p \in Phrases} :
            s.spend = Total(s.byCategory) - s.credits /\ Total(s.byVendor) = Total(s.byCategory)
    BY OverviewAdds
  <1>2. ASSUME NEW pair \in Adjacent
        PROVE  PeriodsAdd(PeriodOf(pair[1]), PeriodOf(pair[2]))
    <2>1. pair[1] \in Phrases \ {"all_time"} /\ pair[2] \in Phrases \ {"all_time"}
      BY DEF Adjacent, Phrases
    <2>2. Proper(PeriodOf(pair[1])) /\ Proper(PeriodOf(pair[2]))
      BY <2>1, PeriodsAreProper
    <2>3. Tiles(PeriodOf(pair[1]), PeriodOf(pair[2]), pair[2])
      BY MonthsTile, QuartersTile, YearsTile DEF Adjacent
    <2> QED
      BY <2>2, <2>3, MeetingPeriodsAdd DEF Tiles
  <1> QED
    BY <1>1, <1>2 DEF SummaryAdds, PeriodsAdd

LedgerInv == rows \in Seq(UNION {Offered[day] : day \in Days}) /\ today \in Days

\* The ledger of every behaviour is one the lemmas above are about.
LEMMA LedgerHolds ==
    /\ Spec => []LedgerInv
    /\ LedgerInv => LedgerOK /\ today \in Date
  <1> DEFINE R == UNION {Offered[day] : day \in Days}
  <1>1. Init => LedgerInv
    BY DEF Init, LedgerInv
  <1>2. LedgerInv /\ [Next]_vars => LedgerInv'
    <2> SUFFICES ASSUME LedgerInv, [Next]_vars PROVE LedgerInv'
      OBVIOUS
    <2>1. CASE NextDay
      BY <2>1 DEF NextDay, LedgerInv
    <2>2. CASE Store
      <3> PICK row \in Offered[today] : rows' = Append(rows, row)
        BY <2>2 DEF Store
      <3>1. row \in R /\ rows \in Seq(R)
        BY DEF LedgerInv
      <3> HIDE DEF R
      <3>2. rows' \in Seq(R)
        BY <3>1
      <3> QED
        BY <2>2, <3>2 DEF Store, LedgerInv, R
    <2>3. CASE Log
      BY <2>3 DEF Log, LedgerInv
    <2>4. CASE UNCHANGED vars
      BY <2>4 DEF vars, LedgerInv
    <2> QED
      BY <2>1, <2>2, <2>3, <2>4 DEF Next
  <1>3. ASSUME LedgerInv PROVE LedgerOK /\ today \in Date
    <2>1. rows \in Seq(R)
      BY <1>3 DEF LedgerInv
    <2>2. \A row \in R : Booked(row)
      BY BooksAssumption DEF BooksAssumption
    <2> HIDE DEF R
    <2>3. Len(rows) \in Nat /\ DOMAIN rows = 1 .. Len(rows) /\ \A i \in DOMAIN rows : rows[i] \in R
      BY <2>1
    <2>4. IsFiniteSet(DOMAIN rows)
      BY <2>3, FS_Interval
    <2> QED
      BY <1>3, <2>2, <2>3, <2>4, BooksAssumption DEF LedgerOK, LedgerInv, BooksAssumption
  <1> QED
    BY <1>1, <1>2, <1>3, PTL DEF Spec

\* summary.py:33-63, store.py:551-573: on every day and for every ledger the breakdowns add up to
\* the headline, and adjacent periods to the period they make up.
THEOREM SummariesAdd == Spec => []SummaryAdds
  <1>1. LedgerInv => SummaryAdds
    BY LedgerHolds, AllAdd
  <1> QED
    BY <1>1, LedgerHolds, PTL

-----------------------------------------------------------------------------
(* The audit trail.                                                        *)

Has(L, type) == \E i \in DOMAIN L : L[i].type = type

\* Where the first event of a type is.
LEMMA FirstEventIs ==
    ASSUME NEW L \in Seq(Events), NEW type
    PROVE  /\ ~Has(L, type) => FirstEvent(L, type) = None
           /\ Has(L, type) =>
                \E k \in DOMAIN L : /\ FirstEvent(L, type) = L[k] /\ L[k].type = type
                                    /\ \A i \in DOMAIN L : L[i].type = type => k <= i
  <1> DEFINE T == {i \in DOMAIN L : L[i].type = type}
  <1>1. ASSUME Has(L, type)
        PROVE  \E k \in DOMAIN L : /\ FirstEvent(L, type) = L[k] /\ L[k].type = type
                                   /\ \A i \in DOMAIN L : L[i].type = type => k <= i
    <2>1. T \in SUBSET Nat /\ T # {}
      BY <1>1 DEF Has
    <2>2. \E n \in T : \A m \in T : n <= m
      BY <2>1, Least
    <2>3. Min(T) \in T /\ \A m \in T : Min(T) <= m
      BY <2>2 DEF Min
    <2>4. FirstEvent(L, type) = L[Min(T)]
      BY <1>1 DEF FirstEvent, Has
    <2> QED
      BY <2>3, <2>4
  <1> QED
    BY <1>1 DEF FirstEvent, Has

\* What is appended comes first only of a type that was not there.
LEMMA FirstStays ==
    ASSUME NEW L \in Seq(Events), NEW e \in Events, NEW type
    PROVE  /\ Has(L, type) => FirstEvent(Append(L, e), type) = FirstEvent(L, type)
           /\ ~Has(L, type) => FirstEvent(Append(L, e), type) \in {None, e}
  <1> DEFINE M == Append(L, e)
  <1>1. /\ M \in Seq(Events) /\ Len(L) \in Nat /\ DOMAIN L = 1 .. Len(L) /\ DOMAIN M = 1 .. Len(L) + 1
        /\ \A i \in 1 .. Len(L) : M[i] = L[i]
        /\ M[Len(L) + 1] = e
    OBVIOUS
  <1> HIDE DEF M
  <1>2. ASSUME Has(L, type)
        PROVE  FirstEvent(M, type) = FirstEvent(L, type)
    <2>1. PICK k \in DOMAIN L : /\ FirstEvent(L, type) = L[k] /\ L[k].type = type
                                /\ \A i \in DOMAIN L : L[i].type = type => k <= i
      BY <1>2, FirstEventIs
    <2>2. Has(M, type)
      BY <1>1, <2>1 DEF Has
    <2>3. PICK j \in DOMAIN M : /\ FirstEvent(M, type) = M[j] /\ M[j].type = type
                                /\ \A i \in DOMAIN M : M[i].type = type => j <= i
      BY <1>1, <2>2, FirstEventIs
    <2>4. j <= k
      BY <1>1, <2>1, <2>3
    <2>5. j \in DOMAIN L /\ L[j].type = type
      BY <1>1, <2>3, <2>4
    <2>6. j = k
      BY <1>1, <2>1, <2>4, <2>5
    <2> QED
      BY <1>1, <2>1, <2>3, <2>6
  <1>3. ASSUME ~Has(L, type)
        PROVE  FirstEvent(M, type) \in {None, e}
    <2>1. CASE Has(M, type)
      <3>1. PICK j \in DOMAIN M : FirstEvent(M, type) = M[j] /\ M[j].type = type
        BY <1>1, <2>1, FirstEventIs
      <3> QED
        BY <1>1, <1>3, <3>1 DEF Has
    <2> QED
      BY <1>1, <2>1, FirstEventIs
  <1> QED
    BY <1>2, <1>3 DEF M

\* The audit trail of a behaviour: events in the order of their times.
LogOK == log \in Seq(Events) /\ \A i \in DOMAIN log : log[i].ts = i /\ (log[i].type = "resolved" => log[i].branch = "revision")

LEMMA LogHolds == Spec => []LogOK
  <1>1. Init => LogOK
    BY DEF Init, LogOK
  <1>2. LogOK /\ [Next]_vars => LogOK'
    <2> SUFFICES ASSUME LogOK, [Next]_vars PROVE LogOK'
      OBVIOUS
    <2>1. CASE Log
      <3> PICK type \in EventTypes : log' = Append(log, Event(type, Len(log) + 1))
        BY <2>1 DEF Log
      <3> DEFINE e == Event(type, Len(log) + 1)
      <3>1. log \in Seq(Events) /\ Len(log) \in Nat /\ DOMAIN log = 1 .. Len(log)
        BY DEF LogOK
      <3>2. e \in Events /\ e.ts = Len(log) + 1 /\ (e.type = "resolved" => e.branch = "revision")
        BY <3>1 DEF Event, Events
      <3> HIDE DEF e
      <3>3. /\ log' \in Seq(Events) /\ DOMAIN log' = 1 .. Len(log) + 1
            /\ \A i \in 1 .. Len(log) : log'[i] = log[i]
            /\ log'[Len(log) + 1] = e
        BY <3>1, <3>2 DEF e
      <3> QED
        BY <3>1, <3>2, <3>3 DEF LogOK
    <2>2. CASE NextDay
      BY <2>2 DEF NextDay, LogOK
    <2>3. CASE Store
      BY <2>3 DEF Store, LogOK
    <2>4. CASE UNCHANGED vars
      BY <2>4 DEF vars, LogOK
    <2> QED
      BY <2>1, <2>2, <2>3, <2>4 DEF Next
  <1> QED
    BY <1>1, <1>2, PTL DEF Spec

\* store.py:103-105: no event logged after a document was stored changes its processing time.
THEOREM DurationStays == Spec => DurationIsFinal
  <1> DEFINE Kept == FirstEvent(log, "stored") # None => Duration(log') = Duration(log)
  <1>1. ASSUME LogOK, [Next]_vars
        PROVE  Kept
    <2> SUFFICES ASSUME FirstEvent(log, "stored") # None PROVE Duration(log') = Duration(log)
      OBVIOUS
    <2>1. CASE log' = log
      BY <2>1
    <2>2. CASE Log
      <3> PICK type \in EventTypes : log' = Append(log, Event(type, Len(log) + 1))
        BY <2>2 DEF Log
      <3> DEFINE e == Event(type, Len(log) + 1)
      <3>1. log \in Seq(Events) /\ Len(log) \in Nat /\ DOMAIN log = 1 .. Len(log)
        BY <1>1 DEF LogOK
      <3>2. e \in Events /\ e.ts = Len(log) + 1
        BY <3>1 DEF Event, Events
      <3> HIDE DEF e
      <3>3. Has(log, "stored")
        BY <3>1, FirstEventIs
      <3>4. PICK k \in DOMAIN log : FirstEvent(log, "stored") = log[k] /\ log[k].ts = k
        BY <1>1, <3>1, <3>3, FirstEventIs DEF LogOK
      <3>5. FirstEvent(log', "stored") = log[k]
        BY <3>1, <3>2, <3>3, <3>4, FirstStays DEF e
      <3>6. CASE Has(log, "received")
        <4>1. FirstEvent(log', "received") = FirstEvent(log, "received")
          BY <3>1, <3>2, <3>6, FirstStays DEF e
        <4> QED
          BY <3>4, <3>5, <4>1 DEF Duration
      <3>7. CASE ~Has(log, "received")
        <4>1. FirstEvent(log, "received") = None /\ FirstEvent(log', "received") \in {None, e}
          BY <3>1, <3>2, <3>7, FirstEventIs, FirstStays DEF e
        <4>2. Duration(log) = None
          BY <4>1 DEF Duration
        <4>3. log[k].ts < e.ts
          BY <3>1, <3>2, <3>4
        <4>4. Duration(log') = None
          BY <3>5, <4>1, <4>3 DEF Duration
        <4> QED
          BY <4>2, <4>4
      <3> QED
        BY <3>6, <3>7
    <2> QED
      BY <1>1, <2>1, <2>2 DEF Next, NextDay, Store, vars
  <1>2. LogOK /\ [Next]_vars => [Kept]_vars
    BY <1>1
  <1> HIDE DEF Kept
  <1>3. [][Next]_vars /\ []LogOK => [][Kept]_vars
    BY <1>2, PTL
  <1>4. Spec => [][Kept]_vars
    BY <1>3, LogHolds, PTL DEF Spec
  <1> QED
    BY <1>4 DEF DurationIsFinal, Kept

-----------------------------------------------------------------------------
(* The feed.                                                               *)

\* Position j stands before position i, once sorted.
Ahead(key, j, i) == key[j] > key[i] \/ (key[j] = key[i] /\ j < i)

NoLater(key, N, i) == {j \in 1 .. N : Ahead(key, j, i) \/ j = i}

LEMMA AheadIsAnOrder ==
    ASSUME NEW N \in Nat, NEW key \in [1 .. N -> Int], NEW i \in 1 .. N, NEW j \in 1 .. N
    PROVE  /\ i # j => Ahead(key, i, j) \/ Ahead(key, j, i)
           /\ ~(Ahead(key, i, j) /\ Ahead(key, j, i))
           /\ \A k \in 1 .. N : Ahead(key, k, i) /\ Ahead(key, i, j) => Ahead(key, k, j)
  BY DEF Ahead

LEMMA RankType ==
    ASSUME NEW N \in Nat, NEW key \in [1 .. N -> Int], NEW i \in 1 .. N
    PROVE  IsFiniteSet(NoLater(key, N, i)) /\ Cardinality(NoLater(key, N, i)) \in 1 .. N
  <1> DEFINE U == NoLater(key, N, i)
             S == 1 .. N
  <1>1. IsFiniteSet(S) /\ Cardinality(S) = N
    BY FS_Interval
  <1>2. U \in SUBSET S /\ i \in U
    BY DEF NoLater
  <1> HIDE DEF U, S
  <1>3. IsFiniteSet(U) /\ Cardinality(U) <= N
    BY <1>1, <1>2, FS_Subset
  <1>4. Cardinality(U) \in Nat /\ Cardinality(U) # 0
    BY <1>2, <1>3, FS_CardinalityType, FS_EmptySet
  <1> QED
    BY <1>3, <1>4 DEF U

LEMMA RankGrows ==
    ASSUME NEW N \in Nat, NEW key \in [1 .. N -> Int], NEW i \in 1 .. N, NEW j \in 1 .. N, Ahead(key, i, j)
    PROVE  Cardinality(NoLater(key, N, i)) < Cardinality(NoLater(key, N, j))
  <1> DEFINE U == NoLater(key, N, i)
             V == NoLater(key, N, j)
  <1>1. U \in SUBSET V
    BY AheadIsAnOrder DEF NoLater
  <1>2. j \in V /\ j \notin U
    BY AheadIsAnOrder DEF NoLater, Ahead
  <1>3. IsFiniteSet(V) /\ Cardinality(U) \in Nat /\ Cardinality(V) \in Nat
    BY RankType
  <1> HIDE DEF U, V
  <1>4. Cardinality(U) <= Cardinality(V) /\ (Cardinality(V) = Cardinality(U) => V = U)
    BY <1>1, <1>3, FS_Subset
  <1>5. Cardinality(U) # Cardinality(V)
    BY <1>2, <1>4
  <1>6. Cardinality(U) < Cardinality(V)
    BY <1>3, <1>4, <1>5
  <1> QED
    BY <1>6 DEF U, V

\* Sorting puts every position in one place, and a later place never holds a newer row.
LEMMA SortingPermutes ==
    ASSUME NEW F, NEW N \in Nat, DOMAIN F = 1 .. N, \A i \in 1 .. N : SortKey(F[i]) \in Int
    PROVE  \E p \in [1 .. N -> 1 .. N] :
              /\ \A i \in 1 .. N : \E k \in 1 .. N : p[k] = i
              /\ NewestFirst(F) = [k \in 1 .. N |-> F[p[k]]]
              /\ \A k \in 1 .. N, l \in 1 .. N : k < l => SortKey(F[p[k]]) >= SortKey(F[p[l]])
  <1> DEFINE key == [i \in 1 .. N |-> SortKey(F[i])]
             rank == [i \in 1 .. N |-> Cardinality(NoLater(key, N, i))]
             p == [k \in 1 .. N |-> CHOOSE i \in 1 .. N : Cardinality(NotAfter(F, i)) = k]
  <1>1. key \in [1 .. N -> Int]
    OBVIOUS
  <1>2. ASSUME NEW i \in 1 .. N PROVE NotAfter(F, i) = NoLater(key, N, i)
    BY DEF NotAfter, NoLater, Ahead
  <1>3. NewestFirst(F) = [k \in 1 .. N |-> F[p[k]]]
    BY DEF NewestFirst
  <1> HIDE DEF key
  <1>4. \A i \in 1 .. N : rank[i] \in 1 .. N /\ rank[i] = Cardinality(NotAfter(F, i))
    BY <1>1, <1>2, RankType
  <1>5. \A i \in 1 .. N, j \in 1 .. N : Ahead(key, i, j) => rank[i] < rank[j]
    BY <1>1, RankGrows
  <1> HIDE DEF rank
  <1>6. ASSUME NEW i \in 1 .. N, NEW j \in 1 .. N, i # j PROVE rank[i] # rank[j]
    <2>1. Ahead(key, i, j) \/ Ahead(key, j, i)
      BY <1>1, <1>6, AheadIsAnOrder
    <2>2. rank[i] < rank[j] \/ rank[j] < rank[i]
      BY <1>5, <2>1
    <2> QED
      BY <1>4, <2>2
  <1>7. rank \in Injection(1 .. N, 1 .. N)
    BY <1>4, <1>6 DEF rank, Injection, IsInjective
  <1>8. rank \in Surjection(1 .. N, 1 .. N)
    BY <1>7, FS_Interval, FS_Injection
  <1>9. \A k \in 1 .. N : \E i \in 1 .. N : rank[i] = k
    BY <1>8 DEF Surjection
  <1>10. \A k \in 1 .. N : p[k] \in 1 .. N /\ rank[p[k]] = k
    BY <1>4, <1>9
  <1>11. p \in [1 .. N -> 1 .. N]
    BY <1>10
  <1> HIDE DEF p
  <1>12. ASSUME NEW i \in 1 .. N PROVE \E k \in 1 .. N : p[k] = i
    <2>1. rank[i] \in 1 .. N /\ rank[p[rank[i]]] = rank[i] /\ p[rank[i]] \in 1 .. N
      BY <1>4, <1>10
    <2> QED
      BY <1>6, <2>1
  <1>13. ASSUME NEW k \in 1 .. N, NEW l \in 1 .. N, k < l
         PROVE  SortKey(F[p[k]]) >= SortKey(F[p[l]])
    <2>1. p[k] \in 1 .. N /\ p[l] \in 1 .. N /\ rank[p[k]] = k /\ rank[p[l]] = l
      BY <1>10
    <2>2. ~Ahead(key, p[l], p[k])
      <3>1. Ahead(key, p[l], p[k]) => rank[p[l]] < rank[p[k]]
        BY <1>5, <2>1
      <3> QED
        BY <1>13, <2>1, <3>1
    <2>3. ~(key[p[l]] > key[p[k]])
      BY <2>2 DEF Ahead
    <2>4. key[p[k]] = SortKey(F[p[k]]) /\ key[p[l]] = SortKey(F[p[l]]) /\ key[p[k]] \in Int /\ key[p[l]] \in Int
      BY <1>1, <2>1 DEF key
    <2> QED
      BY <2>3, <2>4
  <1> QED
    BY <1>3, <1>11, <1>12, <1>13

\* The rows the feed fetches are the last ones stored.
LEMMA FetchedIs ==
    ASSUME NEW N \in Nat, Len(rows) = N
    PROVE  /\ Fetched \in Nat /\ Fetched <= N
           /\ \A k \in 1 .. Fetched : Newest(k) \in 1 .. N /\ Newest(k) > N - FeedLimit
           /\ \A i \in 1 .. N : i > N - FeedLimit => N + 1 - i \in 1 .. Fetched /\ Newest(N + 1 - i) = i
           /\ Cardinality({i \in 1 .. N : i > N - FeedLimit}) = Fetched
  <1>1. FeedLimit \in Nat
    BY BooksAssumption DEF BooksAssumption
  <1>2. Fetched = IF FeedLimit <= N THEN FeedLimit ELSE N
    <2>1. \E x \in {FeedLimit, N} : \A y \in {FeedLimit, N} : x <= y
      BY <1>1
    <2>2. Fetched \in {FeedLimit, N} /\ \A y \in {FeedLimit, N} : Fetched <= y
      BY <2>1 DEF Fetched, Min
    <2> QED
      BY <1>1, <2>2
  <1>3. Fetched \in Nat /\ Fetched <= N
    BY <1>1, <1>2
  <1>4. \A k \in 1 .. Fetched : Newest(k) \in 1 .. N /\ Newest(k) > N - FeedLimit
    BY <1>1, <1>2 DEF Newest
  <1>5. \A i \in 1 .. N : i > N - FeedLimit => N + 1 - i \in 1 .. Fetched /\ Newest(N + 1 - i) = i
    BY <1>1, <1>2 DEF Newest
  <1>6. Cardinality({i \in 1 .. N : i > N - FeedLimit}) = Fetched
    <2>1. {i \in 1 .. N : i > N - FeedLimit} = (N + 1 - Fetched) .. N
      BY <1>1, <1>2
    <2>2. Cardinality((N + 1 - Fetched) .. N) = IF N + 1 - Fetched > N THEN 0 ELSE N - (N + 1 - Fetched) + 1
      BY <1>3, FS_Interval
    <2>3. Cardinality((N + 1 - Fetched) .. N) = Fetched
      BY <1>3, <2>2
    <2> QED
      BY <2>1, <2>3
  <1> QED
    BY <1>3, <1>4, <1>5, <1>6

\* The rows of the feed, before they are sorted.
Unsorted ==
    FeedRows([k \in 1 .. Fetched |-> LET i == Newest(k) IN
                [id |-> i, docType |-> rows[i].docType, date |-> IF rows[i].date = None THEN None ELSE 0]],
             [i \in DOMAIN rows |-> IF i = 1 THEN log ELSE << >>],
             <<[id |-> 0, ts |-> 2]>>)

LEMMA UnsortedIs ==
    ASSUME NEW N \in Nat, DOMAIN rows = 1 .. N, Len(rows) = N, NEW F \in Nat, F = Fetched,
           LogOK, None \notin Int
    PROVE  /\ DOMAIN Unsorted = 1 .. F + 1
           /\ \A k \in 1 .. F + 1 : Unsorted[k].entry = IF k = F + 1 THEN 0 ELSE Newest(k)
           /\ \A k \in 1 .. F + 1 : SortKey(Unsorted[k]) \in Int
           /\ FirstEvent(log, "resolved") # None =>
                \A k \in 1 .. F : Newest(k) = 1 => Unsorted[k].branch = "revision"
  <1> DEFINE inv == [k \in 1 .. F |-> LET i == Newest(k) IN
                       [id |-> i, docType |-> rows[i].docType, date |-> IF rows[i].date = None THEN None ELSE 0]]
             evs == [i \in DOMAIN rows |-> IF i = 1 THEN log ELSE << >>]
             dead == <<[id |-> 0, ts |-> 2]>>
             A == [k \in DOMAIN inv |-> InvoiceRow(inv[k], evs[inv[k].id])]
             B == [k \in DOMAIN dead |-> DeadRow(dead[k])]
             R == {InvoiceRow(inv[k], evs[inv[k].id]) : k \in 1 .. F} \cup {DeadRow(dead[1])}
  <1>0. \A k \in 1 .. F : Newest(k) \in 1 .. N
    BY FetchedIs
  <1>1. Unsorted = A \o B
    BY DEF Unsorted, FeedRows
  <1>2. DOMAIN A = 1 .. F /\ \A k \in 1 .. F : A[k] = InvoiceRow(inv[k], evs[Newest(k)])
    OBVIOUS
  <1>3. DOMAIN B = 1 .. 1 /\ B[1] = DeadRow([id |-> 0, ts |-> 2])
    OBVIOUS
  <1>4. \A k \in 1 .. F : /\ evs[Newest(k)] = (IF Newest(k) = 1 THEN log ELSE << >>)
                          /\ inv[k].id = Newest(k) /\ inv[k].date \in {None, 0}
    BY <1>0
  <1>5. A \in [1 .. F -> R] /\ B \in [1 .. 1 -> R]
    <2>1. DOMAIN inv = 1 .. F /\ DOMAIN dead = 1 .. 1
      OBVIOUS
    <2> HIDE DEF inv, evs, dead
    <2> QED
      BY <2>1
  <1> HIDE DEF inv, evs, dead, A, B, R
  <1>6. /\ DOMAIN Unsorted = 1 .. F + 1
        /\ \A k \in 1 .. F : Unsorted[k] = A[k]
        /\ Unsorted[F + 1] = B[1]
    <2>1. A \in Seq(R) /\ B \in Seq(R)
      BY <1>5, SeqDef
    <2>2. Len(A) = F /\ Len(B) = 1
      BY <1>5, <2>1, LenProperties
    <2>3. DOMAIN Unsorted = 1 .. F + 1
      <3>0. A \o B \in Seq(R) /\ Len(A \o B) = Len(A) + Len(B)
        BY <2>1, ConcatProperties
      <3>1. Unsorted \in Seq(R) /\ Len(Unsorted) = F + 1
        BY <1>1, <2>2, <3>0
      <3> QED
        BY <3>1, LenProperties
    <2>4. \A k \in 1 .. F + 1 : Unsorted[k] = IF k <= F THEN A[k] ELSE B[k - F]
      BY <1>1, <2>1, <2>2, ConcatProperties
    <2> QED
      BY <2>3, <2>4
  <1>7. B[1].entry = 0 /\ SortKey(B[1]) \in Int
    BY <1>3 DEF DeadRow, SortKey, Or
  <1>8. ASSUME NEW k \in 1 .. F
        PROVE  A[k].entry = Newest(k) /\ SortKey(A[k]) \in Int
    <2> DEFINE E == evs[Newest(k)]
    <2>1. A[k].entry = Newest(k)
      BY <1>2, <1>4 DEF InvoiceRow
    <2>2. CASE E = << >>
      <3>1. FirstEvent(E, "received") = None
        BY <2>2 DEF FirstEvent
      <3>2. A[k].ts = inv[k].date
        BY <1>2, <2>2, <3>1 DEF InvoiceRow
      <3> QED
        BY <1>4, <2>1, <3>2 DEF SortKey, Or
    <2>3. CASE E # << >>
      <3>1. E = log /\ log # << >>
        BY <1>4, <2>3
      <3>2. Len(log) \in DOMAIN log /\ log[Len(log)].ts = Len(log) /\ Len(log) \in Int
        BY <3>1 DEF LogOK
      <3>3. A[k].ts \in Int
        BY <1>2, <2>3, <3>1, <3>2 DEF InvoiceRow
      <3> QED
        BY <2>1, <3>3 DEF SortKey, Or
    <2> QED
      BY <2>2, <2>3
  <1>9. ASSUME FirstEvent(log, "resolved") # None, NEW k \in 1 .. F, Newest(k) = 1
        PROVE  A[k].branch = "revision"
    <2>1. evs[Newest(k)] = log
      BY <1>4, <1>9
    <2>2. log \in Seq(Events) /\ Has(log, "resolved")
      BY <1>9, FirstEventIs DEF LogOK
    <2>3. PICK j \in DOMAIN log : FirstEvent(log, "resolved") = log[j] /\ log[j].type = "resolved"
      BY <2>2, FirstEventIs
    <2>4. FirstEvent(log, "resolved").branch = "revision"
      BY <2>3 DEF LogOK
    <2> QED
      BY <1>2, <1>9, <2>1, <2>4, BooksAssumption DEF InvoiceRow, Or, BooksAssumption
  <1>10. \A k \in 1 .. F + 1 : k \in 1 .. F \/ k = F + 1
    OBVIOUS
  <1>11. ASSUME NEW k \in 1 .. F + 1
         PROVE  /\ Unsorted[k].entry = IF k = F + 1 THEN 0 ELSE Newest(k)
                /\ SortKey(Unsorted[k]) \in Int
    BY <1>6, <1>7, <1>8, <1>10
  <1>12. ASSUME FirstEvent(log, "resolved") # None, NEW k \in 1 .. F, Newest(k) = 1
         PROVE  Unsorted[k].branch = "revision"
    BY <1>6, <1>9, <1>12
  <1> QED
    BY <1>6, <1>11, <1>12

LEMMA FeedHolds ==
    ASSUME NEW N \in Nat, DOMAIN rows = 1 .. N, Len(rows) = N, LogOK, None \notin Int
    PROVE  FeedIsTail
  <1> DEFINE F == Fetched
             M == F + 1
             U == Unsorted
             shown == {i \in 1 .. N : i > N - FeedLimit}
  <1>1. /\ F \in Nat /\ M \in Nat /\ F = M - 1
        /\ \A k \in 1 .. F : Newest(k) \in shown
        /\ \A i \in shown : N + 1 - i \in 1 .. F /\ Newest(N + 1 - i) = i
        /\ Cardinality(shown) = F /\ shown \subseteq 1 .. N
    <2>1. F \in Nat /\ \A k \in 1 .. F : Newest(k) \in shown
      BY FetchedIs
    <2>2. \A i \in shown : N + 1 - i \in 1 .. F /\ Newest(N + 1 - i) = i
      BY FetchedIs
    <2>3. Cardinality(shown) = F
      BY FetchedIs
    <2> QED
      BY <2>1, <2>2, <2>3
  <1>2. /\ DOMAIN U = 1 .. M
        /\ \A k \in 1 .. M : U[k].entry = (IF k = M THEN 0 ELSE Newest(k)) /\ SortKey(U[k]) \in Int
        /\ FirstEvent(log, "resolved") # None => \A k \in 1 .. F : Newest(k) = 1 => U[k].branch = "revision"
    BY <1>1, UnsortedIs
  <1>3. Feed = NewestFirst(U)
    BY DEF Feed, ActivityFeed, Unsorted
  <1> HIDE DEF F, M, U, shown
  <1>4. PICK p \in [1 .. M -> 1 .. M] :
              /\ \A i \in 1 .. M : \E k \in 1 .. M : p[k] = i
              /\ NewestFirst(U) = [k \in 1 .. M |-> U[p[k]]]
              /\ \A k \in 1 .. M, l \in 1 .. M : k < l => SortKey(U[p[k]]) >= SortKey(U[p[l]])
    BY <1>1, <1>2, SortingPermutes
  <1>5. /\ DOMAIN Feed = 1 .. M /\ Len(Feed) = M
        /\ \A k \in 1 .. M : Feed[k] = U[p[k]] /\ p[k] \in 1 .. M
    <2>1. DOMAIN Feed = 1 .. M /\ \A k \in 1 .. M : Feed[k] = U[p[k]] /\ p[k] \in 1 .. M
      BY <1>3, <1>4
    <2>2. Feed = [k \in 1 .. M |-> Feed[k]]
      BY <1>3, <1>4
    <2>3. Feed \in Seq({U[p[k]] : k \in 1 .. M})
      <3> DEFINE S == {U[p[k]] : k \in 1 .. M}
      <3>1. Feed \in [1 .. M -> S]
        BY <2>1, <2>2
      <3>2. M \in Nat
        BY <1>1
      <3> HIDE DEF S
      <3>3. Feed \in Seq(S)
        BY <3>1, <3>2, SeqDef
      <3> QED
        BY <3>3 DEF S
    <2>4. Len(Feed) = M
      BY <1>1, <2>1, <2>3, LenProperties
    <2> QED
      BY <2>1, <2>4
  <1>6. {Feed[k].entry : k \in DOMAIN Feed} = shown \cup {0}
    <2>1. \A k \in 1 .. M : Feed[k].entry = IF p[k] = M THEN 0 ELSE Newest(p[k])
      BY <1>2, <1>5
    <2>2. ASSUME NEW k \in 1 .. M PROVE Feed[k].entry \in shown \cup {0}
      <3>1. p[k] \in 1 .. M /\ (p[k] # M => p[k] \in 1 .. F)
        BY <1>1, <1>5
      <3> QED
        BY <1>1, <2>1, <3>1
    <2>3. ASSUME NEW i \in shown \cup {0} PROVE \E k \in 1 .. M : Feed[k].entry = i
      <3> DEFINE j == IF i = 0 THEN M ELSE N + 1 - i
      <3>1. j \in 1 .. M /\ (IF j = M THEN 0 ELSE Newest(j)) = i
        <4>1. CASE i = 0
          BY <1>1, <4>1
        <4>2. CASE i # 0
          <5>1. i \in shown /\ N + 1 - i \in 1 .. F /\ Newest(N + 1 - i) = i
            BY <1>1, <4>2
          <5>2. j = N + 1 - i
            BY <4>2
          <5>3. j \in 1 .. F /\ Newest(j) = i
            BY <5>1, <5>2
          <5> HIDE DEF j
          <5> QED
            BY <1>1, <5>3
        <4> QED
          BY <4>1, <4>2
      <3> HIDE DEF j
      <3> PICK k \in 1 .. M : p[k] = j
        BY <1>4, <3>1
      <3> QED
        BY <2>1, <3>1
    <2>4. DOMAIN Feed = 1 .. M
      BY <1>5
    <2>5. \A x : x \in {Feed[k].entry : k \in 1 .. M} <=> x \in shown \cup {0}
      BY <2>2, <2>3
    <2> QED
      BY <2>4, <2>5
  <1>7. \A k \in 1 .. Len(Feed) - 1 : SortKey(Feed[k]) >= SortKey(Feed[k + 1])
    <2> SUFFICES ASSUME NEW k \in 1 .. M - 1 PROVE SortKey(Feed[k]) >= SortKey(Feed[k + 1])
      BY <1>5
    <2>1. k \in 1 .. M /\ k + 1 \in 1 .. M /\ k < k + 1
      BY <1>1
    <2>2. SortKey(U[p[k]]) >= SortKey(U[p[k + 1]])
      BY <1>4, <2>1
    <2> QED
      BY <1>5, <2>1, <2>2
  <1>8. ASSUME NEW k \in DOMAIN Feed, Feed[k].entry = 1, FirstEvent(log, "resolved") # None
        PROVE  Feed[k].branch = "revision"
    <2>1. k \in 1 .. M /\ p[k] \in 1 .. M /\ Feed[k] = U[p[k]]
      BY <1>5
    <2>2. U[p[k]].entry = IF p[k] = M THEN 0 ELSE Newest(p[k])
      BY <1>2, <2>1
    <2>3. p[k] # M /\ Newest(p[k]) = 1
      BY <1>8, <2>1, <2>2
    <2>4. p[k] \in 1 .. F
      BY <1>1, <2>1, <2>3
    <2> QED
      BY <1>2, <1>8, <2>1, <2>3, <2>4
  <1>9. Len(Feed) = Cardinality(shown) + 1
    BY <1>1, <1>5 DEF M
  <1> QED
    BY <1>6, <1>7, <1>8, <1>9 DEF FeedIsTail, shown

\* store.py:74-76,118-173,373-399: for every ledger and audit trail and every limit, the documents
\* stored last and every dead letter stand in the feed once, nothing else does, newest first, and a
\* superseding document under its branch.
THEOREM FeedStaysTail == Spec => []FeedIsTail
  <1>1. ASSUME LedgerInv, LogOK PROVE FeedIsTail
    <2>1. Len(rows) \in Nat /\ DOMAIN rows = 1 .. Len(rows)
      BY <1>1 DEF LedgerInv
    <2> QED
      BY <1>1, <2>1, BooksAssumption, FeedHolds DEF BooksAssumption
  <1> QED
    BY <1>1, LedgerHolds, LogHolds, PTL
=============================================================================
