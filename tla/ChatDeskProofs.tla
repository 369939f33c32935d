---------------------------- MODULE ChatDeskProofs ----------------------------
(***************************************************************************)
(* Theorems about a conversation and its answers, for every value of the   *)
(* constants.                                                              *)
(***************************************************************************)
EXTENDS ChatDesk, Lemmas

LEMMA NoneIsNothing ==
    /\ None \notin Int /\ None \notin Questions /\ None # "answer" /\ None \notin Requests
  BY DeskAssumption DEF DeskAssumption

-----------------------------------------------------------------------------
(* The history a question is put into.                                     *)

LEMMA LastOfIs ==
    ASSUME NEW X, NEW s \in Seq(X), NEW n \in 0 .. Len(s)
    PROVE  /\ LastOf(s, n) \in Seq(X) /\ Len(LastOf(s, n)) = n
           /\ \A i \in 1 .. n : LastOf(s, n)[i] = s[Len(s) - n + i]
  <1> DEFINE a == Len(s) - n + 1
             b == Len(s)
  <1>1. a \in 1 .. Len(s) + 1 /\ b \in a - 1 .. Len(s)
    OBVIOUS
  <1>2. b - a + 1 = n /\ \A i \in 1 .. n : a + i - 1 = Len(s) - n + i
    OBVIOUS
  <1>3. LastOf(s, n) = SubSeq(s, a, b)
    BY DEF LastOf
  <1>4. SubSeq(s, a, b) = [i \in 1 .. b - a + 1 |-> s[a + i - 1]]
    OBVIOUS
  <1>5. LastOf(s, n) = [i \in 1 .. n |-> s[Len(s) - n + i]]
    BY <1>2, <1>3, <1>4
  <1>6. \A i \in 1 .. n : s[Len(s) - n + i] \in X
    OBVIOUS
  <1>7. LastOf(s, n) \in [1 .. n -> X] /\ n \in Nat
    BY <1>5, <1>6
  <1>8. LastOf(s, n) \in Seq(X) /\ Len(LastOf(s, n)) = n
    BY <1>7, SeqDef
  <1> QED
    BY <1>5, <1>8

CostsOf(s) == [i \in DOMAIN s |-> s[i].cost]

LEMMA CostsAre ==
    ASSUME NEW s \in Seq(Turns)
    PROVE  /\ Cost(s) = SumOf(CostsOf(s), 1 .. Len(s)) /\ Figures(CostsOf(s), 1 .. Len(s))
           /\ \A i \in 1 .. Len(s) : CostsOf(s)[i] = s[i].cost
  <1>1. DOMAIN s = 1 .. Len(s)
    OBVIOUS
  <1>2. ASSUME NEW i \in 1 .. Len(s) PROVE s[i].cost \in Int
    <2>1. s[i] \in Turns
      OBVIOUS
    <2> QED
      BY <2>1 DEF Turns
  <1> QED
    BY <1>1, <1>2 DEF Cost, CostsOf, Figures

\* One more turn costs what it costs.
LEMMA OneMoreTurn ==
    ASSUME NEW s \in Seq(Turns), NEW n \in 1 .. Len(s) - 1
    PROVE  Cost(LastOf(s, n + 1)) = s[Len(s) - n].cost + Cost(LastOf(s, n))
  <1> DEFINE t == LastOf(s, n + 1)
             u == LastOf(s, n)
             v == CostsOf(t)
             w == CostsOf(u)
  <1>1. /\ t \in Seq(Turns) /\ Len(t) = n + 1 /\ \A i \in 1 .. n + 1 : t[i] = s[Len(s) - (n + 1) + i]
        /\ u \in Seq(Turns) /\ Len(u) = n /\ \A i \in 1 .. n : u[i] = s[Len(s) - n + i]
    <2>1. n + 1 \in 0 .. Len(s) /\ n \in 0 .. Len(s)
      OBVIOUS
    <2> QED
      BY <2>1, LastOfIs
  <1>2. n \in Nat /\ Len(s) \in Nat
    OBVIOUS
  <1>3. t[1] = s[Len(s) - n] /\ \A i \in 1 .. n : t[i + 1] = u[i]
    <2>1. Len(s) - (n + 1) + 1 = Len(s) - n /\ \A i \in 1 .. n : Len(s) - (n + 1) + (i + 1) = Len(s) - n + i
      OBVIOUS
    <2>2. 1 \in 1 .. n + 1 /\ \A i \in 1 .. n : i + 1 \in 1 .. n + 1
      OBVIOUS
    <2> QED
      BY <1>1, <2>1, <2>2
  <1> HIDE DEF t, u
  <1>4. /\ Cost(t) = SumOf(v, 1 .. n + 1) /\ Figures(v, 1 .. n + 1) /\ \A i \in 1 .. n + 1 : v[i] = t[i].cost
        /\ Cost(u) = SumOf(w, 1 .. n) /\ Figures(w, 1 .. n) /\ \A i \in 1 .. n : w[i] = u[i].cost
    BY <1>1, CostsAre
  <1>5. v[1] = s[Len(s) - n].cost /\ \A i \in 1 .. n : v[i + 1] = w[i]
    <2>1. 1 \in 1 .. n + 1 /\ \A i \in 1 .. n : i + 1 \in 1 .. n + 1
      BY <1>2
    <2> QED
      BY <1>3, <1>4, <2>1
  <1> HIDE DEF v, w
  <1>6. SumOf(v, 1 .. n + 1) = v[1] + SumOf(v, 2 .. n + 1)
    <2>1. n + 1 \in Nat /\ IsFiniteSet(1 .. n + 1)
      BY <1>2, FS_Interval
    <2>2. 1 \in 1 .. n + 1 /\ (1 .. n + 1) \ {1} = 2 .. n + 1
      BY <1>2
    <2>3. SumOf(v, 1 .. n + 1) = v[1] + SumOf(v, (1 .. n + 1) \ {1})
      BY ONLY <1>4, <2>1, <2>2, SumWithout
    <2> QED
      BY <2>2, <2>3
  <1>7. SumOf(v, 2 .. n + 1) = SumOf(w, 1 .. n)
    BY ONLY <1>2, <1>4, <1>5, SumShift
  <1> QED
    BY <1>4, <1>5, <1>6, <1>7 DEF t, u

LEMMA AllAreTold ==
    ASSUME NEW s \in Seq(Turns)
    PROVE  NonEmpty(s) = s
  <1>1. ASSUME NEW i \in 1 .. Len(s) PROVE s[i].text # None
    <2>1. s[i] \in Turns
      OBVIOUS
    <2> QED
      BY <2>1, NoneIsNothing DEF Turns
  <1>2. {i \in DOMAIN s : s[i].text # None} = 1 .. Len(s)
    BY <1>1
  <1>3. Only(s, 1 .. Len(s)) = s
    BY OnlyAll
  <1> QED
    BY <1>2, <1>3 DEF NonEmpty

\* How many turns of s, at least one, are kept.
Kept(s, n) ==
    /\ n \in 1 .. Len(s)
    /\ Cost(LastOf(s, n)) <= Budget \/ n = 1
    /\ n < Len(s) => Cost(LastOf(s, n + 1)) > Budget

LEMMA CostType ==
    ASSUME NEW s \in Seq(Turns), NEW n \in 0 .. Len(s)
    PROVE  Cost(LastOf(s, n)) \in Int
  <1>1. LastOf(s, n) \in Seq(Turns) /\ Len(LastOf(s, n)) = n /\ n \in Nat
    BY LastOfIs
  <1>2. Cost(LastOf(s, n)) = SumOf(CostsOf(LastOf(s, n)), 1 .. n) /\ Figures(CostsOf(LastOf(s, n)), 1 .. n)
    BY <1>1, CostsAre
  <1>3. IsFiniteSet(1 .. n)
    BY <1>1, FS_Interval
  <1> QED
    BY <1>2, <1>3, SumType

LEMMA TrimKeeps ==
    ASSUME NEW s \in Seq(Turns), s # << >>
    PROVE  \E n : Kept(s, n) /\ Trim(s) = LastOf(s, n)
  <1> DEFINE fits == {n \in 1 .. Len(s) : Cost(LastOf(s, n)) <= Budget}
             n == Max(fits \cup {1})
  <1>1. Len(s) \in Nat \ {0} /\ Budget \in Int
    BY AnswerAssumption DEF AnswerAssumption
  <1>2. Trim(s) = LastOf(s, n)
    BY AllAreTold DEF Trim
  <1>3. n \in fits \cup {1} /\ \A k \in fits \cup {1} : k <= n
    <2>1. fits \cup {1} \in SUBSET (0 .. Len(s)) /\ fits \cup {1} # {} /\ Len(s) \in Nat
      BY <1>1
    <2> HIDE DEF fits
    <2> QED
      BY ONLY <2>1, LargestIsMax
  <1> HIDE DEF n
  <1>4. n \in 1 .. Len(s) /\ (Cost(LastOf(s, n)) <= Budget \/ n = 1)
    BY <1>1, <1>3
  <1>5. ASSUME n < Len(s) PROVE Cost(LastOf(s, n + 1)) > Budget
    <2>1. n + 1 \in 1 .. Len(s) /\ n + 1 \in 0 .. Len(s) /\ ~(n + 1 <= n)
      BY <1>1, <1>4, <1>5
    <2>2. Cost(LastOf(s, n + 1)) \in Int
      BY <2>1, CostType
    <2>3. ~(Cost(LastOf(s, n + 1)) <= Budget)
      BY <1>3, <2>1
    <2> QED
      BY <1>1, <2>2, <2>3
  <1> QED
    BY <1>2, <1>4, <1>5 DEF Kept

\* The context of a question q asked after what was told.
ContextOf(told, q) == Trim(Handed(told, q))

Recent(ctx, told, q) ==
    /\ ctx = LastOf(told \o <<q>>, Len(ctx))
    /\ Cost(ctx) <= Budget \/ Len(ctx) = 1
    /\ Len(ctx) <= Len(told) => Cost(ctx) + told[Len(told) - Len(ctx) + 1].cost > Budget \/ Len(ctx) > MaxHistory

LEMMA ContextHolds ==
    ASSUME NEW told \in Seq(Turns), NEW q \in Turns
    PROVE  ContextOf(told, q) \in Seq(Turns) /\ Recent(ContextOf(told, q), told, q)
  <1> DEFINE m == Min({MaxHistory, Len(told)})
             old == LastOf(told, m)
             s == old \o <<q>>
             whole == told \o <<q>>
             ctx == ContextOf(told, q)
  <1>1. Len(told) \in Nat /\ MaxHistory \in Nat
    BY AnswerAssumption DEF AnswerAssumption
  <1>2. m = (IF MaxHistory <= Len(told) THEN MaxHistory ELSE Len(told)) /\ m \in 0 .. Len(told)
    <2>1. m = IF MaxHistory <= Len(told) THEN MaxHistory ELSE Len(told)
      BY <1>1, OfTwo
    <2> QED
      BY <1>1, <2>1
  <1> HIDE DEF m
  <1> DEFINE N == Len(told)
  <1>16. m \in Nat /\ N \in Nat /\ m <= N /\ N - m \in Nat
    BY <1>1, <1>2
  <1> HIDE DEF N
  <1>3. old \in Seq(Turns) /\ Len(old) = m /\ \A i \in 1 .. m : old[i] = told[N - m + i]
    BY <1>2, LastOfIs DEF N
  <1> HIDE DEF old
  <1>4. /\ s \in Seq(Turns) /\ Len(s) = m + 1 /\ s[m + 1] = q
        /\ \A i \in 1 .. m : s[i] = told[N - m + i]
    <2>1. s \in Seq(Turns) /\ Len(s) = Len(old) + 1 /\ s[Len(old) + 1] = q /\ \A i \in 1 .. Len(old) : s[i] = old[i]
      BY <1>3
    <2> QED
      BY <1>3, <2>1
  <1>5. /\ whole \in Seq(Turns) /\ Len(whole) = N + 1 /\ whole[N + 1] = q
        /\ \A i \in 1 .. N : whole[i] = told[i]
    BY <1>1 DEF N
  <1>6. ctx = Trim(s)
    BY DEF ContextOf, Handed, old, m
  <1> HIDE DEF s, whole
  <1>7. s # << >>
    BY <1>2, <1>4
  <1>8. PICK n : Kept(s, n) /\ Trim(s) = LastOf(s, n)
    BY <1>4, <1>7, TrimKeeps
  <1>9. n \in 1 .. m + 1 /\ n \in 0 .. Len(s) /\ n \in 0 .. Len(whole) /\ n \in Nat
    BY <1>16, <1>4, <1>5, <1>8 DEF Kept
  <1> HIDE DEF ctx
  <1>10. ctx \in Seq(Turns) /\ Len(ctx) = n /\ \A i \in 1 .. n : ctx[i] = s[m + 1 - n + i]
    <2>1. ctx \in Seq(Turns) /\ Len(ctx) = n /\ \A i \in 1 .. n : ctx[i] = s[Len(s) - n + i]
      <3>1. ctx = LastOf(s, n) /\ n \in 0 .. Len(s) /\ s \in Seq(Turns)
        BY <1>4, <1>6, <1>8, <1>9
      <3> QED
        BY ONLY <3>1, LastOfIs
    <2>2. Len(s) = m + 1
      BY <1>4
    <2> QED
      BY ONLY <1>9, <1>16, <2>1, <2>2
  <1>11. \A k \in 1 .. m + 1 : s[k] = whole[N - m + k]
    <2> SUFFICES ASSUME NEW k \in 1 .. m + 1 PROVE s[k] = whole[N - m + k]
      OBVIOUS
    <2>1. CASE k = m + 1
      <3>1. N - m + k = N + 1
        BY <1>16, <2>1
      <3> QED
        BY <1>4, <1>5, <2>1, <3>1
    <2>2. CASE k # m + 1
      <3>1. k \in 1 .. m /\ N - m + k \in 1 .. N
        BY <1>16, <2>2
      <3> QED
        BY <1>4, <1>5, <3>1
    <2> QED
      BY <2>1, <2>2
  <1>12. ctx = LastOf(whole, Len(ctx))
    <2> DEFINE tail == LastOf(whole, n)
    <2>1. tail \in Seq(Turns) /\ Len(tail) = n /\ \A i \in 1 .. n : tail[i] = whole[N + 1 - n + i]
      <3>1. tail \in Seq(Turns) /\ Len(tail) = n /\ \A i \in 1 .. n : tail[i] = whole[Len(whole) - n + i]
        BY <1>5, <1>9, LastOfIs
      <3>2. Len(whole) = N + 1
        BY <1>5
      <3> QED
        BY ONLY <1>9, <1>16, <3>1, <3>2
    <2> HIDE DEF tail
    <2>2. ASSUME NEW i \in 1 .. n PROVE ctx[i] = tail[i]
      <3>1. m + 1 - n + i \in 1 .. m + 1 /\ N - m + (m + 1 - n + i) = N + 1 - n + i
        BY <1>16, <1>9
      <3> QED
        BY <1>10, <1>11, <2>1, <3>1
    <2>3. ctx = tail
      BY <1>10, <2>1, <2>2
    <2> QED
      BY <1>10, <2>3 DEF tail
  <1>13. Cost(ctx) <= Budget \/ Len(ctx) = 1
    BY <1>6, <1>8, <1>10 DEF Kept
  <1>14. ASSUME n <= N, ~(n > MaxHistory)
         PROVE  Cost(ctx) + told[N - n + 1].cost > Budget
    <2>1. n <= m /\ n \in 1 .. Len(s) - 1 /\ n < Len(s)
      BY <1>1, <1>2, <1>16, <1>4, <1>9, <1>14 DEF N
    <2>2. Cost(LastOf(s, n + 1)) = s[Len(s) - n].cost + Cost(ctx)
      BY <1>4, <1>6, <1>8, <2>1, OneMoreTurn
    <2>3. Cost(LastOf(s, n + 1)) > Budget
      BY <1>8, <2>1 DEF Kept
    <2>4. s[Len(s) - n] = told[N - n + 1]
      <3>1. m + 1 - n \in 1 .. m /\ N - m + (m + 1 - n) = N - n + 1
        BY <1>16, <1>9, <2>1
      <3>2. Len(s) - n = m + 1 - n
        BY <1>4, <1>9, <1>16
      <3> QED
        BY <1>4, <3>1, <3>2
    <2>5. s[Len(s) - n].cost \in Int /\ Cost(ctx) \in Int
      <3>1. Len(s) - n \in 1 .. Len(s)
        BY <1>4, <1>9, <2>1, <1>2
      <3>2. s[Len(s) - n] \in Turns
        BY <1>4, <3>1
      <3>3. Cost(ctx) \in Int
        BY <1>4, <1>6, <1>8, <1>9, CostType
      <3> QED
        BY <3>2, <3>3 DEF Turns
    <2> QED
      BY <2>2, <2>3, <2>4, <2>5
  <1>15. Recent(ctx, told, q)
    BY <1>10, <1>12, <1>13, <1>14 DEF Recent, whole, N
  <1> QED
    BY <1>10, <1>15 DEF ctx

-----------------------------------------------------------------------------
(* The transcript.                                                         *)

\* Only a question is a user's, and only a completed bubble has an answer.
Roles(msgs) ==
    \A i \in DOMAIN msgs :
        /\ msgs[i].role = "user" => msgs[i].text \in Questions /\ msgs[i].status = "complete" /\ msgs[i].reply = None
        /\ msgs[i].reply # None => msgs[i].status = "complete"

Distinct(msgs, n) ==
    \A i \in DOMAIN msgs : msgs[i].id < n /\ \A j \in DOMAIN msgs : msgs[i].id = msgs[j].id => i = j

Sending(msgs) == {i \in DOMAIN msgs : msgs[i].status = "sending"}

Known == Backed \cup Echoes \cup Referenced

BackedToken(tok) == \E q \in Known : Candidates(tok) \cap AddValue(q) # {}

BackedReply(reply) == reply # None => \A tok \in reply.tokens : BackedToken(tok)

BackedAnswers(msgs) == \A i \in DOMAIN msgs : BackedReply(msgs[i].reply)

\* A transcript whose next bubble has the id n, with nothing under way.
Rested(msgs, n) ==
    /\ msgs \in Seq(Bubbles) /\ n \in Nat
    /\ Distinct(msgs, n) /\ Roles(msgs) /\ Sending(msgs) = {} /\ BackedAnswers(msgs)

Selected(msgs, I) == Only(msgs, I)

LEMMA SelectionOf ==
    ASSUME NEW msgs \in Seq(Bubbles), NEW I \in SUBSET DOMAIN msgs
    PROVE  /\ Selected(msgs, I) \in Seq(Bubbles) /\ DOMAIN Selected(msgs, I) = 1 .. Cardinality(I)
           /\ \A k \in 1 .. Cardinality(I) : Nth(I, k) \in I /\ Selected(msgs, I)[k] = msgs[Nth(I, k)]
           /\ \A m \in I : \E k \in 1 .. Cardinality(I) : Selected(msgs, I)[k] = msgs[m]
           /\ \A j, k \in 1 .. Cardinality(I) : Nth(I, j) = Nth(I, k) => j = k
  <1> PICK n \in Nat : n = Len(msgs)
    OBVIOUS
  <1>1. n \in Nat /\ (\A m \in I : m \in 1 .. n) /\ HasAt(msgs, I, Bubbles)
    BY DEF HasAt
  <1>2. /\ Only(msgs, I) \in Seq(Bubbles) /\ Len(Only(msgs, I)) = Cardinality(I)
        /\ \A k \in 1 .. Cardinality(I) : Nth(I, k) \in I /\ Only(msgs, I)[k] = msgs[Nth(I, k)]
        /\ \A m \in I : \E k \in 1 .. Cardinality(I) : Nth(I, k) = m
        /\ \A j, k \in 1 .. Cardinality(I) : Nth(I, j) = Nth(I, k) => j = k
    <2>1. Only(msgs, I) \in Seq(Bubbles) /\ Len(Only(msgs, I)) = Cardinality(I)
      BY <1>1, OnlyIs
    <2>2. \A k \in 1 .. Cardinality(I) : Only(msgs, I)[k] = msgs[Nth(I, k)]
      BY DEF Only
    <2>3. Placed(I)
      BY <1>1, OnlyIs
    <2> QED
      BY <2>1, <2>2, <2>3 DEF Placed
  <1>3. DOMAIN Only(msgs, I) = 1 .. Cardinality(I)
    BY <1>2
  <1>4. ASSUME NEW m \in I PROVE \E k \in 1 .. Cardinality(I) : Only(msgs, I)[k] = msgs[m]
    <2>1. PICK k \in 1 .. Cardinality(I) : Nth(I, k) = m
      BY <1>2
    <2> QED
      BY <1>2, <2>1
  <1> QED
    BY <1>2, <1>3, <1>4 DEF Selected

\* Taking bubbles out leaves a transcript, at rest if those under way go.
LEMMA SelectionRests ==
    ASSUME NEW msgs \in Seq(Bubbles), NEW n \in Nat, Distinct(msgs, n), Roles(msgs), BackedAnswers(msgs),
           NEW I \in SUBSET DOMAIN msgs, I \cap Sending(msgs) = {}
    PROVE  Rested(Selected(msgs, I), n)
  <1> DEFINE t == Selected(msgs, I)
             at(k) == Nth(I, k)
  <1>1. /\ t \in Seq(Bubbles) /\ DOMAIN t = 1 .. Cardinality(I)
        /\ \A k \in DOMAIN t : at(k) \in I /\ t[k] = msgs[at(k)]
        /\ \A j, k \in DOMAIN t : at(j) = at(k) => j = k
    <2>1. t \in Seq(Bubbles) /\ DOMAIN t = 1 .. Cardinality(I)
      BY SelectionOf
    <2>2. \A k \in 1 .. Cardinality(I) : at(k) \in I /\ t[k] = msgs[at(k)]
      BY SelectionOf
    <2>3. \A j, k \in 1 .. Cardinality(I) : at(j) = at(k) => j = k
      BY SelectionOf
    <2> HIDE DEF t, at
    <2> QED
      BY <2>1, <2>2, <2>3
  <1> HIDE DEF t, at
  <1>2. \A k \in DOMAIN t : at(k) \in DOMAIN msgs /\ t[k] = msgs[at(k)]
    BY <1>1
  <1>3. Distinct(t, n)
    BY <1>1, <1>2 DEF Distinct
  <1>4. Roles(t)
    BY <1>2 DEF Roles
  <1>5. Sending(t) = {}
    BY <1>1, <1>2 DEF Sending
  <1>6. BackedAnswers(t)
    BY <1>2 DEF BackedAnswers
  <1> QED
    BY <1>1, <1>3, <1>4, <1>5, <1>6 DEF Rested, t

TurnOf(q) == [text |-> q, cost |-> CostOf[q]]

LEMMA TurnIs ==
    ASSUME NEW q \in Questions
    PROVE  TurnOf(q) \in Turns
  BY DeskAssumption DEF DeskAssumption, TurnOf, Turns

\* What the server is told are turns.
LEMMA HistoryIs ==
    ASSUME NEW msgs \in Seq(Bubbles), Roles(msgs)
    PROVE  HistoryOf(msgs) \in Seq(Turns)
  <1> DEFINE I == {i \in DOMAIN msgs : msgs[i].status = "complete" /\ msgs[i].text # None}
             t == Selected(msgs, I)
             N == Cardinality(I)
             h == [i \in DOMAIN t |-> [text |-> t[i].text, cost |-> CostOfText(t[i])]]
  <1>1. HistoryOf(msgs) = h
    BY DEF HistoryOf, Selected
  <1>2. t \in Seq(Bubbles) /\ DOMAIN t = 1 .. N /\ \A k \in 1 .. N : Nth(I, k) \in I /\ t[k] = msgs[Nth(I, k)]
    BY SelectionOf
  <1> HIDE DEF t, N
  <1>3. ASSUME NEW k \in 1 .. N PROVE [text |-> t[k].text, cost |-> CostOfText(t[k])] \in Turns
    <2> PICK m : m = t[k]
      OBVIOUS
    <2>1. m \in Bubbles /\ m.text # None /\ (m.role = "user" => m.text \in Questions)
      <3>1. PICK i \in I : t[k] = msgs[i]
        BY <1>2
      <3>2. i \in DOMAIN msgs /\ msgs[i] \in Bubbles /\ msgs[i].text # None
        BY <3>1
      <3> QED
        BY <3>1, <3>2 DEF Roles
    <2>2. m.text \in Questions \cup {"answer"}
      BY <2>1 DEF Bubbles
    <2>3. CostOfText(m) \in Nat \ {0}
      BY <2>1, DeskAssumption DEF DeskAssumption, CostOfText
    <2> QED
      BY <2>2, <2>3 DEF Turns
  <1>4. h \in [1 .. N -> Turns]
    BY <1>2, <1>3
  <1>5. N \in Nat
    <2>1. Len(msgs) \in Nat /\ \A m \in I : m \in 1 .. Len(msgs)
      OBVIOUS
    <2> HIDE DEF I
    <2> QED
      BY <2>1, CountType DEF N
  <1> HIDE DEF h
  <1> QED
    BY <1>1, <1>4, <1>5, SeqDef

-----------------------------------------------------------------------------
(* The invariant.                                                          *)

\* What the request says is fit for the transcript.
Asking(msgs, req) ==
    LET idx == LastQuestion(msgs)
    IN  Recent(req.context, HistoryOf(Earlier(msgs, idx)), TurnOf(msgs[idx].text))

\* The outcome of a request is backed as an answer must be.
OutcomeBacked(req) == req.outcome # None => BackedReply(req.outcome.reply)

\* A transcript that ends in the placeholder of the request req.
Waiting(msgs, n, req) ==
    /\ msgs \in Seq(Bubbles) /\ n \in Nat /\ msgs # << >>
    /\ Distinct(msgs, n) /\ Roles(msgs) /\ BackedAnswers(msgs)
    /\ Sending(msgs) = {Len(msgs)} /\ msgs[Len(msgs)].id = req.bubble
    /\ req \in Requests /\ Asking(msgs, req) /\ OutcomeBacked(req)

IInv ==
    \/ busy = FALSE /\ request = None /\ Rested(messages, ids)
    \/ busy = TRUE /\ request # None /\ Waiting(messages, ids, request)

\* The invariant says what the checked properties say.
LEMMA InvariantSuffices == IInv => TypeOK /\ BusyIsSending /\ ContextIsRecent /\ GroundedIsBacked
  <1> SUFFICES ASSUME IInv PROVE TypeOK /\ BusyIsSending /\ ContextIsRecent /\ GroundedIsBacked
    OBVIOUS
  <1>1. /\ messages \in Seq(Bubbles) /\ ids \in Nat /\ busy \in BOOLEAN /\ request \in Requests \cup {None}
        /\ Distinct(messages, ids) /\ BackedAnswers(messages)
    BY DEF IInv, Rested, Waiting
  <1>2. TypeOK
    BY <1>1 DEF TypeOK, Distinct
  <1>3. BusyIsSending
    <2>1. (busy <=> request # None) /\ (~busy => Sending(messages) = {})
      BY DEF IInv, Rested
    <2>2. busy => Sending(messages) = {Len(messages)} /\ messages[Len(messages)].id = request.bubble
      BY DEF IInv, Waiting
    <2> QED
      BY <2>1, <2>2 DEF BusyIsSending, Sending
  <1>4. ContextIsRecent
    <2> SUFFICES ASSUME request # None PROVE Asking(messages, request)
      BY DEF ContextIsRecent, Asking, Recent, TurnOf, Earlier
    <2> QED
      BY DEF IInv, Waiting
  <1>5. GroundedIsBacked
    BY <1>1 DEF GroundedIsBacked, BackedAnswers, BackedReply, BackedToken, Known
  <1> QED
    BY <1>2, <1>3, <1>4, <1>5

LEMMA InvInit == Init => IInv
  <1> SUFFICES ASSUME Init PROVE Rested(<< >>, 0)
    BY DEF Init, IInv
  <1>1. << >> \in Seq(Bubbles) /\ DOMAIN << >> = {}
    OBVIOUS
  <1> QED
    BY <1>1 DEF Rested, Distinct, Roles, Sending, BackedAnswers

-----------------------------------------------------------------------------
(* Asking.                                                                 *)

\* The last question is the last bubble of a user.
LEMMA LastQuestionIs ==
    ASSUME NEW msgs \in Seq(Bubbles)
    PROVE  /\ LastQuestion(msgs) \in 0 .. Len(msgs)
           /\ LastQuestion(msgs) # 0 => msgs[LastQuestion(msgs)].role = "user"
           /\ \A i \in DOMAIN msgs : msgs[i].role = "user" => i <= LastQuestion(msgs)
  <1> DEFINE T == {0} \cup {i \in DOMAIN msgs : msgs[i].role = "user"}
  <1>1. T \in SUBSET (0 .. Len(msgs)) /\ T # {} /\ Len(msgs) \in Nat
    OBVIOUS
  <1>2. Max(T) \in T /\ \A m \in T : m <= Max(T)
    <2> HIDE DEF T
    <2> QED
      BY ONLY <1>1, LargestIsMax
  <1>3. LastQuestion(msgs) = Max(T)
    BY DEF LastQuestion
  <1> QED
    BY <1>1, <1>2, <1>3

LEMMA LastQuestionIsThat ==
    ASSUME NEW msgs \in Seq(Bubbles), NEW k \in 1 .. Len(msgs), msgs[k].role = "user",
           \A i \in k + 1 .. Len(msgs) : msgs[i].role # "user"
    PROVE  LastQuestion(msgs) = k
  <1>1. LastQuestion(msgs) \in 1 .. Len(msgs) /\ k <= LastQuestion(msgs) /\ msgs[LastQuestion(msgs)].role = "user"
    BY LastQuestionIs
  <1>2. ~(k < LastQuestion(msgs))
    BY <1>1
  <1> QED
    BY <1>1, <1>2

\* A question put after msgs is under way with what was said before it as its context.
LEMMA DispatchWaits ==
    ASSUME NEW msgs, NEW n, Rested(msgs, n), NEW idx \in 1 .. Len(msgs), idx = LastQuestion(msgs),
           Dispatch(msgs, msgs[idx].text, HistoryOf(Earlier(msgs, idx)), n)
    PROVE  Waiting(messages', n + 1, request')
  <1> DEFINE q == msgs[idx].text
             told == HistoryOf(Earlier(msgs, idx))
             new == Bubble(n, "assistant", "sending", None, None)
             all == messages'
  <1>1. /\ msgs \in Seq(Bubbles) /\ n \in Nat /\ Distinct(msgs, n) /\ Roles(msgs) /\ Sending(msgs) = {}
        /\ BackedAnswers(msgs) /\ Len(msgs) \in Nat
    BY DEF Rested
  <1>2. msgs[idx].role = "user" /\ q \in Questions
    <2>1. msgs[idx].role = "user" /\ idx \in DOMAIN msgs
      BY <1>1, LastQuestionIs
    <2> QED
      BY <1>1, <2>1 DEF Roles
  <1>3. new \in Bubbles
    BY <1>1 DEF Bubble, Bubbles
  <1>4. /\ all \in Seq(Bubbles) /\ Len(all) = Len(msgs) + 1 /\ all[Len(msgs) + 1] = new
        /\ DOMAIN all = 1 .. Len(msgs) + 1 /\ \A i \in 1 .. Len(msgs) : all[i] = msgs[i]
    <2>1. all = Append(msgs, new)
      BY DEF Dispatch
    <2> HIDE DEF new, all
    <2> QED
      BY <1>1, <1>3, <2>1
  <1>5. Earlier(msgs, idx) \in Seq(Bubbles) /\ Roles(Earlier(msgs, idx)) /\ Earlier(all, idx) = Earlier(msgs, idx)
    <2>1. Earlier(msgs, idx) = [i \in 1 .. idx - 1 |-> msgs[i]]
      BY <1>1 DEF Earlier
    <2>2. Earlier(all, idx) = [i \in 1 .. idx - 1 |-> all[i]]
      <3> HIDE DEF all
      <3> QED
        BY <1>4 DEF Earlier
    <2>3. \A i \in 1 .. idx - 1 : i \in 1 .. Len(msgs) /\ msgs[i] \in Bubbles /\ all[i] = msgs[i]
      BY <1>1, <1>4
    <2>4. Earlier(msgs, idx) \in [1 .. idx - 1 -> Bubbles] /\ idx - 1 \in Nat
      BY <1>1, <2>1, <2>3
    <2>5. Earlier(msgs, idx) \in Seq(Bubbles)
      BY <2>4, SeqDef
    <2>6. Roles(Earlier(msgs, idx))
      BY <1>1, <2>1, <2>3 DEF Roles
    <2> HIDE DEF all
    <2> QED
      BY <2>1, <2>2, <2>3, <2>5, <2>6
  <1>6. told \in Seq(Turns) /\ TurnOf(q) \in Turns
    BY <1>2, <1>5, HistoryIs, TurnIs
  <1>7. /\ request' = [bubble |-> n, question |-> q, history |-> told, turns |-> 0, results |-> << >>,
                        context |-> ContextOf(told, TurnOf(q)), outcome |-> None]
    BY DEF Dispatch, ContextOf, TurnOf
  <1> HIDE DEF told, q
  <1>8. ContextOf(told, TurnOf(q)) \in Seq(Turns) /\ Recent(ContextOf(told, TurnOf(q)), told, TurnOf(q))
    BY <1>6, ContextHolds
  <1>9. request' \in Requests /\ request'.outcome = None /\ request'.bubble = n
        /\ request'.context = ContextOf(told, TurnOf(q))
    <2>1. 0 \in 0 .. Iterations /\ << >> \in Seq(Results)
      BY DeskAssumption DEF DeskAssumption
    <2> QED
      BY <1>1, <1>2, <1>6, <1>7, <1>8, <2>1 DEF Requests
  <1> HIDE DEF all
  <1>10. new.id = n /\ new.role = "assistant" /\ new.status = "sending" /\ new.text = None /\ new.reply = None
    BY DEF Bubble, new
  <1> HIDE DEF new
  <1>11. LastQuestion(all) = idx
    <2>1. idx \in 1 .. Len(all) /\ all[idx].role = "user"
      BY <1>2, <1>4
    <2>2. ASSUME NEW i \in idx + 1 .. Len(all) PROVE all[i].role # "user"
      <3>1. CASE i = Len(msgs) + 1
        BY <1>4, <1>10, <3>1
      <3>2. CASE i # Len(msgs) + 1
        <4>1. i \in 1 .. Len(msgs) /\ i \in DOMAIN msgs /\ ~(i <= idx)
          BY <1>1, <1>4, <3>2
        <4> QED
          BY <1>1, <1>4, <4>1, LastQuestionIs
      <3> QED
        BY <3>1, <3>2
    <2> QED
      BY <1>4, <2>1, <2>2, LastQuestionIsThat
  <1>12. Asking(all, request')
    <2>1. all[idx].text = q
      BY <1>4 DEF q
    <2> QED
      BY <1>5, <1>8, <1>9, <1>11, <2>1 DEF Asking, told
  <1>13. OutcomeBacked(request')
    BY <1>9 DEF OutcomeBacked
  <1>14. \A i \in DOMAIN all : \/ i \in DOMAIN msgs /\ all[i] = msgs[i]
                               \/ i = Len(msgs) + 1 /\ all[i] = new
    <2> SUFFICES ASSUME NEW i \in 1 .. Len(msgs) + 1, i # Len(msgs) + 1 PROVE i \in 1 .. Len(msgs)
      BY <1>4
    <2> QED
      BY <1>1
  <1>15. Distinct(all, n + 1)
    <2>1. \A i \in DOMAIN msgs : msgs[i].id \in Nat /\ msgs[i].id < n
      <3>1. \A i \in DOMAIN msgs : msgs[i] \in Bubbles
        BY <1>1
      <3> QED
        BY <1>1, <3>1 DEF Distinct, Bubbles
    <2>2. \A i \in DOMAIN all : all[i].id < n + 1
      BY <1>1, <1>10, <1>14, <2>1
    <2>3. \A i, j \in DOMAIN all : all[i].id = all[j].id => i = j
      <3> SUFFICES ASSUME NEW i \in DOMAIN all, NEW j \in DOMAIN all, all[i].id = all[j].id PROVE i = j
        OBVIOUS
      <3>1. CASE all[i] = new /\ i = Len(msgs) + 1
        BY <1>1, <1>10, <1>14, <2>1, <3>1
      <3>2. CASE i \in DOMAIN msgs /\ all[i] = msgs[i]
        <4>1. j \in DOMAIN msgs /\ all[j] = msgs[j]
          BY <1>1, <1>10, <1>14, <2>1, <3>2
        <4> QED
          BY <1>1, <3>2, <4>1 DEF Distinct
      <3> QED
        BY <1>14, <3>1, <3>2
    <2> QED
      BY <2>2, <2>3 DEF Distinct
  <1>16. Roles(all) /\ BackedAnswers(all)
    <2>1. Roles(all)
      BY <1>1, <1>10, <1>14 DEF Roles
    <2>2. BackedAnswers(all)
      BY <1>1, <1>10, <1>14 DEF BackedAnswers, BackedReply
    <2> QED
      BY <2>1, <2>2
  <1>17. Sending(all) = {Len(all)}
    <2>1. \A i \in DOMAIN msgs : msgs[i].status # "sending"
      BY <1>1 DEF Sending
    <2>2. \A i \in DOMAIN all : all[i].status = "sending" <=> i = Len(msgs) + 1
      <3>1. Len(msgs) + 1 \notin DOMAIN msgs
        BY <1>1
      <3> QED
        BY <1>4, <1>10, <1>14, <2>1, <3>1
    <2>3. Len(msgs) + 1 \in DOMAIN all
      BY <1>1, <1>4
    <2> QED
      BY <1>4, <2>2, <2>3 DEF Sending
  <1>18. all # << >> /\ all[Len(all)].id = request'.bubble
    BY <1>1, <1>4, <1>9, <1>10
  <1> QED
    BY <1>1, <1>4, <1>9, <1>12, <1>13, <1>15, <1>16, <1>17, <1>18 DEF Waiting, all

LEMMA SendWaits ==
    ASSUME IInv, NEW q \in Questions, Send(q)
    PROVE  IInv'
  <1> DEFINE new == Bubble(ids, "user", "complete", q, None)
             msgs == Append(messages, new)
             idx == Len(messages) + 1
             n == ids + 1
  <1>1. Rested(messages, ids) /\ busy' = TRUE
    BY DEF IInv, Send, Dispatch
  <1>2. /\ messages \in Seq(Bubbles) /\ ids \in Nat /\ Distinct(messages, ids) /\ Roles(messages)
        /\ Sending(messages) = {} /\ BackedAnswers(messages) /\ Len(messages) \in Nat
    BY <1>1 DEF Rested
  <1>3. /\ new \in Bubbles /\ new.id = ids /\ new.role = "user" /\ new.status = "complete" /\ new.text = q
        /\ new.reply = None
    BY <1>2 DEF Bubble, Bubbles
  <1> HIDE DEF new
  <1>4. /\ msgs \in Seq(Bubbles) /\ Len(msgs) = idx /\ msgs[idx] = new /\ DOMAIN msgs = 1 .. idx
        /\ \A i \in 1 .. Len(messages) : msgs[i] = messages[i]
    BY <1>2, <1>3
  <1>5. Earlier(msgs, idx) = messages
    <2>1. idx - 1 = Len(messages)
      BY <1>2
    <2>2. Earlier(msgs, idx) = [i \in 1 .. Len(messages) |-> msgs[i]]
      <3> HIDE DEF msgs
      <3> QED
        BY <1>2, <1>4, <2>1 DEF Earlier
    <2> QED
      BY <1>2, <1>4, <2>2
  <1> HIDE DEF msgs
  <1>6. \A i \in DOMAIN msgs : \/ i \in DOMAIN messages /\ msgs[i] = messages[i]
                               \/ i = idx /\ msgs[i] = new
    <2>1. ASSUME NEW i \in 1 .. idx, i # idx PROVE i \in 1 .. Len(messages)
      BY <1>2, <2>1
    <2>2. DOMAIN messages = 1 .. Len(messages)
      BY <1>2
    <2> HIDE DEF idx
    <2> QED
      BY <1>4, <2>1, <2>2
  <1>7. Distinct(msgs, n)
    <2>1. \A i \in DOMAIN messages : messages[i].id \in Nat /\ messages[i].id < ids
      <3>1. \A i \in DOMAIN messages : messages[i] \in Bubbles
        BY <1>2
      <3> QED
        BY <1>2, <3>1 DEF Distinct, Bubbles
    <2>2. \A i \in DOMAIN msgs : msgs[i].id < n
      BY <1>2, <1>3, <1>6, <2>1
    <2>3. \A i, j \in DOMAIN msgs : msgs[i].id = msgs[j].id => i = j
      <3> SUFFICES ASSUME NEW i \in DOMAIN msgs, NEW j \in DOMAIN msgs, msgs[i].id = msgs[j].id PROVE i = j
        OBVIOUS
      <3>1. CASE i = idx /\ msgs[i] = new
        BY <1>2, <1>3, <1>6, <2>1, <3>1
      <3>2. CASE i \in DOMAIN messages /\ msgs[i] = messages[i]
        <4>1. j \in DOMAIN messages /\ msgs[j] = messages[j]
          BY <1>2, <1>3, <1>6, <2>1, <3>2
        <4> QED
          BY <1>2, <3>2, <4>1 DEF Distinct
      <3> QED
        BY <1>6, <3>1, <3>2
    <2> QED
      BY <2>2, <2>3 DEF Distinct
  <1>8. Roles(msgs)
    BY <1>2, <1>3, <1>6 DEF Roles
  <1>9. BackedAnswers(msgs)
    BY <1>2, <1>3, <1>6 DEF BackedAnswers, BackedReply
  <1>10. Sending(msgs) = {}
    BY <1>2, <1>3, <1>6 DEF Sending
  <1>11. Rested(msgs, n)
    BY <1>2, <1>4, <1>7, <1>8, <1>9, <1>10 DEF Rested
  <1>12. idx \in 1 .. Len(msgs) /\ idx = LastQuestion(msgs)
    <2>1. idx \in 1 .. Len(msgs) /\ idx + 1 .. Len(msgs) = {}
      BY <1>2, <1>4
    <2> QED
      BY <1>3, <1>4, <2>1, LastQuestionIsThat
  <1>13. Dispatch(msgs, msgs[idx].text, HistoryOf(Earlier(msgs, idx)), n)
    BY <1>3, <1>4, <1>5 DEF Send, msgs, new
  <1> HIDE DEF idx, n
  <1>14. Waiting(messages', n + 1, request')
    BY <1>11, <1>12, <1>13, DispatchWaits
  <1>15. ids' = n + 1
    BY <1>2 DEF Send, n
  <1>16. request' # None
    BY <1>14, NoneIsNothing DEF Waiting
  <1> QED
    BY <1>1, <1>14, <1>15, <1>16 DEF IInv

LEMMA RetryWaits ==
    ASSUME IInv, RetryLast
    PROVE  IInv'
  <1> DEFINE I == {i \in DOMAIN messages : messages[i].status # "error"}
             msgs == NoErrors(messages)
             idx == LastQuestion(msgs)
  <1>1. /\ Rested(messages, ids) /\ busy' = TRUE /\ ids' = ids + 1 /\ idx # 0
        /\ Dispatch(msgs, msgs[idx].text, HistoryOf(Earlier(msgs, idx)), ids)
    BY DEF IInv, RetryLast, Dispatch
  <1>2. msgs = Selected(messages, I)
    BY DEF NoErrors, Selected
  <1>3. Rested(msgs, ids)
    <2>1. I \in SUBSET DOMAIN messages /\ I \cap Sending(messages) = {}
      BY <1>1 DEF Rested
    <2> HIDE DEF I
    <2>2. Rested(Selected(messages, I), ids)
      BY <1>1, <2>1, SelectionRests DEF Rested
    <2> QED
      BY <1>2, <2>2
  <1> HIDE DEF msgs
  <1>4. idx \in 1 .. Len(msgs)
    <2>1. msgs \in Seq(Bubbles) /\ Len(msgs) \in Nat
      BY <1>3 DEF Rested
    <2> QED
      BY <1>1, <2>1, LastQuestionIs
  <1>5. Waiting(messages', ids + 1, request')
    <2> DEFINE k == LastQuestion(msgs)
    <2>1. k \in 1 .. Len(msgs) /\ k = LastQuestion(msgs)
      BY <1>4
    <2>2. Dispatch(msgs, msgs[k].text, HistoryOf(Earlier(msgs, k)), ids)
      BY <1>1
    <2> HIDE DEF k
    <2> QED
      BY <1>3, <2>1, <2>2, DispatchWaits
  <1>6. request' # None
    BY <1>5, NoneIsNothing DEF Waiting
  <1> QED
    BY <1>1, <1>5, <1>6 DEF IInv

-----------------------------------------------------------------------------
(* The request under way.                                                  *)

LEMMA RequestFields ==
    ASSUME NEW req \in Requests
    PROVE  /\ req.bubble \in Nat /\ req.question \in Questions /\ req.history \in Seq(Turns)
           /\ req.turns \in 0 .. Iterations /\ req.results \in Seq(Results) /\ req.context \in Seq(Turns)
           /\ req.outcome \in Outcomes \cup {None}
           /\ DOMAIN req = {"bubble", "question", "history", "turns", "results", "context", "outcome"}
  BY DEF Requests

\* What the server or an abort does to the request leaves the transcript waiting for it.
LEMMA StillWaits ==
    ASSUME IInv, Unsettled, UNCHANGED <<messages, busy, ids>>, request' \in Requests,
           request'.bubble = request.bubble, request'.context = request.context, OutcomeBacked(request')
    PROVE  IInv'
  <1>1. busy = TRUE /\ Waiting(messages, ids, request)
    BY DEF IInv, Unsettled
  <1>2. Asking(messages, request')
    BY <1>1 DEF Waiting, Asking
  <1>3. Waiting(messages, ids, request')
    BY <1>1, <1>2 DEF Waiting
  <1>4. request' # None
    BY NoneIsNothing
  <1> QED
    BY <1>1, <1>3, <1>4 DEF IInv

LEMMA SettledWaits ==
    ASSUME IInv, Unsettled, NEW how \in {"aborted", "failed", "answered"}, NEW reply \in Replies \cup {None},
           BackedReply(reply), Settled(how, reply)
    PROVE  IInv'
  <1> DEFINE outcome == [how |-> how, reply |-> reply]
  <1>1. request \in Requests
    BY DEF IInv, Unsettled, Waiting
  <1>2. outcome \in Outcomes /\ outcome.reply = reply
    BY DEF Outcomes
  <1>3. request' = [request EXCEPT !.outcome = outcome] /\ UNCHANGED <<messages, busy, ids>>
    BY DEF Settled
  <1> HIDE DEF outcome
  <1>4. /\ request' \in Requests /\ request'.bubble = request.bubble /\ request'.context = request.context
        /\ request'.outcome = outcome
    BY <1>1, <1>2, <1>3 DEF Requests
  <1>5. OutcomeBacked(request')
    BY <1>2, <1>4 DEF OutcomeBacked
  <1> QED
    BY <1>3, <1>4, <1>5, StillWaits

LEMMA CallWaits ==
    ASSUME IInv, NEW call \in Calls, CallTool(call)
    PROVE  IInv'
  <1>1. request \in Requests /\ OutcomeBacked(request) /\ Unsettled
    BY DEF IInv, Unsettled, Waiting, CallTool
  <1>2. request.turns + 1 \in 0 .. Iterations
    BY <1>1, RequestFields, DeskAssumption DEF DeskAssumption, CallTool
  <1>3. PICK result \in Returns(call) :
            request' = [request EXCEPT !.turns = @ + 1, !.results = Append(@, result)]
    BY DEF CallTool
  <1>4. result \in Results
    BY DEF Results
  <1>5. Append(request.results, result) \in Seq(Results)
    BY <1>1, <1>4, RequestFields
  <1>6. /\ request' \in Requests /\ request'.bubble = request.bubble /\ request'.context = request.context
        /\ request'.outcome = request.outcome
    BY <1>1, <1>2, <1>3, <1>5 DEF Requests
  <1>7. OutcomeBacked(request')
    BY <1>1, <1>6 DEF OutcomeBacked
  <1> QED
    BY <1>1, <1>6, <1>7, StillWaits DEF CallTool

-----------------------------------------------------------------------------
(* The outcome.                                                            *)

LEMMA PatchRests ==
    ASSUME Waiting(messages, ids, request), NEW status \in {"complete", "error"},
           NEW text \in {None, "answer"}, NEW reply \in Replies \cup {None}, BackedReply(reply),
           reply # None => status = "complete"
    PROVE  Rested(Patch(request.bubble, status, text, reply), ids)
  <1> DEFINE b == request.bubble
             after == Patch(b, status, text, reply)
             changed(m) == [m EXCEPT !.status = status, !.text = text, !.reply = reply]
             L == Len(messages)
  <1>1. /\ messages \in Seq(Bubbles) /\ ids \in Nat /\ Distinct(messages, ids) /\ Roles(messages)
        /\ BackedAnswers(messages) /\ Sending(messages) = {L} /\ messages[L].id = b /\ L \in Nat
    BY DEF Waiting
  <1>2. L \in DOMAIN messages /\ messages[L].status = "sending"
    BY <1>1 DEF Sending
  <1>3. \A i \in DOMAIN messages : messages[i] \in Bubbles
    BY <1>1
  <1>4. \A i \in DOMAIN messages : messages[i].id = b <=> i = L
    BY <1>1, <1>2 DEF Distinct
  <1>5. DOMAIN after = DOMAIN messages /\ \A i \in DOMAIN messages : after[i] = IF i = L THEN changed(messages[L]) ELSE messages[i]
    BY <1>4 DEF Patch
  <1>6. /\ changed(messages[L]) \in Bubbles /\ changed(messages[L]).id = b /\ changed(messages[L]).role = "assistant"
        /\ changed(messages[L]).status = status /\ changed(messages[L]).reply = reply
    <2>1. messages[L].role = "assistant"
      <3>1. messages[L].role # "user"
        BY <1>1, <1>2 DEF Roles
      <3> QED
        BY <1>2, <1>3, <3>1 DEF Bubbles
    <2> PICK m : m = messages[L]
      OBVIOUS
    <2>2. m \in Bubbles /\ m.role = "assistant" /\ m.id = b
      BY <1>1, <1>2, <1>3, <2>1
    <2>3. changed(m) \in Bubbles
      BY <2>2 DEF Bubbles
    <2> QED
      BY <2>2, <2>3 DEF Bubbles
  <1> HIDE DEF after, changed
  <1>7. after \in Seq(Bubbles)
    <2>1. \A i \in DOMAIN messages : after[i] \in Bubbles
      BY <1>3, <1>5, <1>6
    <2>2. DOMAIN messages = 1 .. L
      BY <1>1
    <2>3. after = [i \in 1 .. L |-> after[i]]
      BY <1>5, <2>2 DEF after, Patch
    <2>4. after \in [1 .. L -> Bubbles]
      BY <2>1, <2>2, <2>3
    <2> QED
      BY <1>1, <2>4, SeqDef
  <1>8. Distinct(after, ids)
    <2>1. \A i \in DOMAIN messages : after[i].id = messages[i].id
      BY <1>1, <1>5, <1>6
    <2> QED
      BY <1>1, <1>5, <2>1 DEF Distinct
  <1>9. Roles(after)
    BY <1>1, <1>5, <1>6 DEF Roles
  <1>10. Sending(after) = {}
    <2>1. ASSUME NEW i \in DOMAIN messages PROVE after[i].status # "sending"
      <3>1. i # L => messages[i].status # "sending"
        BY <1>1 DEF Sending
      <3> QED
        BY <1>5, <1>6, <3>1
    <2> QED
      BY <1>5, <2>1 DEF Sending
  <1>11. BackedAnswers(after)
    BY <1>1, <1>5, <1>6 DEF BackedAnswers
  <1> QED
    BY <1>1, <1>7, <1>8, <1>9, <1>10, <1>11 DEF Rested, after

LEMMA WithoutRests ==
    ASSUME Waiting(messages, ids, request)
    PROVE  Rested(Without(request.bubble), ids)
  <1> DEFINE I == {i \in DOMAIN messages : messages[i].id # request.bubble}
  <1>1. Sending(messages) = {Len(messages)} /\ messages[Len(messages)].id = request.bubble
    BY DEF Waiting
  <1>2. I \in SUBSET DOMAIN messages /\ I \cap Sending(messages) = {}
    BY <1>1
  <1>3. Without(request.bubble) = Selected(messages, I)
    BY DEF Without, Selected
  <1> HIDE DEF I
  <1>4. Rested(Selected(messages, I), ids)
    BY <1>2, SelectionRests DEF Waiting
  <1> QED
    BY <1>3, <1>4

LEMMA LandRests ==
    ASSUME IInv, Land
    PROVE  IInv'
  <1>1. Waiting(messages, ids, request) /\ request.outcome # None
    BY DEF IInv, Land, HasSettled
  <1>2. request \in Requests /\ OutcomeBacked(request)
    BY <1>1 DEF Waiting
  <1> DEFINE how == request.outcome.how
             reply == request.outcome.reply
  <1>3. how \in {"aborted", "failed", "answered"} /\ reply \in Replies \cup {None} /\ BackedReply(reply)
    BY <1>1, <1>2, RequestFields DEF Outcomes, OutcomeBacked
  <1>4. /\ how = "aborted" => messages' = Without(request.bubble)
        /\ how = "failed" => messages' = Patch(request.bubble, "error", None, None)
        /\ how = "answered" => messages' = Patch(request.bubble, "complete", "answer", reply)
    BY DEF Land
  <1> HIDE DEF how, reply
  <1>5. CASE how = "aborted"
    BY <1>1, <1>4, <1>5, WithoutRests DEF Land, IInv
  <1>6. CASE how = "failed"
    <2>1. Rested(Patch(request.bubble, "error", None, None), ids)
      BY <1>1, PatchRests DEF BackedReply
    <2> QED
      BY <1>4, <1>6, <2>1 DEF Land, IInv
  <1>7. CASE how = "answered"
    <2>1. Rested(Patch(request.bubble, "complete", "answer", reply), ids)
      BY <1>1, <1>3, PatchRests
    <2> QED
      BY <1>4, <1>7, <2>1 DEF Land, IInv
  <1> QED
    BY <1>3, <1>5, <1>6, <1>7

-----------------------------------------------------------------------------
(* What tools tell.                                                        *)

Tellable == UNION {AddValue(q) : q \in Known}

\* All that may be quoted of some leaves is backed.
Fine(leaves) == \A leaf \in leaves : leaf.keys \cap DenyKeys = {} => Told(leaf) \subseteq Tellable

LEMMA CollectsFine ==
    ASSUME NEW leaves, Fine(leaves)
    PROVE  Collect(leaves) \subseteq Tellable
  BY DEF Collect, Fine

LEMMA BackedIsTold ==
    ASSUME NEW q \in Known
    PROVE  AddValue(q) \subseteq Tellable /\ q \in Tellable
  BY DEF Tellable, AddValue

LEMMA NumIsFine ==
    ASSUME NEW n, n = None \/ n \in Backed
    PROVE  Fine(Num(n)) /\ Fine(NumOrNull(n)) /\ Fine(Text(n, {}))
  <1>1. Told(Leaf(n, {})) \subseteq Tellable
    BY BackedIsTold DEF Told, Leaf, Known
  <1>2. Fine({Leaf(n, {})})
    BY <1>1 DEF Fine
  <1>3. Fine({})
    BY DEF Fine
  <1> QED
    BY <1>2, <1>3 DEF Num, NumOrNull, Text

LEMMA WordsAreFine == Fine(Words) /\ Fine(Flag)
  <1>1. Fine(Text(None, {}))
    BY NumIsFine
  <1>2. Fine({})
    BY DEF Fine
  <1> QED
    BY <1>1, <1>2 DEF Words, Flag

LEMMA DateIsFine ==
    ASSUME NEW d, YearOf(d) \subseteq Backed
    PROVE  Fine(DateText(d))
  <1>1. CASE d = None
    BY <1>1 DEF DateText, Fine
  <1>2. CASE d # None
    <2> DEFINE leaf == Leaf(None, {d.y})
    <2>1. d.y * Unit \in Tellable
      BY <1>2, BackedIsTold DEF YearOf, Known
    <2>2. leaf.n = None /\ leaf.years = {d.y}
      BY DEF Leaf
    <2> HIDE DEF leaf
    <2>3. Told(leaf) = {y * Unit : y \in {d.y}}
      BY <2>2 DEF Told
    <2>4. Told(leaf) \subseteq Tellable
      BY <2>1, <2>3
    <2> QED
      BY <1>2, <2>4 DEF DateText, Text, Fine, leaf
  <1> QED
    BY <1>1, <1>2

LEMMA UnderIsFine ==
    ASSUME NEW leaves, NEW key, key \in DenyKeys \/ Fine(leaves)
    PROVE  Fine(Under(key, leaves))
  <1> SUFFICES ASSUME NEW leaf \in leaves, (leaf.keys \cup {key}) \cap DenyKeys = {}
               PROVE  Told([keys |-> leaf.keys \cup {key}, n |-> leaf.n, years |-> leaf.years]) \subseteq Tellable
    BY DEF Fine, Under
  <1>1. key \notin DenyKeys /\ leaf.keys \cap DenyKeys = {}
    OBVIOUS
  <1>2. Told(leaf) \subseteq Tellable
    BY <1>1 DEF Fine
  <1> QED
    BY <1>2 DEF Told

LEMMA DictIsFine ==
    ASSUME NEW fields, \A k \in DOMAIN fields : k \in DenyKeys \/ Fine(fields[k])
    PROVE  Fine(Dict(fields))
  <1>1. \A k \in DOMAIN fields : Fine(Under(k, fields[k]))
    BY UnderIsFine
  <1> QED
    BY <1>1 DEF Dict, Fine

Counted == 0 .. MostCounted

LEMMA CountsAreBacked ==
    ASSUME NEW n, n \in Counted \/ n \in Lengths
    PROVE  n * Unit \in Backed /\ Fine(Num(n * Unit))
  <1>1. n * Unit \in {k * Unit : k \in Counted \cup Lengths \cup {100}}
    OBVIOUS
  <1>2. n * Unit \in Backed
    BY <1>1 DEF Backed, Counts, Counted
  <1> QED
    BY <1>2, NumIsFine

IsList(items, n) == items \in [1 .. n -> {items[i] : i \in 1 .. n}]

LEMMA ListIsFine ==
    ASSUME NEW n \in Nat, n \in Counted \/ n \in Lengths, NEW items, IsList(items, n), \A i \in 1 .. n : Fine(items[i])
    PROVE  Fine(List(items))
  <1>1. n \in Nat
    OBVIOUS
  <1>2. items \in Seq({items[i] : i \in 1 .. n}) /\ Len(items) = n
    BY <1>1, SeqDef DEF IsList
  <1>3. DOMAIN items = 1 .. n
    BY DEF IsList
  <1>4. Fine(Num(Len(items) * Unit))
    BY <1>2, CountsAreBacked
  <1> QED
    BY <1>3, <1>4 DEF List, Fine

\* The ten phrases are finitely many.
LEMMA PhrasesAreFinite == IsFiniteSet(Phrases)
  <1> DEFINE f == <<"this_month", "last_month", "this_quarter", "last_quarter", "this_year",
                    "last_year", "ytd", "last_7_days", "last_30_days", "all_time">>
             I == 1 .. 10
  <1>1. IsFiniteSet(I)
    <2>1. 1 \in Int /\ 10 \in Int
      OBVIOUS
    <2> QED
      BY <2>1, FS_Interval
  <1>2. Phrases = {f[i] : i \in I}
    <2>1. Phrases \subseteq {f[i] : i \in I}
      <3> SUFFICES ASSUME NEW p \in Phrases PROVE \E i \in I : p = f[i]
        OBVIOUS
      <3>1. /\ f[1] = "this_month" /\ f[2] = "last_month" /\ f[3] = "this_quarter" /\ f[4] = "last_quarter"
            /\ f[5] = "this_year" /\ f[6] = "last_year" /\ f[7] = "ytd" /\ f[8] = "last_7_days"
            /\ f[9] = "last_30_days" /\ f[10] = "all_time"
        OBVIOUS
      <3> HIDE DEF f
      <3> QED
        BY <3>1 DEF Phrases
    <2>2. \A i \in I : f[i] \in Phrases
      BY DEF Phrases
    <2> QED
      BY <2>1, <2>2
  <1> DEFINE g == [i \in I |-> f[i]]
  <1>3. g \in Surjection(I, Phrases)
    <2> HIDE DEF f, I
    <2> QED
      BY <1>2 DEF Surjection
  <1> HIDE DEF f, I, g
  <1> QED
    BY <1>1, <1>3, FS_Surjection

LEMMA SixAdd ==
    ASSUME NEW a \in Nat, NEW b \in Nat, NEW c \in Nat, NEW d \in Nat, NEW e \in Nat, NEW f \in Nat
    PROVE  LET all == a + b + c + d + e + f
           IN  all \in Nat /\ a + b <= all /\ c <= all /\ d <= all /\ e <= all /\ f <= all
  OBVIOUS

LEMMA LedgerSizes ==
    /\ View.rows \in Seq(ToSet(View.rows)) /\ View.dead \in Seq(ToSet(View.dead)) /\ View.runs \in Seq(ToSet(View.runs))
    /\ Len(View.rows) \in Nat /\ Len(View.dead) \in Nat /\ Len(View.runs) \in Nat /\ MostCounted \in Nat
    /\ Len(View.rows) + Len(View.dead) <= MostCounted /\ Len(View.runs) <= MostCounted
    /\ Cardinality(View.vendors) \in Counted /\ Cardinality(Statuses) \in Counted /\ Cardinality(Phrases) \in Counted
  <1>1. /\ View.rows \in Seq(ToSet(View.rows)) /\ View.dead \in Seq(ToSet(View.dead))
        /\ View.runs \in Seq(ToSet(View.runs)) /\ IsFiniteSet(View.vendors) /\ IsFiniteSet(Statuses)
    BY AnswerAssumption DEF AnswerAssumption
  <1>2. Len(View.rows) \in Nat /\ Len(View.dead) \in Nat /\ Len(View.runs) \in Nat
    BY <1>1
  <1>3. Cardinality(View.vendors) \in Nat /\ Cardinality(Statuses) \in Nat /\ Cardinality(Phrases) \in Nat
    BY <1>1, PhrasesAreFinite, FS_CardinalityType
  <1>4. MostCounted = Len(View.rows) + Len(View.dead) + Len(View.runs) + Cardinality(View.vendors)
                          + Cardinality(Statuses) + Cardinality(Phrases)
    BY DEF MostCounted
  <1>5. /\ MostCounted \in Nat /\ Len(View.rows) + Len(View.dead) <= MostCounted /\ Len(View.runs) <= MostCounted
        /\ Cardinality(View.vendors) <= MostCounted /\ Cardinality(Statuses) <= MostCounted
        /\ Cardinality(Phrases) <= MostCounted
    BY ONLY <1>2, <1>3, <1>4, SixAdd
  <1> DEFINE v == Cardinality(View.vendors)
             t == Cardinality(Statuses)
             p == Cardinality(Phrases)
  <1>6. v \in Nat /\ t \in Nat /\ p \in Nat /\ v <= MostCounted /\ t <= MostCounted /\ p <= MostCounted
    BY <1>3, <1>5
  <1> HIDE DEF v, t, p
  <1>7. v \in Counted /\ t \in Counted /\ p \in Counted
    BY ONLY <1>5, <1>6 DEF Counted
  <1> QED
    BY <1>1, <1>2, <1>5, <1>7 DEF v, t, p

Columns == {"id", "invoice_number", "invoice_date", "total", "base_total", "confidence_overall", "status"}

LEMMA FieldsAreFine ==
    ASSUME NEW row \in ToSet(View.rows)
    PROVE  DOMAIN Fields(row) = Columns /\ \A k \in Columns : k \in DenyKeys \/ Fine(Fields(row)[k])
  <1>1. {row.total, row.base, row.confidence} \subseteq RowFigures /\ YearOf(row.date) \subseteq RowYears
    <2>1. {row.total, row.base, row.confidence} \subseteq RowFigures
      BY DEF RowFigures
    <2>2. YearOf(row.date) \subseteq RowYears
      BY DEF RowYears
    <2> QED
      BY <2>1, <2>2
  <1>2. /\ Fine(NumOrNull(row.total)) /\ Fine(NumOrNull(row.base)) /\ Fine(NumOrNull(row.confidence))
        /\ Fine(DateText(row.date)) /\ Fine(Words)
    <2>1. \A n \in {row.total, row.base, row.confidence} : n = None \/ n \in Backed
      BY <1>1 DEF Backed
    <2>2. YearOf(row.date) \subseteq Backed
      BY <1>1 DEF Backed
    <2> QED
      BY <2>1, <2>2, NumIsFine, DateIsFine, WordsAreFine
  <1>3. "id" \in DenyKeys /\ "invoice_number" \in DenyKeys
    BY DEF DenyKeys
  <1> QED
    BY <1>2, <1>3 DEF Fields, Columns

\* Some rows of the ledger, no more than it has.
IsRows(s) == s \in Seq(ToSet(View.rows)) /\ Len(s) <= Len(View.rows)

LEMMA RowsAt ==
    ASSUME NEW I \in SUBSET DOMAIN View.rows
    PROVE  IsRows(Only(View.rows, I)) /\ Len(Only(View.rows, I)) = Cardinality(I) /\ IsFiniteSet(I)
  <1> DEFINE n == Len(View.rows)
             X == ToSet(View.rows)
  <1>1. View.rows \in Seq(X) /\ n \in Nat
    BY LedgerSizes
  <1>2. \A m \in I : m \in 1 .. n
    BY <1>1
  <1>3. HasAt(View.rows, I, X)
    BY DEF HasAt, ToSet
  <1> HIDE DEF n, X
  <1>4. Only(View.rows, I) \in Seq(X) /\ Len(Only(View.rows, I)) = Cardinality(I) /\ Cardinality(I) \in 0 .. n
    BY <1>1, <1>2, <1>3, OnlyIs
  <1>5. IsFiniteSet(I)
    BY <1>1, <1>2, CountType
  <1> QED
    BY <1>1, <1>4, <1>5 DEF IsRows, n, X

LEMMA PageIs ==
    ASSUME NEW X, NEW s \in Seq(X), NEW limit \in Nat
    PROVE  Page(s, limit) \in Seq(X) /\ Len(Page(s, limit)) \in 0 .. Len(s)
  <1> DEFINE n == Min({limit, Len(s)})
  <1>1. n \in 0 .. Len(s)
    <2>1. Len(s) \in Nat /\ n = IF limit <= Len(s) THEN limit ELSE Len(s)
      BY OfTwo
    <2> QED
      BY <2>1
  <1> HIDE DEF n
  <1> DEFINE t == SubSeq(s, 1, n)
  <1>2. t = [i \in 1 .. n |-> s[i]]
    BY <1>1
  <1>3. \A i \in 1 .. n : s[i] \in X
    BY <1>1
  <1> HIDE DEF t
  <1>4. t \in [1 .. n -> X] /\ n \in Nat
    BY <1>1, <1>2, <1>3
  <1>5. t \in Seq(X) /\ Len(t) = n
    BY <1>4, SeqDef
  <1> QED
    BY <1>1, <1>5 DEF Page, n, t

LEMMA ClampIs ==
    ASSUME NEW limit \in Int \cup {None}, NEW default \in Nat, NEW cap \in Nat
    PROVE  Clamp(limit, default, cap) \in Nat
  <1>1. ASSUME NEW k \in Int PROVE Max({1, Min({k, cap})}) \in Nat
    <2>1. Min({k, cap}) \in Int
      BY OfTwo
    <2> PICK m \in Int : m = Min({k, cap})
      BY <2>1
    <2>2. Max({1, m}) \in Nat
      BY OfTwo
    <2> QED
      BY <2>2
  <1>2. default \in Int
    OBVIOUS
  <1> QED
    BY <1>1, <1>2, NoneIsNothing DEF Clamp

LEMMA LeanIsFine ==
    ASSUME NEW s, IsRows(s), NEW keys \in SUBSET Columns
    PROVE  Fine(Lean(s, keys)) /\ Len(s) \in Counted
  <1> DEFINE n == Len(s)
             all == keys \cup {"id", "invoice_number", "total", "status"}
             items == [i \in DOMAIN s |-> Dict([k \in all |-> Fields(s[i])[k]])]
  <1>1. s \in Seq(ToSet(View.rows)) /\ n \in Counted /\ DOMAIN s = 1 .. n
    <2>1. s \in Seq(ToSet(View.rows)) /\ n <= Len(View.rows)
      BY DEF IsRows
    <2> PICK a \in Nat, b \in Nat, c \in Nat : a = Len(View.rows) /\ b = Len(View.dead) /\ c = MostCounted
      BY LedgerSizes
    <2>2. a + b <= c
      BY LedgerSizes
    <2>3. n \in Nat /\ DOMAIN s = 1 .. n
      BY <2>1
    <2> HIDE DEF n
    <2>4. n \in Counted
      <3>1. n <= a
        BY <2>1
      <3>4. a \in Nat /\ b \in Nat /\ c \in Nat /\ n \in Nat
        BY <2>3
      <3>2. n <= c /\ c \in Nat
        BY ONLY <2>2, <3>1, <3>4
      <3>3. n \in 0 .. c
        BY <2>3, <3>2
      <3> QED
        BY <3>3 DEF Counted
    <2> QED
      BY <2>1, <2>3, <2>4
  <1>2. all \in SUBSET Columns
    BY DEF Columns
  <1>3. Lean(s, keys) = List(items)
    BY DEF Lean
  <1> HIDE DEF all
  <1>4. ASSUME NEW i \in 1 .. n PROVE Fine(items[i])
    <2> DEFINE fields == [k \in all |-> Fields(s[i])[k]]
    <2>1. s[i] \in ToSet(View.rows)
      BY <1>1
    <2>2. \A k \in DOMAIN fields : k \in DenyKeys \/ Fine(fields[k])
      BY <1>2, <2>1, FieldsAreFine
    <2> HIDE DEF fields
    <2>3. Fine(Dict(fields))
      BY <2>2, DictIsFine
    <2> QED
      BY <1>1, <2>3 DEF fields
  <1>5. IsList(items, n)
    BY <1>1 DEF IsList
  <1> HIDE DEF items, n
  <1>6. n \in Nat
    BY <1>1 DEF Counted
  <1>7. Fine(List(items))
    BY <1>1, <1>4, <1>5, <1>6, ListIsFine
  <1> QED
    BY <1>1, <1>3, <1>7 DEF n

LEMMA CountIsFine ==
    ASSUME NEW s, Len(s) \in Counted
    PROVE  Fine(Count(s))
  BY CountsAreBacked DEF Count

\* A list that says nothing but its length.
LEMMA WordsList ==
    ASSUME NEW n \in Counted
    PROVE  Fine(List([i \in 1 .. n |-> Words]))
  <1> DEFINE items == [i \in 1 .. n |-> Words]
  <1>1. IsList(items, n) /\ \A i \in 1 .. n : Fine(items[i])
    BY WordsAreFine DEF IsList
  <1> HIDE DEF items
  <1>2. n \in Nat
    BY DEF Counted
  <1>3. Fine(List(items))
    BY <1>1, <1>2, ListIsFine
  <1> QED
    BY <1>3 DEF items

\* Sizes up to that of the ledger are among those counted.
LEMMA UpToLedger ==
    ASSUME NEW n \in Nat, n <= Len(View.rows) \/ n <= Len(View.dead) \/ n <= Len(View.runs)
                              \/ n <= Len(View.rows) + Len(View.dead)
    PROVE  n \in Counted
  <1> PICK a \in Nat, b \in Nat, c \in Nat, d \in Nat :
              a = Len(View.rows) /\ b = Len(View.dead) /\ c = MostCounted /\ d = Len(View.runs)
    BY LedgerSizes
  <1>1. a + b <= c /\ d <= c
    BY LedgerSizes
  <1>2. a \in Nat /\ b \in Nat /\ c \in Nat /\ d \in Nat /\ n \in Nat
    OBVIOUS
  <1>3. n <= a \/ n <= b \/ n <= d \/ n <= a + b
    OBVIOUS
  <1>4. n \in 0 .. c
    BY ONLY <1>1, <1>2, <1>3
  <1> QED
    BY <1>4 DEF Counted

\* Numbers and years of the leaves an entry shows are backed, those of the rest are referred to.
LEMMA ShownIsKnown ==
    ASSUME NEW entry \in Noted, NEW leaf \in Unnamed(entry)
    PROVE  /\ leaf.n # None => leaf.n \in Known
           /\ \A y \in leaf.years : y * Unit \in Known
  <1>1. CASE Refers(leaf)
    <2> DEFINE all == {Unnamed(e) : e \in Noted}
    <2>1. leaf \in UNION all
      <3>1. Unnamed(entry) \in all
        OBVIOUS
      <3> HIDE DEF all
      <3> QED
        BY <3>1
    <2>2. leaf \in Referring
      BY <1>1, <2>1 DEF Referring
    <2>3. \A y \in leaf.years : y \in UNION {l.years : l \in Referring}
      BY <2>2
    <2> QED
      BY <2>2, <2>3 DEF Referenced, Known
  <1>2. CASE ~Refers(leaf)
    <2>1. leaf \in Shown(entry)
      BY <1>2 DEF Shown
    <2>2. leaf.n \in NotedFigures
      <3> DEFINE shown == {l.n : l \in Shown(entry)}
                 all == {{l.n : l \in Shown(e)} : e \in Noted}
      <3>1. leaf.n \in shown /\ shown \in all
        BY <2>1
      <3>2. leaf.n \in UNION all
        <4> HIDE DEF shown, all
        <4> QED
          BY <3>1
      <3> QED
        BY <3>2 DEF NotedFigures
    <2>3. ASSUME NEW y \in leaf.years PROVE y * Unit \in NotedYears
      <3>1. y \in UNION {l.years : l \in Shown(entry)}
        BY <2>1
      <3> DEFINE shown == {z * Unit : z \in UNION {l.years : l \in Shown(entry)}}
                 all == {{z * Unit : z \in UNION {l.years : l \in Shown(e)}} : e \in Noted}
      <3>2. y * Unit \in shown /\ shown \in all
        BY <2>1, <3>1
      <3>3. y * Unit \in UNION all
        <4> HIDE DEF shown, all
        <4> QED
          BY <3>2
      <3> QED
        BY <3>3 DEF NotedYears
    <2> QED
      BY <2>2, <2>3 DEF Backed, Known
  <1> QED
    BY <1>1, <1>2

\* So whatever is told of an entry is backed.
LEMMA PartIsFine ==
    ASSUME NEW entry \in Noted, NEW k \in DOMAIN entry, k \notin DenyKeys
    PROVE  Fine(entry[k])
  <1> SUFFICES ASSUME NEW leaf \in entry[k], leaf.keys \cap DenyKeys = {} PROVE Told(leaf) \subseteq Tellable
    BY DEF Fine
  <1>1. leaf \in Unnamed(entry)
    BY DEF Unnamed
  <1>2. /\ leaf.n # None => leaf.n \in Known
        /\ \A y \in leaf.years : y * Unit \in Known
    BY <1>1, ShownIsKnown
  <1>3. leaf.n # None => AddValue(leaf.n) \subseteq Tellable
    BY <1>2, BackedIsTold
  <1>4. \A y \in leaf.years : y * Unit \in Tellable
    BY <1>2, BackedIsTold
  <1> QED
    BY <1>3, <1>4 DEF Told

LEMMA EntriesAreFine ==
    ASSUME NEW X \in SUBSET Noted, NEW s \in Seq(X), Len(s) \in Counted, NEW keys, \A entry \in X : keys \subseteq DOMAIN entry
    PROVE  Fine(Entries(s, keys))
  <1> DEFINE n == Len(s)
             items == [i \in DOMAIN s |-> Dict([k \in keys |-> s[i][k]])]
  <1>1. Entries(s, keys) = List(items)
    BY DEF Entries
  <1>2. ASSUME NEW i \in 1 .. n PROVE Fine(items[i])
    <2> DEFINE fields == [k \in keys |-> s[i][k]]
    <2>1. s[i] \in X /\ s[i] \in Noted
      OBVIOUS
    <2>2. \A k \in DOMAIN fields : k \in DenyKeys \/ Fine(fields[k])
      BY <2>1, PartIsFine
    <2> HIDE DEF fields
    <2>3. Fine(Dict(fields))
      BY <2>2, DictIsFine
    <2> QED
      BY <2>3 DEF fields
  <1>3. IsList(items, n) /\ n \in Counted /\ n \in Nat
    <2>1. DOMAIN s = 1 .. n /\ DOMAIN items = DOMAIN s
      OBVIOUS
    <2> QED
      BY <2>1 DEF IsList
  <1> HIDE DEF items, n
  <1>4. Fine(List(items))
    BY <1>2, <1>3, ListIsFine
  <1> QED
    BY <1>1, <1>4

\* The parts of a row are among what is noted.
LEMMA PartsAreNoted ==
    ASSUME NEW row \in ToSet(View.rows)
    PROVE  /\ row.columns \in Noted
           /\ \A list \in Lists(row) : ToSet(list) \subseteq Noted /\ list \in Seq(ToSet(list)) /\ Len(list) \in Lengths
  <1> DEFINE all == {Parts(r) : r \in ToSet(View.rows)}
  <1>1. Parts(row) \subseteq UNION all
    <2>1. Parts(row) \in all
      OBVIOUS
    <2> HIDE DEF all
    <2> QED
      BY <2>1
  <1>2. Parts(row) \subseteq Noted
    BY <1>1 DEF Noted
  <1>3. row.columns \in Parts(row)
    BY DEF Parts
  <1>4. ASSUME NEW list \in Lists(row)
        PROVE  ToSet(list) \subseteq Noted /\ list \in Seq(ToSet(list)) /\ Len(list) \in Lengths
    <2> DEFINE sets == {ToSet(l) : l \in Lists(row)}
    <2>1. ToSet(list) \subseteq UNION sets
      <3>1. ToSet(list) \in sets
        OBVIOUS
      <3> HIDE DEF sets
      <3> QED
        BY <3>1
    <2>2. ToSet(list) \subseteq Parts(row)
      BY <2>1 DEF Parts
    <2>3. list \in Seq(ToSet(list))
      BY AnswerAssumption DEF AnswerAssumption, Lists
    <2>4. Len(list) \in Lengths
      <3> DEFINE lens == {Len(l) : l \in Lists(row)}
                 every == {{Len(l) : l \in Lists(r)} : r \in ToSet(View.rows)}
      <3>1. Len(list) \in lens /\ lens \in every
        OBVIOUS
      <3>2. Len(list) \in UNION every
        <4> HIDE DEF lens, every
        <4> QED
          BY <3>1
      <3> QED
        BY <3>2 DEF Lengths
    <2> QED
      BY <1>2, <2>2, <2>3, <2>4
  <1> QED
    BY <1>2, <1>3, <1>4

LEMMA AllAreFine ==
    ASSUME NEW row \in ToSet(View.rows), NEW list \in Lists(row)
    PROVE  Fine(All(list))
  <1> DEFINE X == ToSet(list)
             n == Len(list)
             items == [i \in DOMAIN list |-> Dict(list[i])]
  <1>1. X \in SUBSET Noted /\ list \in Seq(X) /\ n \in Lengths
    BY PartsAreNoted
  <1>2. All(list) = List(items)
    BY DEF All
  <1> HIDE DEF X
  <1>3. n \in Nat /\ DOMAIN list = 1 .. n /\ \A i \in 1 .. n : list[i] \in X
    BY <1>1
  <1>4. ASSUME NEW i \in 1 .. n PROVE Fine(items[i])
    <2>1. list[i] \in Noted
      BY <1>1, <1>3
    <2>2. \A k \in DOMAIN list[i] : k \in DenyKeys \/ Fine(list[i][k])
      BY <2>1, PartIsFine
    <2>3. Fine(Dict(list[i]))
      BY <2>2, DictIsFine
    <2> QED
      BY <1>3, <2>3
  <1>5. IsList(items, n)
    BY <1>3 DEF IsList
  <1> HIDE DEF items, n
  <1>6. Fine(List(items))
    BY <1>1, <1>3, <1>4, <1>5, ListIsFine
  <1> QED
    BY <1>2, <1>6

LEMMA NotedEntries ==
    /\ ToSet(View.dead) \in SUBSET Noted /\ ToSet(View.runs) \in SUBSET Noted
    /\ \A entry \in ToSet(View.dead) : DeadFields \subseteq DOMAIN entry
    /\ \A entry \in ToSet(View.runs) : RunFields \subseteq DOMAIN entry
    /\ Len(View.dead) \in Counted
  <1>1. Len(View.dead) \in Counted
    <2> PICK b \in Nat : b = Len(View.dead)
      BY LedgerSizes
    <2>1. b <= Len(View.dead)
      OBVIOUS
    <2> QED
      BY <2>1, UpToLedger
  <1> QED
    BY <1>1, AnswerAssumption DEF AnswerAssumption, Noted

LEMMA YearsAsked ==
    ASSUME NEW p \in Asked
    PROVE  YearOf(p.from) \cup YearOf(p.to) \subseteq AskedYears
  <1> DEFINE all == {YearOf(r.from) \cup YearOf(r.to) : r \in Asked}
  <1>1. YearOf(p.from) \cup YearOf(p.to) \in all
    OBVIOUS
  <1>2. UNION all = AskedYears
    BY DEF AskedYears
  <1> HIDE DEF all
  <1> QED
    BY <1>1, <1>2

\* The figures of the summary of a period some call may ask for, ...
LEMMA SummaryIsFine ==
    ASSUME NEW p \in Asked
    PROVE  Fine(ExpenseSummary(p).value)
  <1> DEFINE R == SummaryRows(View.rows, p)
             sum == Summary(R)
             fields == [total_spend |-> Num(sum.spend), invoices_counted |-> Num(sum.counted * Unit),
                        credits_total |-> Num(sum.credits), pending_review_excluded |-> Num(sum.pending),
                        needs_review_count |-> Num(sum.review * Unit),
                        by_category |-> Amounts(sum.byCategory), by_vendor |-> Amounts(sum.byVendor),
                        date_from |-> DateText(p.from), date_to |-> DateText(p.to)]
  <1>1. ExpenseSummary(p).value = Dict(fields)
    BY DEF ExpenseSummary, Result, Answered
  <1>2. SummaryFigures(p) \subseteq AskedFigures
    <2> DEFINE all == {SummaryFigures(r) : r \in Asked}
    <2>1. SummaryFigures(p) \in all
      OBVIOUS
    <2>2. SummaryFigures(p) \subseteq UNION all
      <3> HIDE DEF all
      <3> QED
        BY <2>1
    <2> QED
      BY <2>2 DEF AskedFigures
  <1>3. SummaryFigures(p) = {sum.spend, sum.credits, sum.pending} \cup {sum.byCategory[c] : c \in DOMAIN sum.byCategory}
                                \cup {sum.byVendor[v] : v \in DOMAIN sum.byVendor}
    BY DEF SummaryFigures
  <1>4. sum.counted \in Counted /\ sum.review \in Counted
    <2> DEFINE spent == {i \in DOMAIN R : Bucket(R[i]) = "spend"}
               pending == {i \in DOMAIN R : Bucket(R[i]) = "pending"}
               review == {i \in pending : R[i].status = "needs_review"}
    <2>1. sum.counted = Cardinality(spent) /\ sum.review = Cardinality(review)
      BY DEF Summary
    <2>2. spent \in SUBSET DOMAIN View.rows /\ review \in SUBSET DOMAIN View.rows
      BY DEF SummaryRows, Restrict
    <2> HIDE DEF spent, review
    <2>3. ASSUME NEW I \in SUBSET DOMAIN View.rows PROVE Cardinality(I) \in Counted
      <3>1. IsRows(Only(View.rows, I)) /\ Len(Only(View.rows, I)) = Cardinality(I) /\ IsFiniteSet(I)
        BY RowsAt
      <3>2. Cardinality(I) <= Len(View.rows) /\ Cardinality(I) \in Nat
        BY <3>1, FS_CardinalityType DEF IsRows
      <3> QED
        BY <3>2, UpToLedger
    <2> QED
      BY <2>1, <2>2, <2>3
  <1> HIDE DEF sum
  <1>5. \A n \in SummaryFigures(p) : n = None \/ n \in Backed
    BY <1>2 DEF Backed
  <1>6. Fine(Num(sum.spend)) /\ Fine(Num(sum.credits)) /\ Fine(Num(sum.pending))
    BY <1>3, <1>5, NumIsFine
  <1>7. Fine(Num(sum.counted * Unit)) /\ Fine(Num(sum.review * Unit))
    BY <1>4, CountsAreBacked
  <1>8. ASSUME NEW by, \A k \in DOMAIN by : by[k] \in SummaryFigures(p)
        PROVE  Fine(Amounts(by))
    <2> DEFINE amounts == [k \in DOMAIN by |-> Num(by[k])]
    <2>1. \A k \in DOMAIN amounts : k \in DenyKeys \/ Fine(amounts[k])
      BY <1>5, <1>8, NumIsFine
    <2> HIDE DEF amounts
    <2>2. Fine(Dict(amounts))
      BY <2>1, DictIsFine
    <2> QED
      BY <2>2 DEF Amounts, amounts
  <1>9. Fine(Amounts(sum.byCategory)) /\ Fine(Amounts(sum.byVendor))
    BY <1>3, <1>8
  <1>10. Fine(DateText(p.from)) /\ Fine(DateText(p.to))
    <2>1. YearOf(p.from) \cup YearOf(p.to) \subseteq AskedYears
      BY YearsAsked
    <2> QED
      BY <2>1, DateIsFine DEF Backed
  <1>11. \A k \in DOMAIN fields : k \in DenyKeys \/ Fine(fields[k])
    BY <1>6, <1>7, <1>9, <1>10
  <1> HIDE DEF fields
  <1>12. Fine(Dict(fields))
    BY <1>11, DictIsFine
  <1> QED
    BY <1>1, <1>12

\* ... a page of invoices, ...
LEMMA InvoicesAreFine ==
    ASSUME NEW s, IsRows(s), NEW limit \in Nat, NEW keys \in SUBSET Columns
    PROVE  /\ DOMAIN Invoices(s, limit, keys) = {"invoices", "count", "truncated"}
           /\ \A k \in {"invoices", "count", "truncated"} : Fine(Invoices(s, limit, keys)[k])
  <1> DEFINE page == Page(s, limit)
  <1>1. IsRows(page)
    <2> DEFINE X == ToSet(View.rows)
    <2>1. s \in Seq(X) /\ Len(s) <= Len(View.rows) /\ Len(View.rows) \in Nat
      BY LedgerSizes DEF IsRows
    <2> HIDE DEF X
    <2>2. page \in Seq(X) /\ Len(page) \in 0 .. Len(s) /\ Len(s) \in Nat
      BY <2>1, PageIs
    <2> HIDE DEF page
    <2>3. Len(page) <= Len(View.rows)
      BY <2>1, <2>2
    <2> QED
      BY <2>2, <2>3 DEF IsRows, X
  <1> HIDE DEF page
  <1>2. Fine(Lean(page, keys)) /\ Fine(Count(page)) /\ Fine(Flag)
    BY <1>1, LeanIsFine, CountIsFine, WordsAreFine
  <1> QED
    BY <1>2 DEF Invoices, page

\* ... and each kind of result are backed.
LEMMA ResultIsFine ==
    ASSUME NEW src, NEW fields, \A k \in DOMAIN fields : k \in DenyKeys \/ Fine(fields[k])
    PROVE  Fine(Result(src, fields).value)
  BY DictIsFine DEF Result, Answered

LEMMA ErrorIsFine ==
    ASSUME NEW src, NEW fields, \A k \in DOMAIN fields : k \in DenyKeys \/ Fine(fields[k])
    PROVE  Fine(Error(src, fields).value)
  <1>1. Error(src, fields).value = Result(src, fields).value
    BY DEF Error, Result, Answered
  <1> QED
    BY <1>1, ResultIsFine

\* Words that are repeated are told as such.
LEMMA RepeatedIsFine ==
    ASSUME NEW call \in Repeating
    PROVE  Fine(call.words)
  <1> SUFFICES ASSUME NEW leaf \in call.words PROVE Told(leaf) \subseteq Tellable
    BY DEF Fine
  <1>1. leaf \in Repeated
    BY DEF Repeated
  <1>2. CASE leaf.n # None
    <2>1. leaf.n \in Known
      BY <1>1, <1>2 DEF Known, Echoes
    <2> QED
      BY <1>2, <2>1, BackedIsTold DEF Told
  <1>3. CASE leaf.n = None
    <2>1. ASSUME NEW y \in leaf.years PROVE y * Unit \in Tellable
      <3>1. y \in UNION {l.years : l \in Repeated}
        BY <1>1
      <3>2. y * Unit \in Known
        BY <3>1 DEF Known, Echoes
      <3> QED
        BY <3>2, BackedIsTold
    <2> QED
      BY <1>3, <2>1 DEF Told
  <1> QED
    BY <1>2, <1>3

LEMMA FailedIsFine ==
    ASSUME NEW src
    PROVE  Fine(Failed(src).value)
  <1> DEFINE fields == [error |-> Words]
  <1>1. \A k \in DOMAIN fields : k \in DenyKeys \/ Fine(fields[k])
    BY WordsAreFine
  <1> HIDE DEF fields
  <1>2. Fine(Error(src, fields).value)
    BY <1>1, ErrorIsFine
  <1> QED
    BY <1>2 DEF Failed, fields

LEMMA RefusedIsFine ==
    ASSUME NEW src, NEW allowed, Cardinality(allowed) \in Counted
    PROVE  Fine(Refused(src, allowed).value)
  <1> DEFINE fields == [error |-> Words, allowed |-> List([i \in 1 .. Cardinality(allowed) |-> Words])]
  <1>1. Fine(List([i \in 1 .. Cardinality(allowed) |-> Words])) /\ Fine(Words)
    BY WordsList, WordsAreFine
  <1>2. \A k \in DOMAIN fields : k \in DenyKeys \/ Fine(fields[k])
    BY <1>1
  <1> HIDE DEF fields
  <1>3. Fine(Error(src, fields).value)
    BY <1>2, ErrorIsFine
  <1> QED
    BY <1>3 DEF Refused, fields

LEMMA PeriodIsFine ==
    ASSUME NEW p \in Asked
    PROVE  Fine(DateText(p.from)) /\ Fine(DateText(p.to))
  <1>1. YearOf(p.from) \cup YearOf(p.to) \subseteq AskedYears
    BY YearsAsked
  <1> QED
    BY <1>1, DateIsFine DEF Backed

LEMMA DateRangeIsFine ==
    ASSUME NEW call \in Calls, call.tool = "resolve_date_range"
    PROVE  Fine(Execute(call).value)
  <1> DEFINE r == Resolved(call.phrase, Today)
             fields == [date_from |-> DateText(r.from), date_to |-> DateText(r.to)]
  <1>1. CASE call.phrase \notin Phrases
    <2>1. Execute(call) = Refused("daterange", Phrases)
      BY <1>1 DEF Execute, Where
    <2> QED
      BY <2>1, RefusedIsFine, LedgerSizes
  <1>2. CASE call.phrase \in Phrases
    <2>1. Execute(call).value = Result("daterange", fields).value
      <3>1. Execute(call) = [Result("daterange", fields) EXCEPT !.period = r]
        BY <1>2 DEF Execute, Where
      <3> HIDE DEF fields
      <3> QED
        BY <3>1 DEF Result, Answered
    <2>2. r \in Asked
      BY <1>2 DEF Asked
    <2> HIDE DEF r
    <2>3. Fine(DateText(r.from)) /\ Fine(DateText(r.to))
      BY <2>2, PeriodIsFine
    <2>4. \A k \in DOMAIN fields : k \in DenyKeys \/ Fine(fields[k])
      BY <2>3
    <2> HIDE DEF fields
    <2> QED
      BY <2>1, <2>4, ResultIsFine
  <1> QED
    BY <1>1, <1>2

LEMMA ExpenseSummaryIsFine ==
    ASSUME NEW call \in Calls, call.tool = "get_expense_summary"
    PROVE  Fine(Execute(call).value)
  <1> DEFINE p == Span(call.from, call.to)
  <1>1. Execute(call) = IF DateError(p) THEN Failed("summary") ELSE ExpenseSummary(p)
    BY DEF Execute, Where
  <1>2. p \in Asked
    BY DEF Asked
  <1> HIDE DEF p
  <1> QED
    BY <1>1, <1>2, FailedIsFine, SummaryIsFine

LEMMA WhereIsRows ==
    /\ IsRows(Pending)
    /\ \A id : IsRows(RowOf(id))
    /\ \A id : RowOf(id) # << >> => RowOf(id)[1] \in ToSet(View.rows)
  <1>1. IsRows(Pending)
    <2> DEFINE I == {i \in DOMAIN View.rows : View.rows[i].status \in {"needs_review", "failed"}}
    <2>1. Pending = Only(View.rows, I)
      BY DEF Pending, Where
    <2>2. I \in SUBSET DOMAIN View.rows
      OBVIOUS
    <2> HIDE DEF I
    <2> QED
      BY <2>1, <2>2, RowsAt
  <1>2. ASSUME NEW id PROVE IsRows(RowOf(id))
    <2> DEFINE I == {i \in DOMAIN View.rows : View.rows[i].id = id}
    <2>1. RowOf(id) = Only(View.rows, I)
      BY DEF RowOf, Where
    <2>2. I \in SUBSET DOMAIN View.rows
      OBVIOUS
    <2> HIDE DEF I
    <2> QED
      BY <2>1, <2>2, RowsAt
  <1>3. ASSUME NEW id, RowOf(id) # << >> PROVE RowOf(id)[1] \in ToSet(View.rows)
    <2>1. RowOf(id) \in Seq(ToSet(View.rows))
      BY <1>2 DEF IsRows
    <2> HIDE DEF RowOf
    <2> QED
      BY <1>3, <2>1
  <1> QED
    BY <1>1, <1>2, <1>3

LEMMA LimitIs ==
    ASSUME NEW call \in Calls
    PROVE  Clamp(call.limit, DefaultLimit, MaxLimit) \in Nat /\ Clamp(call.limit, 10, 20) \in Nat
  <1>1. call.limit \in Int \cup {None}
    BY DeskAssumption DEF DeskAssumption
  <1>2. DefaultLimit \in Nat /\ MaxLimit \in Nat /\ 10 \in Nat /\ 20 \in Nat
    BY AnswerAssumption DEF AnswerAssumption
  <1> QED
    BY <1>1, <1>2, ClampIs

LEMMA ListInvoicesIsFine ==
    ASSUME NEW call \in Calls, call.tool = "list_invoices"
    PROVE  Fine(Execute(call).value)
  <1> DEFINE p == Span(call.from, call.to)
             limit == Clamp(call.limit, DefaultLimit, MaxLimit)
             I == {i \in DOMAIN View.rows : (call.status = None \/ View.rows[i].status = call.status)
                                              /\ InPeriod(View.rows[i], p)}
             fields == Invoices(Only(View.rows, I), limit, {"invoice_date", "base_total"})
  <1>1. \/ Execute(call) = Refused("list_invoices", Statuses)
        \/ Execute(call) = Failed("list_invoices")
        \/ Execute(call) = Result("list_invoices", fields)
    BY DEF Execute, Where
  <1>2. I \in SUBSET DOMAIN View.rows
    OBVIOUS
  <1>3. limit \in Nat
    BY LimitIs
  <1> HIDE DEF I, limit
  <1>4. IsRows(Only(View.rows, I))
    BY <1>2, RowsAt
  <1>5. {"invoice_date", "base_total"} \in SUBSET Columns
    BY DEF Columns
  <1>6. \A k \in DOMAIN fields : k \in DenyKeys \/ Fine(fields[k])
    BY <1>3, <1>4, <1>5, InvoicesAreFine
  <1> HIDE DEF fields
  <1> QED
    BY <1>1, <1>6, RefusedIsFine, FailedIsFine, ResultIsFine, LedgerSizes

LEMMA DetailIsFine ==
    ASSUME NEW row \in ToSet(View.rows)
    PROVE  Fine(Detail(row))
  <1> DEFINE lists == [line_items |-> All(row.lines), tax_lines |-> All(row.taxes), events |-> All(row.events)]
  <1>1. Fine(Dict(Fields(row)))
    BY FieldsAreFine, DictIsFine
  <1>2. Fine(Dict(row.columns))
    <2>1. \A k \in DOMAIN row.columns : k \in DenyKeys \/ Fine(row.columns[k])
      BY PartsAreNoted, PartIsFine
    <2> QED
      BY <2>1, DictIsFine
  <1>3. Fine(All(row.lines)) /\ Fine(All(row.taxes)) /\ Fine(All(row.events))
    BY AllAreFine DEF Lists
  <1>4. \A k \in DOMAIN lists : k \in DenyKeys \/ Fine(lists[k])
    BY <1>3
  <1>5. Detail(row) = Dict(Fields(row)) \cup Dict(row.columns) \cup Dict(lists)
    BY DEF Detail
  <1> HIDE DEF lists
  <1>6. Fine(Dict(lists))
    BY <1>4, DictIsFine
  <1> QED
    BY <1>1, <1>2, <1>5, <1>6 DEF Fine

LEMMA InvoiceIsFine ==
    ASSUME NEW call \in Calls, call.tool \in {"get_invoice", "explain_invoice"}
    PROVE  Fine(Execute(call).value)
  <1> DEFINE row == RowOf(call.id)
             fields == [invoice_id |-> Text(call.id, {}), status |-> Words,
                        confidence_overall |-> NumOrNull(row[1].confidence), events |-> All(row[1].events)]
  <1>1. CASE row = << >>
    <2>1. Execute(call) = Failed("invoice") \/ Execute(call) = Failed("events")
      BY <1>1 DEF Execute, Where
    <2> QED
      BY <2>1, FailedIsFine
  <1>2. CASE row # << >>
    <2>1. \/ Execute(call) = Answered("invoice", Detail(row[1]))
          \/ Execute(call) = Result("events", fields)
      BY <1>2 DEF Execute, Where
    <2>2. row[1] \in ToSet(View.rows)
      BY <1>2, WhereIsRows
    <2>3. Fine(Answered("invoice", Detail(row[1])).value)
      BY <2>2, DetailIsFine DEF Answered
    <2>4. Fine(NumOrNull(row[1].confidence))
      <3>1. "confidence_overall" \in Columns /\ "confidence_overall" \notin DenyKeys
        BY DEF Columns, DenyKeys
      <3>2. Fine(Fields(row[1])["confidence_overall"])
        BY <2>2, <3>1, FieldsAreFine
      <3> QED
        BY <3>2 DEF Fields
    <2>5. Fine(All(row[1].events))
      <3>1. row[1].events \in Lists(row[1])
        BY DEF Lists
      <3> QED
        BY <2>2, <3>1, AllAreFine
    <2>6. "invoice_id" \in DenyKeys
      BY DEF DenyKeys
    <2> HIDE DEF row
    <2>7. \A k \in DOMAIN fields : k \in DenyKeys \/ Fine(fields[k])
      BY <2>4, <2>5, <2>6, WordsAreFine
    <2> HIDE DEF fields
    <2> QED
      BY <2>1, <2>3, <2>7, ResultIsFine
  <1> QED
    BY <1>1, <1>2

LEMMA VendorIsFine ==
    ASSUME NEW call \in Calls, call.tool = "search_invoices_by_vendor"
    PROVE  Fine(Execute(call).value)
  <1> DEFINE n == Cardinality(View.vendors)
             limit == Clamp(call.limit, DefaultLimit, MaxLimit)
             I == {i \in DOMAIN View.rows : View.rows[i].vendor = call.vendor}
             page == Invoices(Only(View.rows, I), limit, {"invoice_date"})
             match == [score |-> Num(100 * Unit)]
             found == [vendor |-> Dict(match), invoices |-> page.invoices, count |-> page.count, truncated |-> Flag]
             known == [matched |-> Flag, query |-> call.words, known_vendors |-> List([i \in 1 .. Min({8, n}) |-> Words])]
  <1>1. \/ Execute(call) = Failed("vendor")
        \/ Execute(call) = Result("vendor", known) /\ call \in Repeating
        \/ Execute(call) = Result("vendor:", found)
    BY DEF Execute, Where, Repeating
  <1>2. call \in Repeating => \A k \in DOMAIN known : k \in DenyKeys \/ Fine(known[k])
    <2>1. n \in Counted
      BY LedgerSizes
    <2>2. Min({8, n}) \in Counted
      <3> HIDE DEF n
      <3>1. n \in Nat /\ MostCounted \in Nat /\ n <= MostCounted
        BY <2>1, LedgerSizes DEF Counted
      <3>2. Min({8, n}) = IF 8 <= n THEN 8 ELSE n
        BY <3>1, OfTwo
      <3>3. Min({8, n}) \in 0 .. MostCounted
        BY <3>1, <3>2
      <3> QED
        BY <3>3 DEF Counted
    <2>3. Fine(List([i \in 1 .. Min({8, n}) |-> Words]))
      BY <2>2, WordsList
    <2> HIDE DEF n
    <2> QED
      BY <2>3, WordsAreFine, RepeatedIsFine
  <1>3. \A k \in DOMAIN found : k \in DenyKeys \/ Fine(found[k])
    <2>1. limit \in Nat /\ I \in SUBSET DOMAIN View.rows
      BY LimitIs
    <2>2. {"invoice_date"} \in SUBSET Columns
      BY DEF Columns
    <2> HIDE DEF I, limit
    <2>3. IsRows(Only(View.rows, I))
      BY <2>1, RowsAt
    <2>4. Fine(page.invoices) /\ Fine(page.count)
      BY <2>1, <2>2, <2>3, InvoicesAreFine
    <2>5. Fine(Dict(match))
      <3>1. Fine(Num(100 * Unit))
        <4>1. 100 * Unit \in Backed
          BY DEF Backed, Counts
        <4> QED
          BY <4>1, NumIsFine
      <3>2. \A k \in DOMAIN match : k \in DenyKeys \/ Fine(match[k])
        BY <3>1
      <3> HIDE DEF match
      <3> QED
        BY <3>2, DictIsFine
    <2> HIDE DEF page, match
    <2> QED
      BY <2>4, <2>5, WordsAreFine
  <1> HIDE DEF known, found
  <1> QED
    BY <1>1, <1>2, <1>3, FailedIsFine, ResultIsFine

LEMMA ReviewIsFine ==
    ASSUME NEW call \in Calls, call.tool \in {"get_review_queue", "get_review_counts"}
    PROVE  Fine(Execute(call).value)
  <1> DEFINE queue == [needs_review |-> Lean(Pending, {"confidence_overall"}), needs_review_count |-> Count(Pending),
                       dead_letter |-> Entries(View.dead, {"id", "source_ref", "error"})]
             counts == [needs_review |-> Count(Pending), dead_letter |-> Count(View.dead),
                        total |-> Count(Pending \o View.dead)]
  <1>1. \/ Execute(call) = Result("review_queue", queue)
        \/ Execute(call) = Result("review_counts", counts)
    BY DEF Execute, Where
  <1>2. IsRows(Pending)
    BY WhereIsRows
  <1>3. Fine(Lean(Pending, {"confidence_overall"})) /\ Len(Pending) \in Counted
    <2>1. {"confidence_overall"} \in SUBSET Columns
      BY DEF Columns
    <2> QED
      BY <1>2, <2>1, LeanIsFine
  <1>4. Fine(Entries(View.dead, {"id", "source_ref", "error"}))
    <2> DEFINE X == ToSet(View.dead)
               keys == {"id", "source_ref", "error"}
    <2>1. X \in SUBSET Noted /\ View.dead \in Seq(X) /\ Len(View.dead) \in Counted
      BY NotedEntries, LedgerSizes
    <2>2. \A entry \in X : keys \subseteq DOMAIN entry
      BY NotedEntries DEF DeadFields
    <2> HIDE DEF X, keys
    <2>3. Fine(Entries(View.dead, keys))
      BY <2>1, <2>2, EntriesAreFine
    <2> QED
      BY <2>3 DEF keys
  <1>5. Len(View.dead) \in Counted
    BY NotedEntries
  <1>6. Len(Pending \o View.dead) \in Counted
    <2> DEFINE X == ToSet(View.rows) \cup ToSet(View.dead)
    <2>1. Pending \in Seq(X) /\ View.dead \in Seq(X)
      BY <1>2, LedgerSizes DEF IsRows
    <2> HIDE DEF X
    <2> PICK s \in Seq(X), t \in Seq(X) : s = Pending /\ t = View.dead
      BY <2>1
    <2> PICK a \in Nat, b \in Nat, c \in Nat, d \in Nat : a = Len(s) /\ b = Len(t) /\ c = Len(s \o t) /\ d = Len(View.rows)
      BY LedgerSizes
    <2>2. c = a + b
      OBVIOUS
    <2>3. a <= d
      BY <1>2 DEF IsRows
    <2>4. a \in Nat /\ b \in Nat /\ c \in Nat /\ d \in Nat
      OBVIOUS
    <2>5. c <= d + b
      BY ONLY <2>2, <2>3, <2>4
    <2>6. c <= Len(View.rows) + Len(View.dead)
      BY <2>5
    <2> QED
      BY <2>6, UpToLedger
  <1>7. Fine(Count(Pending)) /\ Fine(Count(View.dead)) /\ Fine(Count(Pending \o View.dead))
    BY <1>3, <1>5, <1>6, CountIsFine
  <1>8. \A k \in DOMAIN queue : k \in DenyKeys \/ Fine(queue[k])
    BY <1>3, <1>4, <1>7
  <1>9. \A k \in DOMAIN counts : k \in DenyKeys \/ Fine(counts[k])
    BY <1>7
  <1> HIDE DEF queue, counts
  <1> QED
    BY <1>1, <1>8, <1>9, ResultIsFine

LEMMA VendorsAreFine == Fine(Vendors)
  <1> DEFINE names(v) == List([i \in 1 .. View.aliases[v] |-> Words])
             all == {Dict([aliases |-> names(v)]) : v \in View.vendors}
  <1>1. Cardinality(View.vendors) \in Counted /\ IsFiniteSet(View.vendors) /\ MostCounted \in Nat
    BY LedgerSizes, AnswerAssumption DEF AnswerAssumption
  <1>2. Fine(Num(Cardinality(View.vendors) * Unit))
    BY <1>1, CountsAreBacked
  <1>3. ASSUME NEW v \in View.vendors PROVE Fine(Dict([aliases |-> names(v)]))
    <2>1. View.aliases[v] \in 0 .. 1
      BY AnswerAssumption DEF AnswerAssumption
    <2>2. Cardinality(View.vendors) # 0
      BY <1>1, FS_EmptySet
    <2>3. 0 \in Counted /\ 1 \in Counted
      <3> PICK a : a = Cardinality(View.vendors)
        OBVIOUS
      <3>1. a \in 0 .. MostCounted /\ a # 0 /\ MostCounted \in Nat
        BY <1>1, <2>2 DEF Counted
      <3>2. 0 \in 0 .. MostCounted /\ 1 \in 0 .. MostCounted
        BY ONLY <3>1
      <3> QED
        BY <3>2 DEF Counted
    <2>4. View.aliases[v] \in Counted
      <3>1. View.aliases[v] = 0 \/ View.aliases[v] = 1
        BY <2>1
      <3> QED
        BY <2>3, <3>1
    <2>5. Fine(names(v))
      BY <2>4, WordsList
    <2> DEFINE known == [aliases |-> names(v)]
    <2>6. \A k \in DOMAIN known : k \in DenyKeys \/ Fine(known[k])
      BY <2>5
    <2> HIDE DEF known
    <2>7. Fine(Dict(known))
      BY <2>6, DictIsFine
    <2> QED
      BY <2>7 DEF known
  <1>4. Vendors = Num(Cardinality(View.vendors) * Unit) \cup UNION all
    BY DEF Vendors
  <1>5. \A leaves \in all : Fine(leaves)
    BY <1>3
  <1> HIDE DEF all
  <1>6. Fine(UNION all)
    BY <1>5 DEF Fine
  <1> QED
    BY <1>2, <1>4, <1>6 DEF Fine

LEMMA ListsAreFine ==
    ASSUME NEW call \in Calls, call.tool \in {"list_vendors", "list_runs", "get_dead_letter"}
    PROVE  Fine(Execute(call).value)
  <1> DEFINE page == Page(View.runs, Clamp(call.limit, 10, 20))
             vendors == [vendors |-> Vendors]
             runs == [runs |-> Entries(page, RunFields)]
             dead == [dead_letter |-> Entries(View.dead, DeadFields), count |-> Count(View.dead)]
  <1>1. \/ Execute(call) = Result("vendors", vendors)
        \/ Execute(call) = Result("runs", runs)
        \/ Execute(call) = Result("dead_letter", dead)
    BY DEF Execute, Where
  <1>2. \A k \in DOMAIN vendors : k \in DenyKeys \/ Fine(vendors[k])
    BY VendorsAreFine
  <1>3. \A k \in DOMAIN runs : k \in DenyKeys \/ Fine(runs[k])
    <2> DEFINE X == ToSet(View.runs)
    <2>1. X \in SUBSET Noted /\ View.runs \in Seq(X) /\ Clamp(call.limit, 10, 20) \in Nat
      BY NotedEntries, LedgerSizes, LimitIs
    <2>2. \A entry \in X : RunFields \subseteq DOMAIN entry
      BY NotedEntries
    <2> HIDE DEF X
    <2>3. page \in Seq(X) /\ Len(page) \in 0 .. Len(View.runs) /\ Len(View.runs) \in Nat
      BY <2>1, PageIs
    <2> HIDE DEF page
    <2>4. Len(page) \in Nat /\ Len(page) <= Len(View.runs)
      BY <2>3
    <2>5. Len(page) \in Counted
      BY <2>4, UpToLedger
    <2>6. Fine(Entries(page, RunFields))
      BY <2>1, <2>2, <2>3, <2>5, EntriesAreFine
    <2> QED
      BY <2>6
  <1>4. \A k \in DOMAIN dead : k \in DenyKeys \/ Fine(dead[k])
    <2> DEFINE X == ToSet(View.dead)
    <2>1. X \in SUBSET Noted /\ View.dead \in Seq(X) /\ Len(View.dead) \in Counted
      BY NotedEntries, LedgerSizes
    <2>2. \A entry \in X : DeadFields \subseteq DOMAIN entry
      BY NotedEntries
    <2> HIDE DEF X
    <2>3. Fine(Entries(View.dead, DeadFields)) /\ Fine(Count(View.dead))
      BY <2>1, <2>2, EntriesAreFine, CountIsFine
    <2> QED
      BY <2>3
  <1> HIDE DEF vendors, runs, dead
  <1> QED
    BY <1>1, <1>2, <1>3, <1>4, ResultIsFine

\* Whatever a tool is asked, all it tells is backed, ...
LEMMA ExecuteIsFine ==
    ASSUME NEW call \in Calls
    PROVE  Fine(Execute(call).value)
  <1>1. CASE call.tool \in Tools
    BY <1>1, DateRangeIsFine, ExpenseSummaryIsFine, ListInvoicesIsFine, InvoiceIsFine, VendorIsFine, ReviewIsFine,
       ListsAreFine DEF Tools
  <1>2. CASE call.tool \notin Tools
    <2> DEFINE fields == [error |-> Words, name |-> call.words]
    <2>1. Execute(call) = Error(call.tool, fields) /\ call \in Repeating
      BY <1>2 DEF Execute, Where, Repeating, Tools
    <2>2. \A k \in DOMAIN fields : k \in DenyKeys \/ Fine(fields[k])
      BY <2>1, WordsAreFine, RepeatedIsFine
    <2> HIDE DEF fields
    <2> QED
      BY <2>1, <2>2, ErrorIsFine
  <1> QED
    BY <1>1, <1>2

\* ... and a tool that raises tells nothing.
LEMMA ReturnsAreFine ==
    ASSUME NEW call \in Calls, NEW result \in Returns(call)
    PROVE  Fine(result.value)
  BY ExecuteIsFine, FailedIsFine DEF Returns

-----------------------------------------------------------------------------
(* The answer.                                                             *)

LEMMA FinishIs ==
    ASSUME NEW tokens \in Answers, NEW results \in Seq(Results)
    PROVE  Finish(tokens, results) \in Replies
  <1> DEFINE n == Len(results)
             can == {i \in DOMAIN results : Renderable(results[i])}
             applied == {results[i].period : i \in {j \in DOMAIN results : results[j].src = "summary"}} \ {None}
             named == {i \in DOMAIN results : results[i].src = "daterange" /\ results[i].period \in applied}
             periods == {result.period : result \in Results}
  <1>1. n \in Nat /\ DOMAIN results = 1 .. n /\ \A i \in 1 .. n : results[i] \in Results
    OBVIOUS
  <1>2. Card(results) \in Results \cup {None}
    <2>1. Card(results) = IF can = {} THEN None ELSE results[Max(can)]
      BY DEF Card
    <2>2. can \in SUBSET (0 .. n)
      BY <1>1
    <2>3. ASSUME can # {} PROVE results[Max(can)] \in Results
      <3>1. can \subseteq DOMAIN results
        OBVIOUS
      <3> HIDE DEF can, n
      <3>2. Max(can) \in can
        BY ONLY <1>1, <2>2, <2>3, LargestIsMax
      <3> QED
        BY <1>1, <3>1, <3>2
    <2> HIDE DEF can
    <2> QED
      BY <2>1, <2>3
  <1>3. ResolvedRange(results) \in periods \cup {None}
    <2>1. ResolvedRange(results) = IF named = {} THEN None ELSE results[Min(named)].period
      BY DEF ResolvedRange
    <2>2. named \subseteq 1 .. n
      BY <1>1
    <2>3. ASSUME named # {} PROVE results[Min(named)].period \in periods
      <3> HIDE DEF named, n
      <3>1. Min(named) \in named
        BY <1>1, <2>2, <2>3, LeastIsMin
      <3> QED
        BY <1>1, <2>2, <3>1
    <2> HIDE DEF named, periods
    <2> QED
      BY <2>1, <2>3
  <1>4. Grounded(tokens, results) \in BOOLEAN
    BY DEF Grounded
  <1> QED
    BY <1>2, <1>3, <1>4 DEF Finish, Replies

LEMMA FinishIsBacked ==
    ASSUME NEW tokens, NEW results \in Seq(Results)
    PROVE  BackedReply(Finish(tokens, results))
  <1> DEFINE reply == Finish(tokens, results)
  <1>1. Allowed(results) \subseteq Tellable
    <2>1. ASSUME NEW i \in DOMAIN results PROVE Collect(results[i].value) \subseteq Tellable
      <3>1. results[i] \in Results
        OBVIOUS
      <3>2. PICK call \in Calls : results[i] \in Returns(call)
        BY <3>1 DEF Results
      <3>3. Fine(results[i].value)
        BY <3>2, ReturnsAreFine
      <3> QED
        BY <3>3, CollectsFine
    <2> QED
      BY <2>1 DEF Allowed
  <1>2. reply.tokens = IF Grounded(tokens, results) THEN tokens ELSE {}
    BY DEF Finish
  <1>3. ASSUME NEW tok \in reply.tokens PROVE BackedToken(tok)
    <2>1. Grounded(tokens, results) /\ tok \in tokens
      BY <1>2, <1>3
    <2>2. PICK n : n \in Candidates(tok) /\ n \in Allowed(results)
      BY <2>1 DEF Grounded
    <2>3. PICK q \in Known : n \in AddValue(q)
      BY <1>1, <2>2 DEF Tellable
    <2> QED
      BY <2>2, <2>3 DEF BackedToken
  <1> QED
    BY <1>3 DEF BackedReply

LEMMA ReplyWaits ==
    ASSUME IInv, NEW tokens \in Answers, Reply(tokens)
    PROVE  IInv'
  <1> DEFINE reply == Finish(tokens, request.results)
  <1>1. Unsettled /\ Settled("answered", reply)
    BY DEF Reply
  <1>2. request.results \in Seq(Results)
    <2>1. request \in Requests
      BY <1>1 DEF IInv, Waiting, Unsettled
    <2> QED
      BY <2>1, RequestFields
  <1>3. reply \in Replies /\ BackedReply(reply)
    BY <1>2, FinishIs, FinishIsBacked
  <1> HIDE DEF reply
  <1> QED
    BY <1>1, <1>3, SettledWaits

\* A stop or a failure leaves nothing to show.
LEMMA UnansweredWaits ==
    ASSUME IInv, Stop \/ Fail
    PROVE  IInv'
  <1>1. BackedReply(None)
    BY DEF BackedReply
  <1>2. Unsettled /\ \E how \in {"aborted", "failed"} : Settled(how, None)
    BY DEF Stop, Fail
  <1> QED
    BY <1>1, <1>2, SettledWaits

LEMMA ClearRests ==
    ASSUME IInv, Clear
    PROVE  IInv'
  <1>1. busy = FALSE /\ request = None /\ ids \in Nat
    BY DEF IInv, Clear, Rested
  <1>2. messages' = << >> /\ ids' = ids /\ busy' = FALSE /\ request' = None
    BY <1>1 DEF Clear
  <1>3. << >> \in Seq(Bubbles) /\ DOMAIN << >> = {}
    OBVIOUS
  <1>4. Rested(<< >>, ids)
    BY <1>1, <1>3 DEF Rested, Distinct, Roles, Sending, BackedAnswers
  <1> QED
    BY <1>2, <1>4 DEF IInv

-----------------------------------------------------------------------------
(* The theorems.                                                           *)

LEMMA InvNext == IInv /\ [Next]_vars => IInv'
  <1> SUFFICES ASSUME IInv, [Next]_vars PROVE IInv'
    OBVIOUS
  <1>1. ASSUME NEW q \in Questions, Send(q) PROVE IInv'
    BY <1>1, SendWaits
  <1>2. CASE RetryLast
    BY <1>2, RetryWaits
  <1>3. CASE Clear
    BY <1>3, ClearRests
  <1>4. CASE Stop
    BY <1>4, UnansweredWaits
  <1>5. ASSUME NEW call \in Calls, CallTool(call) PROVE IInv'
    BY <1>5, CallWaits
  <1>6. ASSUME NEW tokens \in Answers, Reply(tokens) PROVE IInv'
    BY <1>6, ReplyWaits
  <1>7. CASE Fail
    BY <1>7, UnansweredWaits
  <1>8. CASE Land
    BY <1>8, LandRests
  <1>9. CASE UNCHANGED vars
    BY <1>9 DEF vars, IInv
  <1> QED
    BY <1>1, <1>2, <1>3, <1>4, <1>5, <1>6, <1>7, <1>8, <1>9 DEF Next, Serve

LEMMA Invariant == Spec => []IInv
  BY InvInit, InvNext, PTL DEF Spec

\* The state of the conversation is of its type.
THEOREM TypeCorrect == Spec => []TypeOK
  BY Invariant, InvariantSuffices, PTL

\* The page is busy exactly while its one request is under way, whose placeholder is the last bubble
\* and the only one without an outcome.
THEOREM BusyIsAlwaysSending == Spec => []BusyIsSending
  BY Invariant, InvariantSuffices, PTL

\* A question goes to the model once, after as many of the turns before it as the budget allows.
THEOREM ContextIsAlwaysRecent == Spec => []ContextIsRecent
  BY Invariant, InvariantSuffices, PTL

\* A figure is shown only when the ledger backs it, as it is or as a percentage, when a call that
\* came to nothing repeats it, or when it is the number a credit note refers to.
THEOREM GroundedIsAlwaysBacked == Spec => []GroundedIsBacked
  BY Invariant, InvariantSuffices, PTL

\* The answers among before are there in after.
Stays(before, after) ==
    \A i \in DOMAIN before : before[i].reply # None => \E j \in DOMAIN after : after[j] = before[i]

LEMMA GrowthKeeps ==
    ASSUME NEW msgs \in Seq(Bubbles), NEW new \in Bubbles
    PROVE  Stays(msgs, Append(msgs, new)) /\ Append(msgs, new) \in Seq(Bubbles)
  <1> DEFINE all == Append(msgs, new)
  <1>1. all \in Seq(Bubbles) /\ \A i \in DOMAIN msgs : i \in DOMAIN all /\ all[i] = msgs[i]
    OBVIOUS
  <1> HIDE DEF all
  <1>2. Stays(msgs, all)
    BY <1>1 DEF Stays
  <1> QED
    BY <1>1, <1>2 DEF all

LEMMA StaysOn ==
    ASSUME NEW a, NEW b, NEW c, Stays(a, b), Stays(b, c)
    PROVE  Stays(a, c)
  <1> SUFFICES ASSUME NEW i \in DOMAIN a, a[i].reply # None PROVE \E j \in DOMAIN c : c[j] = a[i]
    BY DEF Stays
  <1>1. PICK k \in DOMAIN b : b[k] = a[i]
    BY DEF Stays
  <1> QED
    BY <1>1 DEF Stays

LEMMA SelectionKeeps ==
    ASSUME NEW msgs \in Seq(Bubbles), NEW I \in SUBSET DOMAIN msgs,
           \A i \in DOMAIN msgs : msgs[i].reply # None => i \in I
    PROVE  Stays(msgs, Selected(msgs, I))
  <1>1. DOMAIN Selected(msgs, I) = 1 .. Cardinality(I)
    BY SelectionOf
  <1>2. \A m \in I : \E k \in 1 .. Cardinality(I) : Selected(msgs, I)[k] = msgs[m]
    BY SelectionOf
  <1>3. \A m \in I : \E k \in DOMAIN Selected(msgs, I) : Selected(msgs, I)[k] = msgs[m]
    BY <1>1, <1>2
  <1> HIDE DEF Selected
  <1> QED
    BY <1>3 DEF Stays

LEMMA StepKeeps ==
    ASSUME IInv, [Next]_vars
    PROVE  messages' = << >> \/ Stays(messages, messages')
  <1>1. messages \in Seq(Bubbles) /\ Roles(messages) /\ ids \in Nat
    BY DEF IInv, Rested, Waiting
  <1>2. ASSUME NEW id \in Nat, NEW role \in {"user", "assistant"}, NEW status \in {"complete", "sending"},
               NEW text \in Questions \cup {None}
        PROVE  Bubble(id, role, status, text, None) \in Bubbles
    BY DEF Bubble, Bubbles
  <1>3. ASSUME NEW q \in Questions, Send(q) PROVE Stays(messages, messages')
    <2> DEFINE question == Bubble(ids, "user", "complete", q, None)
               holder == Bubble(ids + 1, "assistant", "sending", None, None)
    <2>1. messages' = Append(Append(messages, question), holder)
      BY <1>3 DEF Send, Dispatch
    <2>2. question \in Bubbles /\ holder \in Bubbles
      BY <1>1, <1>2
    <2> HIDE DEF question, holder
    <2>3. Append(messages, question) \in Seq(Bubbles) /\ Stays(messages, Append(messages, question))
      BY <1>1, <2>2, GrowthKeeps
    <2>4. Stays(Append(messages, question), messages')
      BY <2>1, <2>2, <2>3, GrowthKeeps
    <2> QED
      BY <2>3, <2>4, StaysOn
  <1>4. CASE RetryLast
    <2> DEFINE I == {i \in DOMAIN messages : messages[i].status # "error"}
               holder == Bubble(ids, "assistant", "sending", None, None)
    <2>1. messages' = Append(Selected(messages, I), holder)
      BY <1>4 DEF RetryLast, Dispatch, NoErrors, Selected
    <2>2. holder \in Bubbles
      BY <1>1, <1>2
    <2>3. I \in SUBSET DOMAIN messages /\ \A i \in DOMAIN messages : messages[i].reply # None => i \in I
      BY <1>1 DEF Roles
    <2> HIDE DEF I, holder
    <2>4. Selected(messages, I) \in Seq(Bubbles) /\ Stays(messages, Selected(messages, I))
      BY <1>1, <2>3, SelectionOf, SelectionKeeps
    <2>5. Stays(Selected(messages, I), messages')
      BY <2>1, <2>2, <2>4, GrowthKeeps
    <2> QED
      BY <2>4, <2>5, StaysOn
  <1>5. CASE Land
    <2>1. Waiting(messages, ids, request)
      BY <1>5 DEF IInv, Land, HasSettled
    <2>2. ASSUME NEW i \in DOMAIN messages, messages[i].reply # None PROVE messages[i].id # request.bubble
      <3>1. Sending(messages) = {Len(messages)} /\ messages[Len(messages)].id = request.bubble /\ Distinct(messages, ids)
        BY <2>1 DEF Waiting
      <3>2. Len(messages) \in DOMAIN messages /\ messages[Len(messages)].status = "sending"
        BY <3>1 DEF Sending
      <3>3. messages[i].status = "complete"
        BY <1>1, <2>2 DEF Roles
      <3> QED
        BY <3>1, <3>2, <3>3 DEF Distinct
    <2>3. Stays(messages, Without(request.bubble))
      <3> DEFINE I == {i \in DOMAIN messages : messages[i].id # request.bubble}
      <3>1. I \in SUBSET DOMAIN messages /\ \A i \in DOMAIN messages : messages[i].reply # None => i \in I
        BY <2>2
      <3> HIDE DEF I
      <3>2. Stays(messages, Selected(messages, I))
        BY <1>1, <3>1, SelectionKeeps
      <3> QED
        BY <3>2 DEF Without, Selected, I
    <2>4. ASSUME NEW status, NEW text, NEW reply PROVE Stays(messages, Patch(request.bubble, status, text, reply))
      BY <2>2 DEF Patch, Stays
    <2> QED
      BY <1>5, <2>3, <2>4 DEF Land
  <1>6. CASE messages' = messages
    BY <1>6 DEF Stays
  <1>7. Clear => messages' = << >>
    BY DEF Clear
  <1>8. (\E call \in Calls : CallTool(call)) \/ (\E tokens \in Answers : Reply(tokens)) \/ Fail \/ Stop \/ UNCHANGED vars
            => messages' = messages
    BY DEF CallTool, Reply, Fail, Stop, Settled, vars
  <1> QED
    BY <1>3, <1>4, <1>5, <1>6, <1>7, <1>8 DEF Next, Serve

\* Nothing but clearing the conversation takes an answer away.
THEOREM AnswersAlwaysStay == Spec => AnswersStay
  <1>1. ASSUME IInv, [Next]_vars
        PROVE  \A i \in DOMAIN messages : messages[i].reply # None =>
                   messages' = << >> \/ \E j \in DOMAIN messages' : messages'[j] = messages[i]
    BY <1>1, StepKeeps DEF Stays
  <1> QED
    BY <1>1, Invariant, PTL DEF Spec, AnswersStay
=================================================================================
