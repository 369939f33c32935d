--------------------------- MODULE ChatGuardsProofs ---------------------------
(***************************************************************************)
(* Theorems about ChatGuards, for every number of clients, requests handled *)
(* at the same time, limits and tries.                                      *)
(***************************************************************************)
EXTENDS ChatGuards, FiniteSetTheorems, TLAPS

-----------------------------------------------------------------------------
(* Type correctness: no loop of the thread runs past its bound.             *)

LEMMA RequestType ==
    ASSUME NEW q \in Requests
    PROVE  /\ \A code \in {200, 500, 503} : Returned(q, code) \in Requests
           /\ q.calls <= Iterations => NextTurn(q) \in Requests
           /\ q.tries + 1 < MaxTries => NextTry(q) \in Requests
           /\ q.calls \in 0 .. Iterations + 1 /\ q.tries \in 0 .. MaxTries - 1
  <1>1. q.calls \in 0 .. Iterations + 1 /\ q.tries \in 0 .. MaxTries - 1
    BY DEF Requests
  <1>2. ASSUME NEW code \in {200, 500, 503} PROVE Returned(q, code) \in Requests
    <2>1. code \in {0, 200, 500, 503}
      OBVIOUS
    <2> QED BY <2>1 DEF Requests, Returned
  <1>3. ASSUME q.calls <= Iterations PROVE NextTurn(q) \in Requests
    <2>1. q.calls + 1 \in 0 .. Iterations + 1 /\ 0 \in 0 .. MaxTries - 1
      BY <1>1, <1>3, ChatAssumption
    <2> QED BY <2>1 DEF Requests, NextTurn
  <1>4. ASSUME q.tries + 1 < MaxTries PROVE NextTry(q) \in Requests
    <2>1. q.tries + 1 \in 0 .. MaxTries - 1
      BY <1>1, <1>4, ChatAssumption
    <2> QED BY <2>1 DEF Requests, NextTry
  <1> QED BY <1>1, <1>2, <1>3, <1>4

LEMMA StampType ==
    ASSUME TypeOK, NEW c \in Clients
    PROVE  /\ Recent(c) \subseteq Stamps
           /\ IsFiniteSet(accepted[c]) => Stamp(c) \in Stamps
  <1>1. Recent(c) \subseteq Stamps
    BY DEF TypeOK, Recent
  <1>2. IsFiniteSet(accepted[c]) => Stamp(c) \in Stamps
    BY FS_CardinalityType DEF TypeOK, Stamp, Stamps
  <1> QED BY <1>1, <1>2


\* The stamps of a client are finitely many: what a limit counts is countable.
Finite == \A c \in Clients : IsFiniteSet(accepted[c]) /\ IsFiniteSet(hits[c])

LEMMA RememberType ==
    ASSUME TypeOK, Finite, NEW c \in Clients, NEW new, new = {} \/ new = {Stamp(c)}, Remember(c, new)
    PROVE  /\ hits' \in [Clients -> SUBSET Stamps]
           /\ \A k \in Clients : IsFiniteSet(hits'[k])
  <1>1. Recent(c) \cup new \subseteq Stamps /\ IsFiniteSet(Recent(c) \cup new)
    <2>1. IsFiniteSet(Recent(c)) /\ IsFiniteSet(new)
      BY FS_Subset, FS_EmptySet, FS_Singleton DEF Recent, Finite
    <2> QED BY <2>1, StampType, FS_Union DEF Finite
  <1>2. \A k \in Clients : hits'[k] \in {Recent(c) \cup new, {}, hits[k]} /\ hits' = [j \in Clients |-> hits'[j]]
    BY DEF Remember
  <1> QED BY <1>1, <1>2, FS_EmptySet DEF TypeOK, Finite

TypeInv == TypeOK /\ Finite

LEMMA TypeInit == Init => TypeInv
  BY ChatAssumption, FS_EmptySet DEF Init, TypeInv, TypeOK, Finite, Requests, Idle

LEMMA LetThroughType ==
    ASSUME TypeInv, NEW c \in Clients, NEW r \in Slots, LetThrough(r, c)
    PROVE  /\ hits' \in [Clients -> SUBSET Stamps] /\ accepted' \in [Clients -> SUBSET Stamps]
           /\ Finite' /\ demo' = demo /\ now' = now /\ refused' = refused
  <1>1. accepted' = [accepted EXCEPT ![c] = @ \cup {Stamp(c)}] /\ Remember(c, {Stamp(c)})
        /\ demo' = demo /\ now' = now /\ refused' = refused
    BY DEF LetThrough
  <1>2. Stamp(c) \in Stamps /\ IsFiniteSet(accepted[c] \cup {Stamp(c)})
    BY StampType, FS_AddElement DEF TypeInv, Finite
  <1>3. hits' \in [Clients -> SUBSET Stamps] /\ \A k \in Clients : IsFiniteSet(hits'[k])
    BY <1>1, RememberType DEF TypeInv
  <1>4. accepted' \in [Clients -> SUBSET Stamps] /\ \A k \in Clients : IsFiniteSet(accepted'[k])
    BY <1>1, <1>2 DEF TypeInv, TypeOK, Finite
  <1> QED BY <1>1, <1>3, <1>4 DEF Finite

\* The day's count stays a count.
LEMMA CountType ==
    ASSUME TypeOK
    PROVE  /\ Today \in Nat /\ Count \in Nat
           /\ Count <= spend.count
           /\ \A n \in Nat : [day |-> Today, count |-> Count + n] \in [day : Nat, count : Nat]
  <1>1. now \in Nat /\ spend.count \in Nat /\ DayLength \in Nat \ {0}
    BY ChatAssumption DEF TypeOK
  <1>2. Today \in Nat
    BY <1>1, Z3 DEF Today
  <1>3. Count \in Nat /\ Count <= spend.count
    BY <1>1 DEF Count
  <1> QED BY <1>2, <1>3

LEMMA TypeStep == TypeInv /\ [Next]_vars => TypeInv'
  <1> SUFFICES ASSUME TypeInv, [Next]_vars PROVE TypeInv'
    OBVIOUS
  <1> USE DEF TypeInv
  <1>1. CASE UNCHANGED vars
    BY <1>1 DEF vars, TypeOK, Finite
  <1>2. CASE Tick
    BY <1>2 DEF Tick, TypeOK, Finite
  <1>3. ASSUME NEW r \in Slots, NEW c \in Clients, Throttle(r, c) PROVE TypeInv'
    BY <1>3, RememberType DEF Throttle, TypeOK, Finite
  <1>4. ASSUME NEW r \in Slots, NEW c \in Clients, Pause(r, c) PROVE TypeInv'
    <2>1. spend' = [day |-> Today, count |-> Count + 0] /\ req' = req
      BY <1>4, CountType DEF Pause
    <2> QED BY <1>4, <2>1, LetThroughType, CountType DEF Pause, TypeOK
  <1>5. ASSUME NEW r \in Slots, NEW c \in Clients, Admit(r, c) PROVE TypeInv'
    <2>1. spend' \in [day : Nat, count : Nat]
      <3>1. spend' = spend \/ spend' = [day |-> Today, count |-> Count + 0]
        BY <1>5, CountType DEF Admit
      <3> QED BY <3>1, CountType DEF TypeOK
    <2>2. [Idle EXCEPT !.state = "turn", !.calls = IF demo THEN 0 ELSE 1] \in Requests
      <3>1. (IF demo THEN 0 ELSE 1) \in 0 .. Iterations + 1 /\ 0 \in 0 .. MaxTries - 1
        BY ChatAssumption
      <3> QED BY <3>1 DEF Idle, Requests
    <2>3. req' \in [Slots -> Requests]
      BY <1>5, <2>2 DEF Admit, TypeOK
    <2> QED BY <1>5, <2>1, <2>3, LetThroughType DEF Admit, TypeOK
  <1>6. ASSUME NEW r \in Slots, Thread(r) PROVE TypeInv'
    <2>1. UNCHANGED <<demo, now, hits, spend, accepted, refused>>
      BY <1>6 DEF Thread, DemoAnswer, CallTools, CallText, CallRetried, CallFails, InCall
    <2>2. req[r] \in Requests
      BY DEF TypeOK
    <2>3. \E q \in Requests : req' = [req EXCEPT ![r] = q]
      <3>1. ASSUME NEW code \in {200, 500, 503}, Return(r, code)
            PROVE  \E q \in Requests : req' = [req EXCEPT ![r] = q]
        <4>1. req' = [req EXCEPT ![r] = Returned(req[r], code)]
          BY <3>1 DEF Return
        <4>2. \A k \in {200, 500, 503} : Returned(req[r], k) \in Requests
          BY <2>2, RequestType
        <4> QED BY <4>1, <4>2
      <3>2. CASE CallTools(r)
        <4>1. req' = [req EXCEPT ![r] = NextTurn(req[r])] /\ req[r].calls <= Iterations
          BY <3>2 DEF CallTools
        <4> QED BY <2>2, <4>1, RequestType
      <3>3. CASE CallRetried(r)
        <4>1. req' = [req EXCEPT ![r] = NextTry(req[r])] /\ req[r].tries + 1 < MaxTries
          BY <3>3 DEF CallRetried
        <4> QED BY <2>2, <4>1, RequestType
      <3> QED BY <1>6, <3>1, <3>2, <3>3 DEF Thread, DemoAnswer, CallText, CallFails
    <2> QED BY <2>1, <2>3 DEF TypeOK, Finite
  <1>7. ASSUME NEW r \in Slots, Respond(r) PROVE TypeInv'
    <2>1. spend' \in [day : Nat, count : Nat]
      <3>1. req[r].calls \in Nat
        <4>1. req[r] \in Requests
          BY DEF TypeOK
        <4>2. req[r].calls \in 0 .. Iterations + 1
          BY <4>1, RequestType
        <4> QED BY <4>2, ChatAssumption
      <3>2. spend' = spend \/ \E n \in Nat : spend' = [day |-> Today, count |-> Count + n]
        BY <1>7, <3>1 DEF Respond
      <3> QED BY <3>2, CountType DEF TypeOK
    <2>2. req' \in [Slots -> Requests]
      BY <1>7, ChatAssumption DEF Respond, TypeOK, Idle, Requests
    <2> QED BY <1>7, <2>1, <2>2 DEF Respond, TypeOK, Finite
  <1> QED BY <1>1, <1>2, <1>3, <1>4, <1>5, <1>6, <1>7 DEF Next, Arrive

LEMMA TypeInvariant == Spec => []TypeInv
  BY TypeInit, TypeStep, PTL DEF Spec

\* Whatever requests, threads and the clock do, the clock, the windows, the spend and every
\* request stay in their domains: in particular a request makes at most one call more than the
\* iterations it is allowed, and at most MaxTries tries of each (chat.py:244-271, retry.py:27-34).
THEOREM TypeCorrect == Spec => []TypeOK
  BY TypeInvariant, PTL DEF TypeInv

-----------------------------------------------------------------------------
(* The limiter.  The map forgets; what it must not forget is a request that *)
(* is still within the window.                                              *)

Remembered ==
    \A c \in Clients : \A a \in accepted[c] :
        a.at <= now /\ (now - a.at < Window => a \in hits[c])

WindowInv == Remembered /\ WindowNeverExceeded

\* What the handler counts is no less than what the ideal limiter would count.
LEMMA CountsEnough ==
    ASSUME TypeInv, Remembered, NEW c \in Clients
    PROVE  /\ Within(c, now) \subseteq Recent(c)
           /\ Cardinality(Within(c, now)) <= Cardinality(Recent(c))
           /\ IsFiniteSet(Within(c, now))
  <1>1. Within(c, now) \subseteq Recent(c)
    BY DEF Within, Ideal!Within, Recent, Remembered
  <1>2. IsFiniteSet(Recent(c))
    BY FS_Subset DEF Recent, TypeInv, Finite
  <1> QED BY <1>1, <1>2, FS_Subset

LEMMA LimitType ==
    ASSUME TypeInv, NEW c \in Clients
    PROVE  Cardinality(Recent(c)) \in Nat
  <1>1. IsFiniteSet(Recent(c))
    BY FS_Subset DEF Recent, TypeInv, Finite
  <1> QED BY <1>1, FS_CardinalityType

\* Pruning keeps every request of every client that is within the window.
LEMMA PruningKeeps ==
    ASSUME TypeInv, Remembered, NEW c \in Clients, NEW new, Remember(c, new), NEW k \in Clients,
           NEW a \in accepted[k], now - a.at < Window
    PROVE  a \in hits'[k]
  <1>1. a \in hits[k] /\ a.at \in Nat /\ now \in Nat /\ Window \in Nat
    BY ChatAssumption DEF Remembered, TypeInv, TypeOK, Stamps
  <1>2. CASE k = c
    <2>1. hits'[c] = Recent(c) \cup new
      BY DEF Remember
    <2>2. a \in Recent(c)
      BY <1>1, <1>2 DEF Recent
    <2> QED BY <1>2, <2>1, <2>2
  <1>3. CASE k # c
    <2>1. ~Stale(k)
      BY <1>1 DEF Stale
    <2> QED BY <1>1, <1>3, <2>1 DEF Remember
  <1> QED BY <1>2, <1>3

LEMMA WindowInit == Init => WindowInv
  <1> SUFFICES ASSUME Init PROVE WindowInv
    OBVIOUS
  <1>1. Remembered
    BY DEF Init, Remembered
  <1>2. \A c \in Clients, w \in 0 .. now : Within(c, w) = {}
    BY DEF Init, Within, Ideal!Within
  <1>3. WindowNeverExceeded
    BY <1>2, FS_EmptySet, ChatAssumption DEF WindowNeverExceeded
  <1> QED BY <1>1, <1>3 DEF WindowInv

LEMMA WindowLetThrough ==
    ASSUME TypeInv, WindowInv, NEW r \in Slots, NEW c \in Clients, LetThrough(r, c)
    PROVE  WindowInv'
  <1>1. /\ Remember(c, {Stamp(c)}) /\ now' = now
        /\ accepted' = [accepted EXCEPT ![c] = @ \cup {Stamp(c)}]
        /\ ~(Cardinality(Recent(c)) >= PerMin)
    BY DEF LetThrough, RateLimited
  <1>2. now \in Nat /\ Window \in Nat \ {0} /\ PerMin \in Nat /\ Stamp(c).at = now
    BY ChatAssumption DEF TypeInv, TypeOK, Stamp
  <1>3. Remembered'
    <2> SUFFICES ASSUME NEW k \in Clients, NEW a \in accepted'[k]
                 PROVE  a.at <= now /\ (now - a.at < Window => a \in hits'[k])
      BY <1>1 DEF Remembered
    <2>1. CASE a \in accepted[k]
      BY <1>1, <2>1, PruningKeeps DEF WindowInv, Remembered
    <2>2. CASE a \notin accepted[k]
      <3>1. k = c /\ a = Stamp(c)
        BY <1>1, <2>2 DEF TypeInv, TypeOK
      <3>2. hits'[c] = Recent(c) \cup {Stamp(c)}
        BY <1>1 DEF Remember
      <3> QED BY <1>2, <3>1, <3>2
    <2> QED BY <2>1, <2>2
  <1>4. ASSUME NEW k \in Clients, NEW w \in 0 .. now
        PROVE  Cardinality(Within(k, w)') <= PerMin
    <2>1. CASE k # c \/ w < now
      <3>1. Within(k, w)' = Within(k, w)
        BY <1>1, <1>2, <2>1 DEF Within, Ideal!Within, TypeInv, TypeOK
      <3> QED BY <3>1 DEF WindowInv, WindowNeverExceeded
    <2>2. CASE k = c /\ w = now
      <3>1. Within(k, w)' = Within(c, now) \cup {Stamp(c)}
        BY <1>1, <1>2, <2>2 DEF Within, Ideal!Within, TypeInv, TypeOK
      <3>2. IsFiniteSet(Within(c, now)) /\ Cardinality(Within(c, now)) <= Cardinality(Recent(c))
        BY CountsEnough DEF WindowInv
      <3>3. Cardinality(Within(c, now)) \in Nat /\ Cardinality(Recent(c)) \in Nat
        BY <3>2, FS_CardinalityType, LimitType
      <3>4. Cardinality(Within(c, now) \cup {Stamp(c)}) <= Cardinality(Within(c, now)) + 1
        <4> DEFINE S == Within(c, now)
        <4>1. Cardinality(S \cup {Stamp(c)}) = IF Stamp(c) \in S THEN Cardinality(S) ELSE Cardinality(S) + 1
          BY <3>2, FS_AddElement
        <4> HIDE DEF S
        <4>2. Cardinality(S) \in Nat
          BY <3>3 DEF S
        <4>3. Cardinality(S \cup {Stamp(c)}) <= Cardinality(S) + 1
          BY <4>1, <4>2
        <4> QED BY <4>3 DEF S
      <3>5. Cardinality(Within(c, now)) + 1 <= PerMin
        BY <1>1, <1>2, <3>2, <3>3
      <3>6. Cardinality(Within(c, now) \cup {Stamp(c)}) \in Nat
        BY <3>2, FS_AddElement, FS_CardinalityType
      <3> QED BY <1>2, <3>1, <3>3, <3>4, <3>5, <3>6
    <2> QED BY <1>2, <2>1, <2>2
  <1> QED BY <1>1, <1>3, <1>4 DEF WindowInv, WindowNeverExceeded

LEMMA WindowStep == TypeInv /\ WindowInv /\ [Next]_vars => WindowInv'
  <1> SUFFICES ASSUME TypeInv, WindowInv, [Next]_vars PROVE WindowInv'
    OBVIOUS
  <1>1. ASSUME UNCHANGED <<now, hits, accepted>> PROVE WindowInv'
    BY <1>1 DEF WindowInv, Remembered, WindowNeverExceeded, Within, Ideal!Within
  <1>2. CASE Tick
    <2>1. now' = now + 1 /\ hits' = hits /\ accepted' = accepted /\ now \in Nat /\ Window \in Nat
      BY <1>2, ChatAssumption DEF Tick, TypeInv, TypeOK
    <2>2. \A c \in Clients : \A a \in accepted[c] : a.at \in Nat
      BY DEF TypeInv, TypeOK, Stamps
    <2>3. Remembered'
      BY <2>1, <2>2 DEF WindowInv, Remembered
    <2>4. ASSUME NEW c \in Clients, NEW w \in 0 .. now + 1
          PROVE  Cardinality(Within(c, w)') <= PerMin
      <3>1. CASE w \in 0 .. now
        BY <2>1, <3>1 DEF Within, Ideal!Within, WindowInv, WindowNeverExceeded
      <3>2. CASE w = now + 1
        <4>1. Within(c, w)' \subseteq Within(c, now)
          BY <2>1, <2>2, <3>2 DEF Within, Ideal!Within, WindowInv, Remembered
        <4>2. IsFiniteSet(Within(c, now))
          BY CountsEnough DEF WindowInv
        <4>3. Cardinality(Within(c, w)') <= Cardinality(Within(c, now))
          BY <4>1, <4>2, FS_Subset
        <4>4. Cardinality(Within(c, now)) <= PerMin /\ Cardinality(Within(c, now)) \in Nat
          BY <2>1, <4>2, FS_CardinalityType DEF WindowInv, WindowNeverExceeded
        <4>5. Cardinality(Within(c, w)') \in Nat
          BY <4>1, <4>2, FS_Subset, FS_CardinalityType
        <4> QED BY <4>3, <4>4, <4>5, ChatAssumption
      <3> QED BY <2>1, <3>1, <3>2
    <2> QED BY <2>1, <2>3, <2>4 DEF WindowInv, WindowNeverExceeded
  <1>3. ASSUME NEW r \in Slots, NEW c \in Clients, Throttle(r, c) PROVE WindowInv'
    <2>1. Remember(c, {}) /\ now' = now /\ accepted' = accepted
      BY <1>3 DEF Throttle
    <2>2. Remembered'
      BY <2>1, PruningKeeps DEF WindowInv, Remembered
    <2>3. WindowNeverExceeded'
      BY <2>1 DEF WindowInv, WindowNeverExceeded, Within, Ideal!Within
    <2> QED BY <2>2, <2>3 DEF WindowInv
  <1>4. ASSUME NEW r \in Slots, NEW c \in Clients, Pause(r, c) \/ Admit(r, c) PROVE WindowInv'
    BY <1>4, WindowLetThrough DEF Pause, Admit
  <1>5. ASSUME NEW r \in Slots, Thread(r) \/ Respond(r) PROVE WindowInv'
    <2>1. UNCHANGED <<now, hits, accepted>>
      BY <1>5 DEF Thread, Respond, DemoAnswer, CallTools, CallText, CallRetried, CallFails, InCall
    <2> QED BY <1>1, <2>1
  <1>6. CASE UNCHANGED vars
    BY <1>1, <1>6 DEF vars
  <1> QED BY <1>2, <1>3, <1>4, <1>5, <1>6 DEF Next, Arrive

LEMMA WindowInvariant == Spec => [](TypeInv /\ WindowInv)
  <1>1. TypeInv /\ WindowInv /\ [Next]_vars => (TypeInv /\ WindowInv)'
    BY TypeStep, WindowStep
  <1>2. Init => TypeInv /\ WindowInv
    BY TypeInit, WindowInit
  <1> QED BY <1>1, <1>2, PTL DEF Spec

\* However many clients ask, in whatever order, and however long the server runs with its pruned
\* map: no window of the limiter lets more of a client's requests through than allowed
\* (main.py:293-309).
THEOREM LimiterHolds == Spec => []WindowNeverExceeded
  BY WindowInvariant, PTL DEF WindowInv

\* What the map remembers was let through: a refused request leaves nothing behind.
NothingAdded == \A c \in Clients : hits[c] \subseteq accepted[c]

LEMMA AddedStep == TypeInv /\ NothingAdded /\ [Next]_vars => NothingAdded'
  <1> SUFFICES ASSUME TypeInv, NothingAdded, [Next]_vars PROVE NothingAdded'
    OBVIOUS
  <1>1. ASSUME NEW c \in Clients, NEW new, Remember(c, new), NEW k \in Clients
        PROVE  hits'[k] \subseteq hits[k] \cup (IF k = c THEN new ELSE {})
    BY <1>1 DEF Remember, Recent
  <1>2. ASSUME NEW r \in Slots, NEW c \in Clients, Throttle(r, c) PROVE NothingAdded'
    BY <1>1, <1>2 DEF Throttle, NothingAdded
  <1>3. ASSUME NEW r \in Slots, NEW c \in Clients, LetThrough(r, c) PROVE NothingAdded'
    <2>1. Remember(c, {Stamp(c)}) /\ accepted' = [accepted EXCEPT ![c] = @ \cup {Stamp(c)}]
      BY <1>3 DEF LetThrough
    <2>2. ASSUME NEW k \in Clients PROVE hits'[k] \subseteq accepted'[k]
      <3>1. hits'[k] \subseteq hits[k] \cup (IF k = c THEN {Stamp(c)} ELSE {})
        BY <1>1, <2>1
      <3>2. accepted'[k] = accepted[k] \cup (IF k = c THEN {Stamp(c)} ELSE {})
        BY <2>1 DEF TypeInv, TypeOK
      <3> QED BY <3>1, <3>2 DEF NothingAdded
    <2> QED BY <2>2 DEF NothingAdded
  <1>4. CASE UNCHANGED <<hits, accepted>>
    BY <1>4 DEF NothingAdded
  <1>5. ASSUME NEW r \in Slots, Thread(r) \/ Respond(r) PROVE UNCHANGED <<hits, accepted>>
    BY <1>5 DEF Thread, Respond, DemoAnswer, CallTools, CallText, CallRetried, CallFails, InCall
  <1> QED BY <1>2, <1>3, <1>4, <1>5 DEF Next, Arrive, Pause, Admit, Tick, vars

\* Of a client's requests within the window, the map holds those let through, and no other.
LEMMA CountsExactly ==
    ASSUME TypeInv, Remembered, NothingAdded, NEW c \in Clients
    PROVE  Recent(c) = Within(c, now)
  <1>1. Recent(c) \subseteq Within(c, now)
    BY DEF Recent, Within, Ideal!Within, Remembered, NothingAdded
  <1> QED BY <1>1, CountsEnough

\* The handler answers as the limiter that forgets nothing: it lets a request through, and it
\* refuses one, exactly where that one does (main.py:293-309).
THEOREM LimiterRefines == Spec => ImplementsLimiter
  <1>0. \A S : Ideal!Cardinality(S) = Cardinality(S)
    BY DEF Ideal!Cardinality, Cardinality
  <1>1. Init => Ideal!Init /\ NothingAdded
    BY DEF Init, Ideal!Init, NothingAdded
  <1>2. ASSUME TypeInv, WindowInv, NothingAdded, [Next]_vars PROVE [Ideal!Next]_(Ideal!vars)
    <2>1. CASE Tick
      BY <2>1 DEF Tick, Ideal!Next, Ideal!Tick
    <2>2. ASSUME NEW r \in Slots, NEW c \in Clients, LetThrough(r, c) PROVE Ideal!Accept(c)
      <3>1. Cardinality(Within(c, now)) < PerMin
        <4>1. Cardinality(Recent(c)) \in Nat /\ PerMin \in Nat
          BY <1>2, LimitType, ChatAssumption
        <4>2. ~(Cardinality(Recent(c)) >= PerMin)
          BY <2>2 DEF LetThrough, RateLimited
        <4>3. Recent(c) = Within(c, now)
          BY <1>2, CountsExactly DEF WindowInv
        <4>4. Cardinality(Recent(c)) < PerMin
          BY <4>1, <4>2
        <4> QED BY <4>3, <4>4
      <3>2. accepted' = [accepted EXCEPT ![c] = @ \cup {[at |-> now, n |-> Cardinality(@)]}]
            /\ now' = now /\ refused' = refused
        BY <2>2 DEF LetThrough, Stamp
      <3> QED BY <1>0, <3>1, <3>2 DEF Ideal!Accept, Within
    <2>3. ASSUME NEW r \in Slots, NEW c \in Clients, Throttle(r, c) PROVE Ideal!Refuse(c)
      <3>1. Cardinality(Within(c, now)) >= PerMin
        <4>1. Recent(c) = Within(c, now)
          BY <1>2, CountsExactly DEF WindowInv
        <4> QED BY <2>3, <4>1 DEF Throttle, RateLimited
      <3> QED BY <1>0, <2>3, <3>1 DEF Throttle, Ideal!Refuse, Within
    <2>4. ASSUME NEW r \in Slots, Thread(r) \/ Respond(r) PROVE UNCHANGED Ideal!vars
      BY <2>4 DEF Thread, Respond, DemoAnswer, CallTools, CallText, CallRetried, CallFails, InCall, Ideal!vars
    <2>5. CASE UNCHANGED vars
      BY <2>5 DEF vars, Ideal!vars
    <2> QED BY <1>2, <2>1, <2>2, <2>3, <2>4, <2>5 DEF Next, Arrive, Pause, Admit, Ideal!Next
  <1>3. TypeInv /\ NothingAdded /\ [Next]_vars => NothingAdded'
    BY AddedStep
  <1> QED BY <1>1, <1>2, <1>3, WindowInvariant, PTL DEF Spec, ImplementsLimiter, Ideal!Spec

-----------------------------------------------------------------------------
(* The day's allowance.  A request admitted but not yet charged may still   *)
(* add Turns calls: what is charged, with that much set aside for each      *)
(* request under way, never passes the bound.                               *)

Busy == {r \in Slots : req[r].state # "idle"}

Allowance == Cap - 1 + Turns * Cardinality(Slots)

SpendInv ==
    /\ demo => spend.count = 0
    /\ spend.count + Turns * Cardinality(Busy) <= Allowance

LEMMA BusyFinite ==
    ASSUME TypeInv
    PROVE  /\ IsFiniteSet(Busy) /\ Cardinality(Busy) \in Nat
           /\ Cardinality(Slots) \in Nat /\ Cardinality(Busy) <= Cardinality(Slots)
  <1>1. Busy \subseteq Slots /\ IsFiniteSet(Slots)
    BY ChatAssumption DEF Busy
  <1> QED BY <1>1, FS_Subset, FS_CardinalityType

LEMMA Monotone ==
    ASSUME NEW t \in Nat, NEW m \in Nat, NEW n \in Nat, m <= n
    PROVE  t * m <= t * n /\ t * m \in Nat /\ t * n \in Nat
  <1>1. PICK k \in Nat : n = m + k
    <2>1. n - m \in Nat /\ n = m + (n - m)
      OBVIOUS
    <2> QED BY <2>1
  <1>2. t * n = t * m + t * k /\ t * k \in Nat /\ t * m \in Nat
    BY <1>1
  <1> QED BY <1>2

LEMMA TurnsType == Turns \in Nat \ {0} /\ Cap \in Nat \ {0}
  BY ChatAssumption DEF Turns

\* While the count is below the cap, or has not grown, any requests at all may be under way.
LEMMA BelowCap ==
    ASSUME TypeInv, spend.count <= Cap - 1
    PROVE  spend.count + Turns * Cardinality(Busy) <= Allowance
  <1>1. Turns * Cardinality(Busy) <= Turns * Cardinality(Slots) /\ Turns * Cardinality(Busy) \in Nat
        /\ Turns * Cardinality(Slots) \in Nat
    BY BusyFinite, TurnsType, Monotone
  <1>2. spend.count \in Nat
    BY DEF TypeInv, TypeOK
  <1> QED BY <1>1, <1>2, TurnsType DEF Allowance

LEMMA SpendInit == Init => SpendInv
  <1> SUFFICES ASSUME Init PROVE SpendInv
    OBVIOUS
  <1>1. TypeInv
    BY TypeInit
  <1>2. spend.count = 0
    BY DEF Init
  <1>3. spend.count <= Cap - 1
    BY <1>2, TurnsType
  <1> QED BY <1>1, <1>2, <1>3, BelowCap DEF SpendInv

\* A step that leaves every request's slot as it is, and charges nothing, keeps the bound.
LEMMA NothingCharged ==
    ASSUME TypeInv, SpendInv, Busy' = Busy, demo' = demo, spend'.count \in Nat,
           spend'.count <= spend.count
    PROVE  SpendInv'
  <1>1. Allowance' = Allowance /\ spend.count \in Nat
    BY DEF Allowance, TypeInv, TypeOK, Turns
  <1>2. Turns * Cardinality(Busy) \in Nat /\ Allowance \in Int
    BY BusyFinite, TurnsType, Monotone DEF Allowance
  <1>3. spend'.count + Turns * Cardinality(Busy) <= Allowance
    BY <1>1, <1>2 DEF SpendInv
  <1>4. demo' => spend'.count = 0
    BY <1>1 DEF SpendInv
  <1>5. Turns' = Turns /\ Cardinality(Busy)' = Cardinality(Busy)
    BY DEF Turns
  <1> QED BY <1>1, <1>3, <1>4, <1>5 DEF SpendInv

LEMMA SpendRespond ==
    ASSUME TypeInv, TypeInv', SpendInv, NEW r \in Slots, Respond(r)
    PROVE  SpendInv'
  <1>1. Busy' = Busy \ {r} /\ r \in Busy
    BY DEF Respond, Busy, TypeInv, TypeOK, Idle
  <1>2. Cardinality(Busy)' = Cardinality(Busy) - 1 /\ Cardinality(Busy) \in Nat /\ Cardinality(Busy)' \in Nat
    <2>1. IsFiniteSet(Busy) /\ Cardinality(Busy) \in Nat
      BY BusyFinite
    <2>2. IsFiniteSet(Busy \ {r}) /\ Cardinality(Busy \ {r}) = Cardinality(Busy) - 1
      BY <1>1, <2>1, FS_RemoveElement
    <2> QED BY <1>1, <2>1, <2>2, FS_CardinalityType
  <1>3. spend'.count <= spend.count + Turns /\ spend'.count \in Nat /\ spend.count \in Nat
    <2>1. req[r].calls \in 0 .. Iterations + 1
      BY RequestType DEF TypeInv, TypeOK
    <2>2. Count \in Nat /\ Count <= spend.count /\ spend.count \in Nat
      BY CountType DEF TypeInv, TypeOK
    <2>3. spend' = spend \/ spend' = [day |-> Today, count |-> Count + (IF req[r].calls = 0 THEN 1 ELSE req[r].calls)]
      BY DEF Respond
    <2>4. spend'.count = spend.count \/ spend'.count = Count + (IF req[r].calls = 0 THEN 1 ELSE req[r].calls)
      BY <2>3
    <2> QED BY <2>1, <2>2, <2>4, ChatAssumption DEF Turns
  <1>4. spend'.count + Turns * Cardinality(Busy)' <= spend.count + Turns * Cardinality(Busy)
    <2>1. ASSUME NEW t \in Nat, NEW n \in Nat, NEW m \in Nat, n = m - 1 PROVE t * n + t = t * m /\ t * n \in Nat
      BY <2>1, Z3
    <2>2. Turns * Cardinality(Busy)' + Turns = Turns * Cardinality(Busy) /\ Turns * Cardinality(Busy)' \in Nat
      BY <1>2, <2>1, TurnsType
    <2> QED BY <1>3, <2>2, TurnsType
  <1>5. Turns * Cardinality(Busy) \in Nat /\ Turns * Cardinality(Busy)' \in Nat /\ Allowance \in Int
    BY <1>2, BusyFinite, TurnsType, Monotone DEF Allowance
  <1>6. spend'.count + Turns * Cardinality(Busy)' <= Allowance
    BY <1>3, <1>4, <1>5 DEF SpendInv
  <1>7. demo' = demo /\ (demo => spend' = spend) /\ Allowance' = Allowance /\ Turns' = Turns
    BY DEF Respond, Allowance, Turns
  <1> QED BY <1>6, <1>7 DEF SpendInv

LEMMA SpendStep == TypeInv /\ TypeInv' /\ SpendInv /\ [Next]_vars => SpendInv'
  <1> SUFFICES ASSUME TypeInv, TypeInv', SpendInv, [Next]_vars PROVE SpendInv'
    OBVIOUS
  <1>0. spend.count \in Nat /\ spend'.count \in Nat /\ Count \in Nat /\ Count <= spend.count
    BY CountType DEF TypeInv, TypeOK
  <1>1. ASSUME UNCHANGED <<demo, spend, req>> PROVE SpendInv'
    BY <1>0, <1>1, NothingCharged DEF Busy
  <1>2. ASSUME NEW r \in Slots, NEW c \in Clients, Pause(r, c) PROVE SpendInv'
    <2>1. req' = req /\ demo' = demo /\ spend'.count = Count
      BY <1>2 DEF Pause, LetThrough
    <2> QED BY <1>0, <2>1, NothingCharged DEF Busy
  <1>3. ASSUME NEW r \in Slots, NEW c \in Clients, Admit(r, c) PROVE SpendInv'
    <2>1. spend'.count <= Cap - 1 /\ demo' = demo /\ (demo => spend' = spend)
      <3>1. CASE demo
        BY <1>3, <3>1, TurnsType DEF Admit, LetThrough, SpendInv
      <3>2. CASE ~demo
        <4>1. Count < Cap /\ spend'.count = Count
          BY <1>3, <3>2 DEF Admit, SpendRemaining
        <4> QED BY <1>0, <1>3, <3>2, <4>1, TurnsType DEF Admit, LetThrough
      <3> QED BY <3>1, <3>2
    <2>2. (spend.count + Turns * Cardinality(Busy) <= Allowance)'
      <3>1. TypeInv' => ((spend.count <= Cap - 1)' => (spend.count + Turns * Cardinality(Busy) <= Allowance)')
        BY BelowCap, PTL
      <3> QED BY <2>1, <3>1
    <2> QED BY <2>1, <2>2 DEF SpendInv
  <1>4. ASSUME NEW r \in Slots, Thread(r) PROVE SpendInv'
    <2>1. UNCHANGED <<demo, spend>>
      BY <1>4 DEF Thread, DemoAnswer, CallTools, CallText, CallRetried, CallFails, InCall
    <2>2. req[r].state = "turn" /\ req[r] \in Requests
      BY <1>4 DEF Thread, DemoAnswer, CallTools, CallText, CallRetried, CallFails, InCall, TypeInv, TypeOK
    <2>3. PICK q : req' = [req EXCEPT ![r] = q] /\ q.state # "idle"
      <3>1. \A code : Returned(req[r], code).state = "returned"
        BY <2>2 DEF Returned, Requests
      <3>2. NextTurn(req[r]).state = "turn" /\ NextTry(req[r]).state = "turn"
        BY <2>2 DEF NextTurn, NextTry, Requests
      <3> QED BY <1>4, <3>1, <3>2 DEF Thread, DemoAnswer, CallTools, CallText, CallRetried, CallFails, Return
    <2>4. Busy' = Busy
      BY <2>2, <2>3 DEF Busy, TypeInv, TypeOK
    <2> QED BY <1>0, <2>1, <2>4, NothingCharged
  <1>5. ASSUME NEW r \in Slots, Respond(r) PROVE SpendInv'
    BY <1>5, SpendRespond
  <1>6. CASE Tick
    BY <1>1, <1>6 DEF Tick
  <1>7. ASSUME NEW r \in Slots, NEW c \in Clients, Throttle(r, c) PROVE SpendInv'
    BY <1>1, <1>7 DEF Throttle
  <1>8. CASE UNCHANGED vars
    BY <1>1, <1>8 DEF vars
  <1> QED BY <1>2, <1>3, <1>4, <1>5, <1>6, <1>7, <1>8 DEF Next, Arrive

\* Requests that pass the check of the day's allowance together overshoot it by no more than the
\* calls they can make, however many have come before and whatever the date does meanwhile
\* (main.py:345-357, chat.py:244-271).
THEOREM OvershootIsBounded == Spec => []OvershootBounded
  <1>1. TypeInv /\ SpendInv => OvershootBounded
    <2> SUFFICES ASSUME TypeInv, SpendInv PROVE OvershootBounded
      OBVIOUS
    <2>1. Turns * Cardinality(Busy) \in Nat /\ Turns * Cardinality(Slots) \in Nat /\ spend.count \in Nat
      BY BusyFinite, TurnsType, Monotone DEF TypeInv, TypeOK
    <2> QED BY <2>1, TurnsType DEF SpendInv, Allowance, OvershootBounded
  <1>2. Init => TypeInv /\ SpendInv
    BY TypeInit, SpendInit
  <1>3. TypeInv /\ SpendInv /\ [Next]_vars => (TypeInv /\ SpendInv)'
    BY TypeStep, SpendStep
  <1> QED BY <1>1, <1>2, <1>3, PTL DEF Spec
=============================================================================
