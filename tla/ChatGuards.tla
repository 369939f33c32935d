------------------------------ MODULE ChatGuards ------------------------------
(***************************************************************************)
(* POST /api/chat (backend/main.py) and the loop it runs in a thread        *)
(* (backend/chat.py, run_chat).  The handler admits a request in one step   *)
(* of the event loop, awaits the thread, and charges the day's allowance in *)
(* a later step: whatever other requests do falls in between.  What the     *)
(* answer says is ChatAnswer's concern; here a model call only ends in tool *)
(* calls, in text or in a failure.                                          *)
(***************************************************************************)
EXTENDS Naturals, FiniteSets

CONSTANTS
    Clients,     \* client addresses
    Slots,       \* requests the server handles at the same time
    PerMin,      \* chat_rate_limit_per_min
    Window,      \* the 60 seconds of the sliding window, in ticks
    DayLength,   \* ticks to a day
    Cap,         \* chat_daily_spend_calls
    Iterations,  \* chat_max_tool_iterations
    MaxTries,    \* retry_max_tries
    MaxTime      \* bound: ticks of the clock

ASSUME ChatAssumption ==
    /\ IsFiniteSet(Slots)
    /\ PerMin \in Nat \ {0} /\ Window \in Nat \ {0} /\ DayLength \in Nat \ {0}
    /\ Cap \in Nat \ {0} /\ Iterations \in Nat /\ MaxTries \in Nat \ {0}
    /\ MaxTime \in Nat

VARIABLES
    demo,      \* chat_demo_mode, fixed when the process starts
    now,       \* the clock
    hits,      \* _rl_hits: client -> the requests remembered, {} when it has no entry
    spend,     \* _spend: the day counted for and the calls charged to it
    req,       \* slot -> the request handled in it
    accepted,  \* every request ever let through, by client (history)
    refused    \* the clients answered 429 at the present time (history)

vars == <<demo, now, hits, spend, req, accepted, refused>>

\* A request is remembered by its time; n tells two of one client apart.
Stamps == [at : Nat, n : Nat]

Idle == [state |-> "idle", calls |-> 0, tries |-> 0, code |-> 0]

\* "turn": the thread is in a model call; "returned": it is done, the handler has not resumed.
\* A slot whose response is sent is free for another request.
Requests == [state : {"idle", "turn", "returned"}, calls : 0 .. Iterations + 1,
             tries : 0 .. MaxTries - 1, code : {0, 200, 500, 503}]

TypeOK ==
    /\ demo \in BOOLEAN
    /\ now \in Nat
    /\ hits \in [Clients -> SUBSET Stamps]
    /\ spend \in [day : Nat, count : Nat]
    /\ req \in [Slots -> Requests]
    /\ accepted \in [Clients -> SUBSET Stamps]
    /\ refused \subseteq Clients

Init ==
    /\ demo \in BOOLEAN
    /\ now = 0
    /\ hits = [c \in Clients |-> {}]
    /\ spend = [day |-> 0, count |-> 0]
    /\ req = [r \in Slots |-> Idle]
    /\ accepted = [c \in Clients |-> {}]
    /\ refused = {}

-----------------------------------------------------------------------------
(* The two guards.                                                          *)

Today == now \div DayLength

Recent(c) == {h \in hits[c] : now - h.at < Window}

RateLimited(c) == Cardinality(Recent(c)) >= PerMin

\* Wrong variant of Stale: goes by any request of a client, not its last.
StaleByAny(k) == hits[k] = {} \/ \E h \in hits[k] : now - h.at >= Window

\* Other clients are forgotten only when their last request is older than the window.
Stale(k) == \A h \in hits[k] : now - h.at > Window

Stamp(c) == [at |-> now, n |-> Cardinality(accepted[c])]

Remember(c, new) ==
    hits' = [k \in Clients |-> IF k = c THEN Recent(c) \cup new ELSE {h \in hits[k] : ~Stale(k)}]

\* _spend_day: the count starts again when the date has changed.
Count == IF spend.day = Today THEN spend.count ELSE 0

\* Wrong variant of SpendRemaining: one call too many.
SpendRemainingInclusive == Count <= Cap

SpendRemaining == Count < Cap

-----------------------------------------------------------------------------
(* One step of the event loop: from the request's arrival to the await.     *)

\* Wrong variant of Throttle: a refused request counts for the limiter.
ThrottleRemembered(r, c) ==
    /\ req[r].state = "idle"
    /\ RateLimited(c)
    /\ Remember(c, {Stamp(c)})
    /\ refused' = refused \cup {c}
    /\ UNCHANGED <<demo, now, spend, req, accepted>>

\* Answered 429.
Throttle(r, c) ==
    /\ req[r].state = "idle"
    /\ RateLimited(c)
    /\ Remember(c, {})
    /\ refused' = refused \cup {c}
    /\ UNCHANGED <<demo, now, spend, req, accepted>>

LetThrough(r, c) ==
    /\ req[r].state = "idle"
    /\ ~RateLimited(c)
    /\ Remember(c, {Stamp(c)})
    /\ accepted' = [accepted EXCEPT ![c] = @ \cup {Stamp(c)}]
    /\ UNCHANGED <<demo, now, refused>>

\* Answered 503; the request counts for the limiter all the same.
Pause(r, c) ==
    /\ LetThrough(r, c)
    /\ ~demo /\ ~SpendRemaining
    /\ spend' = [day |-> Today, count |-> Count]
    /\ UNCHANGED req

Admit(r, c) ==
    /\ LetThrough(r, c)
    /\ demo \/ SpendRemaining
    /\ spend' = IF demo THEN spend ELSE [day |-> Today, count |-> Count]
    /\ req' = [req EXCEPT ![r] = [Idle EXCEPT !.state = "turn", !.calls = IF demo THEN 0 ELSE 1]]

-----------------------------------------------------------------------------
(* The thread: run_chat, each model call under with_retry.                  *)

\* What becomes of a request: run_chat is over, the next turn's call, the next try of a call.
Returned(q, code) == [q EXCEPT !.state = "returned", !.code = code]

NextTurn(q) == [q EXCEPT !.calls = @ + 1, !.tries = 0]

NextTry(q) == [q EXCEPT !.tries = @ + 1]

Return(r, code) == req' = [req EXCEPT ![r] = Returned(@, code)]

\* demo_chat answers from a script, without a model call.
DemoAnswer(r) ==
    /\ req[r].state = "turn" /\ demo
    /\ Return(r, 200)
    /\ UNCHANGED <<demo, now, hits, spend, accepted, refused>>

InCall(r) ==
    /\ req[r].state = "turn" /\ ~demo
    /\ UNCHANGED <<demo, now, hits, spend, accepted, refused>>

\* Wrong variant of CallTools: the loop goes on for as long as the model asks.
CallToolsForever(r) == InCall(r) /\ req' = [req EXCEPT ![r] = [@ EXCEPT !.tries = 0]]

\* The model asks for tools: they are executed (execute never raises) and the next turn is
\* called.  The turn after the last iteration offers no tools.
CallTools(r) ==
    /\ InCall(r)
    /\ req[r].calls <= Iterations
    /\ req' = [req EXCEPT ![r] = NextTurn(@)]

CallText(r) == InCall(r) /\ Return(r, 200)

\* Wrong variant of CallRetried: the tries are not counted against retry_max_tries.
CallRetriedAgain(r) == InCall(r) /\ req' = [req EXCEPT ![r] = NextTry(@)]

\* A transient failure is tried again.
CallRetried(r) ==
    /\ InCall(r)
    /\ req[r].tries + 1 < MaxTries
    /\ req' = [req EXCEPT ![r] = NextTry(@)]

\* A permanent failure, or the last of the tries, leaves run_chat as an LLMError (503); any
\* other exception as a 500.
CallFails(r) == InCall(r) /\ \E code \in {500, 503} : Return(r, code)

-----------------------------------------------------------------------------
(* One step of the event loop: from the await to the response.  Only an     *)
(* answer is charged, and to the day it is given on.                        *)

Respond(r) ==
    /\ req[r].state = "returned"
    /\ spend' = IF req[r].code = 200 /\ ~demo
                  THEN [day |-> Today, count |-> Count + (IF req[r].calls = 0 THEN 1 ELSE req[r].calls)]
                  ELSE spend
    /\ req' = [req EXCEPT ![r] = Idle]
    /\ UNCHANGED <<demo, now, hits, accepted, refused>>

Tick ==
    /\ now < MaxTime
    /\ now' = now + 1 /\ refused' = {}
    /\ UNCHANGED <<demo, hits, spend, req, accepted>>

Arrive(r) == \E c \in Clients : Throttle(r, c) \/ Pause(r, c) \/ Admit(r, c)

Thread(r) == DemoAnswer(r) \/ CallTools(r) \/ CallText(r) \/ CallRetried(r) \/ CallFails(r)

Next == Tick \/ \E r \in Slots : Arrive(r) \/ Thread(r) \/ Respond(r)

Spec == Init /\ [][Next]_vars

\* A model call returns or times out, and the event loop resumes a handler whose thread is done.
FairSpec == Spec /\ \A r \in Slots : WF_vars(Thread(r)) /\ WF_vars(Respond(r))

-----------------------------------------------------------------------------
(* Properties.                                                              *)

Ideal == INSTANCE Limiter WITH now <- now, accepted <- accepted, refused <- refused

Within(c, w) == Ideal!Within(c, w)

\* The limiter that prunes its map at every request answers as the one that forgets nothing: it
\* lets a request through, and it refuses one, exactly where that one does.  So nobody is turned
\* away for requests that were refused, have left the window or are another client's
\* (main.py:293-309).
ImplementsLimiter == Ideal!Spec

\* The sliding-window limiter: whatever other clients do, and however the map of recent requests
\* is pruned meanwhile, no stretch of the window's length lets more than chat_rate_limit_per_min
\* requests of one client through (main.py:293-309).
WindowNeverExceeded == \A c \in Clients : \A w \in 0 .. now : Cardinality(Within(c, w)) <= PerMin

\* The allowance is read before the await and charged after it, so it can be overshot, by no more
\* than what the requests under way together can call (main.py:345-357, chat.py:244-271).
Turns == Iterations + 1

OvershootBounded == spend.count <= Cap - 1 + Turns * Cardinality(Slots)

\* The tool loop ends: every request let into the thread gets its response, whatever the model
\* asks for and however often it fails (chat.py:244-271, retry.py:27-34).
EveryRequestAnswered == \A r \in Slots : req[r].state = "turn" ~> req[r].state = "idle"
=============================================================================
