-------------------------------- MODULE Limiter --------------------------------
(***************************************************************************)
(* What the chat endpoint's limiter promises, without the bookkeeping of    *)
(* backend/main.py: a client is let through while fewer than PerMin of its  *)
(* requests let through lie within the last Window ticks, and refused       *)
(* otherwise.  Nothing is ever forgotten.                                   *)
(***************************************************************************)
EXTENDS Naturals, FiniteSets

CONSTANTS Clients, PerMin, Window

VARIABLES
    now,       \* the clock
    accepted,  \* client -> every request let through, [at, n]
    refused    \* the clients refused at the present time

vars == <<now, accepted, refused>>

Within(c, w) == {a \in accepted[c] : a.at <= w /\ w - a.at < Window}

Init == now = 0 /\ accepted = [c \in Clients |-> {}] /\ refused = {}

Accept(c) ==
    /\ Cardinality(Within(c, now)) < PerMin
    /\ accepted' = [accepted EXCEPT ![c] = @ \cup {[at |-> now, n |-> Cardinality(@)]}]
    /\ UNCHANGED <<now, refused>>

Refuse(c) ==
    /\ Cardinality(Within(c, now)) >= PerMin
    /\ refused' = refused \cup {c}
    /\ UNCHANGED <<now, accepted>>

Tick == now' = now + 1 /\ refused' = {} /\ UNCHANGED accepted

Next == Tick \/ \E c \in Clients : Accept(c) \/ Refuse(c)

Spec == Init /\ [][Next]_vars
=============================================================================
