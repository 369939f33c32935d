------------------------------- MODULE ChatDesk -------------------------------
(***************************************************************************)
(* A conversation: the browser's chat store (dashboard/src/chatStore.ts)    *)
(* and the turns of run_chat that answer its request (backend/chat.py).     *)
(* The store is one for the whole page, so whatever the user does while a   *)
(* request is under way meets it.                                           *)
(***************************************************************************)
EXTENDS ChatAnswer

CONSTANTS
    Questions,    \* what the user may ask
    CostOf,       \* question -> its cost against the history budget
    AnswerCost,   \* cost of an answer
    Calls,        \* tool calls the model may make
    Answers,      \* what it may state: sets of numbers
    Iterations,   \* chat_max_tool_iterations; one call to a turn
    MaxIds        \* bound: bubbles ever made

\* What the tools may return, and an answer made of it.
Results == UNION {Returns(call) : call \in Calls}

Replies == [tokens : Answers \cup {{}}, grounded : BOOLEAN, card : Results \cup {None},
            range : {result.period : result \in Results} \cup {None}]

\* A turn of the history, as the server gets it.
Turns == [text : Questions \cup {"answer"}, cost : Nat \ {0}]

Bubbles == [id : Nat, role : {"user", "assistant"}, status : {"complete", "sending", "error"},
            text : Questions \cup {None, "answer"}, reply : Replies \cup {None}]

Outcomes == [how : {"aborted", "failed", "answered"}, reply : Replies \cup {None}]

Requests == [bubble : Nat, question : Questions, history : Seq(Turns), turns : 0 .. Iterations,
             results : Seq(Results), context : Seq(Turns), outcome : Outcomes \cup {None}]

ASSUME DeskAssumption ==
    /\ CostOf \in [Questions -> Nat \ {0}] /\ AnswerCost \in Nat \ {0}
    /\ Iterations \in Nat /\ MaxIds \in Nat
    /\ \A call \in Calls : call.limit \in Int \cup {None}
    /\ None \notin Int \cup Questions \cup Requests \cup {"answer"}

VARIABLES
    messages,     \* the bubbles, in order
    busy,
    request,      \* the fetch under way with its AbortController, None when there is none
    ids           \* ids given to bubbles so far

vars == <<messages, busy, request, ids>>

Bubble(id, role, status, text, reply) == [id |-> id, role |-> role, status |-> status, text |-> text, reply |-> reply]

Init ==
    /\ messages = << >>
    /\ busy = FALSE
    /\ request = None
    /\ ids = 0

-----------------------------------------------------------------------------
(* The store's operations.                                                  *)

CostOfText(m) == IF m.role = "user" THEN CostOf[m.text] ELSE AnswerCost

\* historyOf: completed turns with text.
HistoryOf(msgs) ==
    LET told == Only(msgs, {i \in DOMAIN msgs : msgs[i].status = "complete" /\ msgs[i].text # None})
    IN  [i \in DOMAIN told |-> [text |-> told[i].text, cost |-> CostOfText(told[i])]]

\* dispatch, up to its await
Dispatch(msgs, question, history, id) ==
    /\ busy' = TRUE
    /\ messages' = Append(msgs, Bubble(id, "assistant", "sending", None, None))
    /\ request' = [bubble |-> id, question |-> question, history |-> history, turns |-> 0, results |-> << >>,
                   context |-> Trim(Handed(history, [text |-> question, cost |-> CostOf[question]])),
                   outcome |-> None]

Send(q) ==
    /\ ~busy
    /\ ids + 2 <= MaxIds
    /\ Dispatch(Append(messages, Bubble(ids, "user", "complete", q, None)), q, HistoryOf(messages), ids + 1)
    /\ ids' = ids + 2

LastQuestion(msgs) == Max({0} \cup {i \in DOMAIN msgs : msgs[i].role = "user"})

\* A failed bubble and one whose answer was not grounded both offer it; it is the store's last
\* question that is asked again.
CanRetry == \E i \in DOMAIN messages :
    \/ messages[i].status = "error"
    \/ messages[i].reply # None /\ ~messages[i].reply.grounded

\* What is history to the question at idx.
Earlier(msgs, idx) == SubSeq(msgs, 1, idx - 1)

\* Wrong variant of NoErrors: the last answer goes, whatever it is.
NoLast(msgs) == SubSeq(msgs, 1, Len(msgs) - 1)

NoErrors(msgs) == Only(msgs, {i \in DOMAIN msgs : msgs[i].status # "error"})

RetryLast ==
    /\ ~busy
    /\ CanRetry
    /\ ids < MaxIds
    /\ LET msgs == NoErrors(messages)
           idx == LastQuestion(msgs)
       IN  idx # 0 /\ Dispatch(msgs, msgs[idx].text, HistoryOf(Earlier(msgs, idx)), ids)
    /\ ids' = ids + 1

Clear ==
    /\ ~busy
    /\ messages' = << >>
    /\ UNCHANGED <<busy, request, ids>>

\* How a fetch settles: "aborted", "failed" or "answered", with its reply.
Settled(how, reply) ==
    /\ request' = [request EXCEPT !.outcome = [how |-> how, reply |-> reply]]
    /\ UNCHANGED <<messages, busy, ids>>

Unsettled == request # None /\ request.outcome = None

\* Stop: aborting a fetch that has settled already changes nothing.
Stop == Unsettled /\ Settled("aborted", None)

-----------------------------------------------------------------------------
(* The server: run_chat under the handler.                                  *)

\* Wrong variant of CallTool: the turns are not counted against the iterations.
CallToolAgain(call) ==
    /\ Unsettled
    /\ \E result \in Returns(call) : request' = [request EXCEPT !.turns = @ + 1, !.results = Append(@, result)]
    /\ UNCHANGED <<messages, busy, ids>>

CallTool(call) ==
    /\ Unsettled
    /\ request.turns < Iterations
    /\ \E result \in Returns(call) : request' = [request EXCEPT !.turns = @ + 1, !.results = Append(@, result)]
    /\ UNCHANGED <<messages, busy, ids>>

Reply(tokens) == Unsettled /\ Settled("answered", Finish(tokens, request.results))

\* A refused or failed request, or no connection.
Fail == Unsettled /\ Settled("failed", None)

-----------------------------------------------------------------------------
(* dispatch, after its await                                                *)

\* Wrong variant of Patch: whatever bubble stands first.
PatchFirst(id, status, text, reply) ==
    [messages EXCEPT ![1] = [messages[1] EXCEPT !.status = status, !.text = text, !.reply = reply]]

Patch(id, status, text, reply) ==
    [i \in DOMAIN messages |-> IF messages[i].id # id THEN messages[i]
                               ELSE [messages[i] EXCEPT !.status = status, !.text = text, !.reply = reply]]

\* Wrong variant of HasSettled: an abort goes unnoticed.
HasSettledOnItsOwn == request # None /\ request.outcome # None /\ request.outcome.how # "aborted"

HasSettled == request # None /\ request.outcome # None

Without(id) == Only(messages, {i \in DOMAIN messages : messages[i].id # id})

Land ==
    /\ HasSettled
    /\ messages' = CASE request.outcome.how = "aborted" -> Without(request.bubble)
                     [] request.outcome.how = "failed"  -> Patch(request.bubble, "error", None, None)
                     [] OTHER -> Patch(request.bubble, "complete", "answer", request.outcome.reply)
    /\ request' = None
    /\ busy' = FALSE
    /\ UNCHANGED ids

Serve == (\E call \in Calls : CallTool(call)) \/ (\E tokens \in Answers : Reply(tokens)) \/ Fail

Next == (\E q \in Questions : Send(q)) \/ RetryLast \/ Clear \/ Stop \/ Serve \/ Land

Spec == Init /\ [][Next]_vars

\* The server ends its turns or fails, and the browser runs the continuation of a settled fetch.
FairSpec == Spec /\ WF_vars(Serve) /\ WF_vars(Land)

-----------------------------------------------------------------------------
(* Properties.                                                              *)

TypeOK ==
    /\ messages \in Seq(Bubbles)
    /\ \A i \in DOMAIN messages :
         /\ messages[i].id < ids
         /\ \A j \in DOMAIN messages : messages[i].id = messages[j].id => i = j
    /\ busy \in BOOLEAN
    /\ request \in Requests \cup {None}
    /\ ids \in Nat

\* The page is busy exactly while its one request is under way, and then the placeholder of that
\* request is the last bubble and the only one without an outcome: no retry, stop or clear in
\* between leaves a bubble waiting forever or a request without one (chatStore.ts:36-106).
BusyIsSending ==
    LET sending == {i \in DOMAIN messages : messages[i].status = "sending"} IN
    /\ busy <=> request # None
    /\ busy => sending = {Len(messages)} /\ messages[Len(messages)].id = request.bubble
    /\ ~busy => sending = {}

\* Whether sent or asked again, a question goes to the model once, after what was said before it:
\* the context the server keeps ends with it, holds nothing said since, leaves nothing out but
\* the oldest turns, and stays within the budget unless the question alone passes it
\* (chatStore.ts:81-99, chat.py:63-78).
ContextIsRecent ==
    request # None =>
        LET idx == LastQuestion(messages)
            told == HistoryOf(SubSeq(messages, 1, idx - 1))
            ctx == request.context
        IN  /\ ctx = LastOf(told \o <<[text |-> messages[idx].text, cost |-> CostOf[messages[idx].text]]>>, Len(ctx))
            /\ Cost(ctx) <= Budget \/ Len(ctx) = 1
            /\ Len(ctx) <= Len(told) => Cost(ctx) + told[Len(told) - Len(ctx) + 1].cost > Budget \/ Len(ctx) > MaxHistory

\* The quantities the ledger can back: amounts and confidences of rows, what their other columns,
\* lines, taxes and events hold, figures of a summary, the match score, counts, what the lists of
\* runs and failed documents show, and the years of all of these.  Numbers of invoices and ids are
\* not among them.
Asked == {Span(call.from, call.to) : call \in Calls} \cup {Resolved(phrase, Today) : phrase \in Phrases}

YearOf(d) == IF d = None THEN {} ELSE {d.y * Unit}

SummaryFigures(p) ==
    LET s == Summary(SummaryRows(View.rows, p))
    IN  {s.spend, s.credits, s.pending} \cup {s.byCategory[c] : c \in DOMAIN s.byCategory}
        \cup {s.byVendor[v] : v \in DOMAIN s.byVendor}

\* The leaves of an entry under no identifier's key.
Unnamed(entry) == {leaf \in UNION {entry[k] : k \in DOMAIN entry \ DenyKeys} : leaf.keys \cap DenyKeys = {}}

\* A "resolved" event has the invoice number its credit note refers to under a key of its own
\* (resolve.py:160,163), which is not an identifier's.
Refers(leaf) == "ref" \in leaf.keys

Shown(entry) == {leaf \in Unnamed(entry) : ~Refers(leaf)}

Lists(row) == {row.lines, row.taxes, row.events}

Parts(row) == {row.columns} \cup UNION {ToSet(list) : list \in Lists(row)}

Noted == ToSet(View.dead) \cup ToSet(View.runs) \cup UNION {Parts(row) : row \in ToSet(View.rows)}

MostCounted ==
    Len(View.rows) + Len(View.dead) + Len(View.runs) + Cardinality(View.vendors) + Cardinality(Statuses) + Cardinality(Phrases)

Lengths == UNION {{Len(list) : list \in Lists(row)} : row \in ToSet(View.rows)}

RowFigures == UNION {{row.total, row.base, row.confidence} : row \in ToSet(View.rows)}
AskedFigures == UNION {SummaryFigures(p) : p \in Asked}
NotedFigures == UNION {{leaf.n : leaf \in Shown(entry)} : entry \in Noted}

RowYears == UNION {YearOf(row.date) : row \in ToSet(View.rows)}
AskedYears == UNION {YearOf(p.from) \cup YearOf(p.to) : p \in Asked}
NotedYears == UNION {{y * Unit : y \in UNION {leaf.years : leaf \in Shown(entry)}} : entry \in Noted}

Counts == {n * Unit : n \in 0 .. MostCounted \cup Lengths \cup {100}}

Backed == ((RowFigures \cup AskedFigures \cup NotedFigures) \ {None}) \cup RowYears \cup AskedYears \cup NotedYears \cup Counts

\* The invoice numbers audit trails refer to, where they are all digits or hold a year.
Referring == {leaf \in UNION {Unnamed(entry) : entry \in Noted} : Refers(leaf)}

Referenced == ({leaf.n : leaf \in Referring} \ {None}) \cup {y * Unit : y \in UNION {leaf.years : leaf \in Referring}}

\* What a call's own words say when its result repeats them: a search that matches no vendor, a
\* tool that does not exist.
Repeating == {call \in Calls : call.tool \notin Tools
                  \/ (call.tool = "search_invoices_by_vendor" /\ call.vendor \notin View.vendors \cup {None})}

Repeated == UNION {call.words : call \in Repeating}

Echoes == ({leaf.n : leaf \in Repeated} \ {None}) \cup {y * Unit : y \in UNION {leaf.years : leaf \in Repeated}}

\* chat.py:112-181: a figure can be shown only when the ledger backs it, as it is or a fraction of
\* it as a percentage, or when a call that came to nothing repeats it, whichever tools were called
\* and in whichever order.  One that merely has the digits of an id or of an invoice number never
\* is, with one exception that chat.py:172-173 does not make: the number a credit note refers to,
\* which its audit trail tells.
GroundedIsBacked ==
    \A i \in DOMAIN messages : messages[i].reply # None =>
        \A tok \in messages[i].reply.tokens :
            \E q \in Backed \cup Echoes \cup Referenced : Candidates(tok) \cap AddValue(q) # {}

\* Nothing but clearing the conversation takes an answer away: a retry drops failed bubbles only
\* and an abort its own placeholder only (chatStore.ts:62,95,102).
AnswersStay ==
    [][\A i \in DOMAIN messages : messages[i].reply # None =>
          messages' = << >> \/ \E j \in DOMAIN messages' : messages'[j] = messages[i]]_vars

\* A request ends, with an answer, an error or a stop, and the page can be used again.
EveryRequestEnds == busy ~> ~busy
=============================================================================
