-------------------------------- MODULE Mailbox --------------------------------
(***************************************************************************)
(* Email ingestion (backend/ingest_email.py, backend/run_cron.py): pollers *)
(* that go through the newest messages of one mailbox, run the documents   *)
(* of those not seen before and mark them seen.  Pollers are the server's  *)
(* background loop and the calls of run_scheduled; nothing keeps two of    *)
(* them apart.                                                             *)
(*                                                                         *)
(* What running a document does to the ledger is Pipeline's concern: here  *)
(* it ends on record (a row, a link or a dead-letter entry) or raises.     *)
(***************************************************************************)
EXTENDS Naturals, Sequences

CONSTANTS
    None,
    Mail,        \* messages that may arrive
    MessageIds,  \* values of the Message-ID header
    Header,      \* message -> its Message-ID, None when it has none
    Docs,        \* documents; one of a split file counts as an attachment
    Attachments, \* message -> its attachments, in order
    Body,        \* message -> its text as a document, None when it is empty
    Junk,        \* attachments is_probably_junk drops: logos, tiny inline images
    Promo,       \* messages is_probably_promo_body drops
    Unstorable,  \* documents that fail and whose payload cannot be written either
    Loops,       \* the auto-poll threads
    Runners,     \* threads that serve /api/run, the scheduled process
    Window,      \* max_messages
    MaxMail,     \* bound: messages that arrive
    MaxRuns,     \* bound: scheduled runs
    MaxFaults    \* bound: exceptions and stops in a poll

VARIABLES
    inbox,       \* the folder, by message sequence number
    seen,        \* processed_emails
    recorded,    \* documents a pipeline call returned a result for
    runs,        \* processing_runs, in order of their start
    poll,        \* poller -> the poll in progress
    faults

vars == <<inbox, seen, recorded, runs, poll, faults>>

Pollers == Loops \cup Runners

ASSUME MailboxAssumption ==
    /\ None \notin Docs /\ None \notin MessageIds
    /\ MessageIds \cap Mail = {}
    /\ Header \in [Mail -> MessageIds \cup {None}]
    /\ Attachments \in [Mail -> Seq(Docs)]
    /\ Body \in [Mail -> Docs \cup {None}]
    /\ Loops \cap Runners = {}
    /\ Window \in Nat \ {0} /\ MaxMail \in Nat /\ MaxRuns \in Nat /\ MaxFaults \in Nat

\* What a message is known by.  Without a header it is its sha256, so the message itself.
Key(m) == IF Header[m] = None THEN m ELSE Header[m]

\* extract_documents: the attachments worth reading; the body (position 0) only when
\* there is no attachment at all.
Wanted(m) ==
    IF Attachments[m] # << >>
    THEN {i \in DOMAIN Attachments[m] : Attachments[m][i] \notin Junk}
    ELSE IF Body[m] = None \/ m \in Promo THEN {} ELSE {0}

Document(m, i) == IF i = 0 THEN Body[m] ELSE Attachments[m][i]

\* A call of poll_and_process.  known is a history: seen as it was when the poll began.
Poll == [pc : {"idle", "list", "peek", "fetch", "documents", "finish"},
         run : Nat,          \* its row of processing_runs, 0 for the auto-poll
         first : Nat, last : Nat,  \* the oldest and the newest message it has listed
         num : Nat,          \* the message at hand
         left : SUBSET Nat,  \* documents of the message still to run
         known : SUBSET (MessageIds \cup Mail)]

Idle == [pc |-> "idle", run |-> 0, first |-> 0, last |-> 0, num |-> 0, left |-> {}, known |-> {}]

Init ==
    /\ inbox = << >> /\ seen = {} /\ recorded = {} /\ runs = << >>
    /\ poll = [p \in Pollers |-> Idle] /\ faults = 0

-----------------------------------------------------------------------------
Message(p) == inbox[poll[p].num]
Update(p, c) == poll' = [poll EXCEPT ![p] = c]
NextMessage(p) == Update(p, [poll[p] EXCEPT !.pc = "peek", !.num = @ + 1, !.left = {}])

Arrive(m) ==
    /\ Len(inbox) < MaxMail
    /\ \A k \in DOMAIN inbox : inbox[k] # m
    /\ inbox' = Append(inbox, m)
    /\ UNCHANGED <<seen, recorded, runs, poll, faults>>

NewPoll(r) == [pc |-> "list", run |-> r, first |-> 0, last |-> 0, num |-> 0, left |-> {},
               known |-> seen]

\* The auto-poll loop wakes up; run_scheduled: start_run.
Begin(p) ==
    /\ poll[p].pc = "idle"
    /\ \/ /\ p \in Loops
          /\ Update(p, NewPoll(0))
          /\ UNCHANGED runs
       \/ /\ p \in Runners /\ Len(runs) < MaxRuns
          /\ runs' = Append(runs, "started")
          /\ Update(p, NewPoll(Len(runs) + 1))
    /\ UNCHANGED <<inbox, seen, recorded, faults>>

\* Wrong variant of FirstListed: off by one when the folder is smaller than the window.
FirstFromZero == IF Len(inbox) > Window THEN Len(inbox) - Window + 1 ELSE 0

\* ids[-max_messages:]
FirstListed == IF Len(inbox) > Window THEN Len(inbox) - Window + 1 ELSE 1

\* Wrong variant of List: ids[:max_messages], the oldest messages.
ListOldest(p) ==
    /\ poll[p].pc = "list"
    /\ Update(p, [poll[p] EXCEPT !.pc = "peek", !.num = 1, !.first = 1,
                      !.last = IF Len(inbox) > Window THEN Window ELSE Len(inbox)])
    /\ UNCHANGED <<inbox, seen, recorded, runs, faults>>

\* SEARCH ALL, cut to the newest messages.
List(p) ==
    /\ poll[p].pc = "list"
    /\ Update(p, [poll[p] EXCEPT !.pc = "peek", !.num = FirstListed,
                      !.first = FirstListed, !.last = Len(inbox)])
    /\ UNCHANGED <<inbox, seen, recorded, runs, faults>>

\* The header alone: a message whose Message-ID is in the table is skipped.
Peek(p) ==
    /\ poll[p].pc = "peek" /\ poll[p].num <= poll[p].last
    /\ IF Header[Message(p)] # None /\ Header[Message(p)] \in seen
       THEN NextMessage(p)
       ELSE Update(p, [poll[p] EXCEPT !.pc = "fetch"])
    /\ UNCHANGED <<inbox, seen, recorded, runs, faults>>

\* Wrong variant of Fetch: the table is not asked about the hash.
FetchUnchecked(p) ==
    /\ poll[p].pc = "fetch"
    /\ Update(p, [poll[p] EXCEPT !.pc = "documents", !.left = Wanted(Message(p))])
    /\ UNCHANGED <<inbox, seen, recorded, runs, faults>>

\* Wrong variant of Fetch: the message is marked before its documents are run.
FetchAndMark(p) ==
    /\ poll[p].pc = "fetch"
    /\ Update(p, [poll[p] EXCEPT !.pc = "documents", !.left = Wanted(Message(p))])
    /\ seen' = seen \cup {Key(Message(p))}
    /\ UNCHANGED <<inbox, recorded, runs, faults>>

\* The whole message; without a Message-ID it is looked up by its hash only now.
Fetch(p) ==
    /\ poll[p].pc = "fetch"
    /\ IF Header[Message(p)] = None /\ Key(Message(p)) \in seen
       THEN NextMessage(p)
       ELSE Update(p, [poll[p] EXCEPT !.pc = "documents", !.left = Wanted(Message(p))])
    /\ UNCHANGED <<inbox, seen, recorded, runs, faults>>

\* The documents of a message are run in order.
IsFirst(i, S) == \A j \in S : i <= j

\* Wrong variant of RunDocument: a document that raises is stepped over.
RunDocumentOrSkip(p) ==
    /\ poll[p].pc = "documents"
    /\ \E i \in poll[p].left :
         /\ IsFirst(i, poll[p].left)
         /\ \/ /\ Document(Message(p), i) \in Unstorable
               /\ NextMessage(p) /\ UNCHANGED recorded
            \/ /\ Document(Message(p), i) \notin Unstorable
               /\ recorded' = recorded \cup {Document(Message(p), i)}
               /\ Update(p, [poll[p] EXCEPT !.left = @ \ {i}])
    /\ UNCHANGED <<inbox, seen, runs, faults>>

\* One document through run_safely, which raises when it can keep no payload.
RunDocument(p) ==
    /\ poll[p].pc = "documents"
    /\ \E i \in poll[p].left :
         /\ IsFirst(i, poll[p].left)
         /\ \/ /\ Document(Message(p), i) \in Unstorable
               /\ Update(p, Idle) /\ UNCHANGED recorded
            \/ /\ Document(Message(p), i) \notin Unstorable
               /\ recorded' = recorded \cup {Document(Message(p), i)}
               /\ Update(p, [poll[p] EXCEPT !.left = @ \ {i}])
    /\ UNCHANGED <<inbox, seen, runs, faults>>

\* mark_email_processed, after all of them.
Mark(p) ==
    /\ poll[p].pc = "documents" /\ poll[p].left = {}
    /\ seen' = seen \cup {Key(Message(p))}
    /\ NextMessage(p)
    /\ UNCHANGED <<inbox, recorded, runs, faults>>

\* The poll returns; run_scheduled goes on to finish_run.
Return(p) ==
    /\ poll[p].pc = "peek" /\ poll[p].num > poll[p].last
    /\ Update(p, IF p \in Runners THEN [poll[p] EXCEPT !.pc = "finish"] ELSE Idle)
    /\ UNCHANGED <<inbox, seen, recorded, runs, faults>>

\* finish_run.
FinishRun(p) ==
    /\ poll[p].pc = "finish"
    /\ runs' = [runs EXCEPT ![poll[p].run] = "finished"]
    /\ Update(p, Idle)
    /\ UNCHANGED <<inbox, seen, recorded, faults>>

\* The mail server or the store raises, or the process stops.  The loop goes on with
\* its next poll; a scheduled run is never finished.
PollStops(p) ==
    /\ poll[p].pc # "idle" /\ faults < MaxFaults
    /\ faults' = faults + 1
    /\ Update(p, Idle)
    /\ UNCHANGED <<inbox, seen, recorded, runs>>

PollStep(p) ==
    \/ List(p) \/ Peek(p) \/ Fetch(p) \/ RunDocument(p) \/ Mark(p) \/ Return(p) \/ FinishRun(p)

Next ==
    \/ \E m \in Mail : Arrive(m)
    \/ \E p \in Pollers : Begin(p) \/ PollStep(p) \/ PollStops(p)

Spec == Init /\ [][Next]_vars

\* A thread inside a poll keeps running; the loop polls again every poll_interval_sec,
\* whatever the last poll raised.  Nobody has to start a run.
FairSpec ==
    /\ Spec
    /\ \A p \in Pollers : WF_vars(PollStep(p))
    /\ \A p \in Loops : WF_vars(Begin(p))

-----------------------------------------------------------------------------
\* The folder, the tables and the local variables of each poll hold values of
\* their domains, and a poll is at a message it has listed (schema.sql:110-126).
TypeOK ==
    /\ inbox \in Seq(Mail)
    /\ seen \subseteq MessageIds \cup Mail /\ recorded \subseteq Docs
    /\ runs \in Seq({"started", "finished"})
    /\ poll \in [Pollers -> Poll] /\ faults \in Nat
    /\ \A p \in Pollers :
        /\ poll[p].last <= Len(inbox)
        /\ poll[p].pc \in {"peek", "fetch", "documents"} => poll[p].num >= 1
        /\ poll[p].pc \in {"fetch", "documents"} => poll[p].num <= poll[p].last

DocumentsOf(m) == {Document(m, i) : i \in Wanted(m)}

\* Whatever polls overlap, raise or stop, a message-id is in processed_emails only
\* when every document of a message that carries it is on record
\* (ingest_email.py:226-227).
MarkedIsRecorded ==
    \A key \in seen : \E k \in DOMAIN inbox :
        Key(inbox[k]) = key /\ DocumentsOf(inbox[k]) \subseteq recorded

\* A poll leaves no message behind: all that it has passed are marked, by it or by
\* another, so a run is finished only when its whole window is
\* (ingest_email.py:212-229, run_cron.py:23-24).
NothingSteppedOver ==
    \A p \in Pollers :
        poll[p].pc \in {"peek", "fetch", "documents", "finish"} =>
            \A k \in poll[p].first .. poll[p].num - 1 : Key(inbox[k]) \in seen

\* A message that was marked when a poll began is not run by that poll, with or
\* without a Message-ID (ingest_email.py:193-196 "idempotent replay").
MarkedIsNotRunAgain ==
    \A p \in Pollers : poll[p].pc = "documents" => Key(Message(p)) \notin poll[p].known

InWindow(k) == k \in DOMAIN inbox /\ k >= FirstListed

\* The messages of the window up to k that make every poll raise.
HeldBackBy(k) ==
    {j \in DOMAIN inbox : /\ InWindow(j) /\ j <= k
                          /\ DocumentsOf(inbox[j]) \cap Unstorable # {}}

\* While the loop polls, a message of the window is marked, or newer ones push it out
\* of the window, unless one before it makes every poll raise
\* (main.py:42-53, ingest_email.py:211).
EveryMailIsRun ==
    \A k \in 1 .. MaxMail :
        InWindow(k) /\ HeldBackBy(k) = {}
            ~> k \in DOMAIN inbox /\ (Key(inbox[k]) \in seen \/ ~InWindow(k))
=============================================================================
