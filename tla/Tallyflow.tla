------------------------------- MODULE Tallyflow -------------------------------
(***************************************************************************)
(* The program: the pipeline's workers over one store, together with what  *)
(* people do to that store through the dashboard and backend/main.py:      *)
(* decide on documents in the review queue, delete invoices, dismiss and   *)
(* retry dead-letter entries.                                              *)
(***************************************************************************)
EXTENDS Pipeline

CONSTANTS
    MaxReviews, \* bound: review decisions
    MaxDeletes  \* bound: deleted invoices

VARIABLES
    queue,      \* the review queue as the dashboard last loaded it
    deleting,   \* the DELETE request in progress (Postgres: three transactions)
    reviews,    \* review decisions taken
    deletes     \* deletes started

userVars == <<queue, deleting, reviews, deletes>>
vars == <<storeVars, workerVars, userVars>>

ASSUME TallyflowAssumption == MaxReviews \in Nat /\ MaxDeletes \in Nat

NoDelete == [pc |-> "idle", id |-> None]
Deleting == [pc : {"idle", "clear_supersedes", "clear_credit", "delete", "failed"}, id : OptId]

Init ==
    /\ StoreInit /\ WorkerInit
    /\ queue = {} /\ deleting = NoDelete /\ reviews = 0 /\ deletes = 0

-----------------------------------------------------------------------------
\* The dashboard loads /api/review-queue.
LoadQueue ==
    /\ reviews < MaxReviews
    /\ queue' = ReviewQueue
    /\ UNCHANGED <<storeVars, workerVars, deleting, reviews, deletes>>

\* approve -> clean, dismiss -> failed, on whatever status the row has by now.
ReviewAction(i, status) ==
    /\ i \in Stored /\ reviews < MaxReviews
    /\ UpdateStatus(i, status)
    /\ contested' = IF rows[i].status = "superseded" THEN contested \cup {Key(rows[i])}
                    ELSE contested
    /\ reviews' = reviews + 1
    /\ UNCHANGED <<links, originals, vendors, dead, payloads, issued,
                   job, faults, jobs, owed, queue, deleting, deletes>>

\* The documents whose only trace in the store is row i.
HeldBy(i) == {rows[i].hash} \cup {l[2] : l \in {m \in links : m[1] = i}}

\* DELETE /api/invoice/{id} on SQLite.
DeleteInvoice(i) ==
    /\ Backend = "sqlite" /\ i \in Stored /\ deletes < MaxDeletes
    /\ DeleteCleared(i)
    /\ owed' = owed \ HeldBy(i)
    /\ deletes' = deletes + 1
    /\ UNCHANGED <<vendors, dead, payloads, issued, job, faults, jobs, contested,
                   queue, deleting, reviews>>

\* ... and on Postgres, where the pooled connection is in autocommit mode.
StartDelete(i) ==
    /\ Backend = "postgres" /\ deleting.pc = "idle" /\ i \in Stored /\ deletes < MaxDeletes
    /\ deleting' = [pc |-> "clear_supersedes", id |-> i]
    /\ deletes' = deletes + 1
    /\ UNCHANGED <<storeVars, workerVars, queue, reviews>>

DeleteStepSupersedes ==
    /\ deleting.pc = "clear_supersedes"
    /\ ClearSupersedes(deleting.id)
    /\ deleting' = [deleting EXCEPT !.pc = "clear_credit"]
    /\ UNCHANGED <<links, originals, vendors, dead, payloads, issued, workerVars,
                   queue, reviews, deletes>>

DeleteStepCredit ==
    /\ deleting.pc = "clear_credit"
    /\ ClearCredit(deleting.id)
    /\ deleting' = [deleting EXCEPT !.pc = "delete"]
    /\ UNCHANGED <<links, originals, vendors, dead, payloads, issued, workerVars,
                   queue, reviews, deletes>>

DeleteStepRow ==
    /\ deleting.pc = "delete" /\ deleting.id \in Stored
    /\ \/ /\ Unreferenced(deleting.id)
          /\ DeleteRow(deleting.id)
          /\ owed' = owed \ HeldBy(deleting.id)
          /\ deleting' = NoDelete
       \/ /\ ~Unreferenced(deleting.id)
          /\ deleting' = [deleting EXCEPT !.pc = "failed"]
          /\ UNCHANGED <<rows, links, originals, owed>>
    /\ UNCHANGED <<vendors, dead, payloads, issued, job, faults, jobs, contested,
                   queue, reviews, deletes>>

\* The foreign-key error leaves as an HTTP 500.
DeleteReturns ==
    /\ deleting.pc = "failed"
    /\ deleting' = NoDelete
    /\ UNCHANGED <<storeVars, workerVars, queue, reviews, deletes>>

\* The server stops between two of the statements.
DeleteStops ==
    /\ deleting.pc # "idle" /\ Fault("crash")
    /\ deleting' = NoDelete
    /\ UNCHANGED <<storeVars, job, jobs, owed, contested, queue, reviews, deletes>>

\* POST /api/dead-letter/{id}/dismiss
Dismiss(e) ==
    /\ reviews < MaxReviews
    /\ owed' = owed \ {dead[e]}
    /\ DeleteDeadLetter(e)
    /\ reviews' = reviews + 1
    /\ UNCHANGED <<rows, links, originals, vendors, payloads, issued,
                   job, faults, jobs, contested, queue, deleting, deletes>>

UserStep ==
    \/ LoadQueue
    \/ \E i \in queue, status \in {"clean", "failed"} : ReviewAction(i, status)
    \/ \E i \in Stored : DeleteInvoice(i) \/ StartDelete(i)
    \/ DeleteStepSupersedes \/ DeleteStepCredit \/ DeleteStepRow \/ DeleteReturns \/ DeleteStops
    \/ \E e \in Entries : Dismiss(e)

\* A step of the code inside the call of w.
Progress(w) == WorkerStep(w) /\ UNCHANGED userVars

Next ==
    \/ \E w \in Workers : Progress(w) \/ ((Begin(w) \/ FaultStep(w)) /\ UNCHANGED userVars)
    \/ UserStep

Spec == Init /\ [][Next]_vars

\* Threads that are inside a call keep running; nothing obliges anyone to start one.
FairSpec == Spec /\ \A w \in Workers : WF_vars(Progress(w))

-----------------------------------------------------------------------------
\* Every table and every local variable holds values of its declared domain.
\* (schema.sql:21-54, retry.py, pipeline.py)
TypeOK ==
    /\ StoreType /\ WorkerType
    /\ queue \subseteq Ids /\ deleting \in Deleting
    /\ reviews \in Nat /\ deletes \in Nat

\* At any moment a vendor's invoice number has at most one version that is not
\* superseded, however uploads, polls, retries, faults, crashes, deletes and
\* reviews interleave, unless a row of that very number was written from a
\* decision the table had already overtaken, an FX failure reopened a late
\* revision, or a reviewer decided on a superseded row (README.md:90,
\* resolve.py:135-152, pipeline.py:184-256).
OneActivePerKey ==
    \A i, j \in Stored :
        /\ NormNum(rows[i].number) # None /\ NormNum(rows[j].number) # None
        /\ Key(rows[i]) = Key(rows[j]) /\ Key(rows[i]) \notin contested
        /\ rows[i].status # "superseded" /\ rows[j].status # "superseded"
        => i = j

\* What the references of a row mean, as long as what they refer to is stored: a
\* revision is one version above the row it supersedes, for the same vendor; only a
\* credit note credits, and what it credits is no credit note, again of the same
\* vendor.  So references never run in a circle, and on Postgres neither one dangles
\* (resolve.py:94-166, schema.sql:45-46).
VersionChain ==
    \A i \in Stored :
        LET s == rows[i].supersedes
            c == rows[i].creditOf
        IN  /\ s \in Stored => /\ rows[i].version = rows[s].version + 1
                               /\ rows[i].vendor = rows[s].vendor
            /\ c \in Stored => /\ rows[i].docType = "credit_note"
                               /\ rows[c].docType # "credit_note"
                               /\ rows[i].vendor = rows[c].vendor
            /\ Backend = "postgres" => {s, c} \subseteq Stored \cup {None}

\* A set that holds with each of its rows the one it supersedes ...
ClosedBack(S) == \A i \in S : rows[i].supersedes \in Stored => rows[i].supersedes \in S

\* ... and the least such set around j: the row itself and all it replaced, directly or not.
Ancestors(j) == {k \in Stored : \A S \in SUBSET Stored : j \in S /\ ClosedBack(S) => k \in S}

\* A superseded row of a number is always answered for: while nothing is deleted, a row
\* that is not superseded carries the number itself or replaced, directly or not, one
\* that does, even when a receipt without a number took its place, versions came out of
\* order or side by side, or an FX failure changed a status (resolve.py:78-90,135-152,
\* pipeline.py:213-229).
SupersededIsReplaced ==
    deletes = 0 =>
    \A i \in Stored : rows[i].status = "superseded" /\ NormNum(rows[i].number) # None =>
        \E j \in Stored : /\ rows[j].status # "superseded"
                          /\ \E k \in Ancestors(j) : Key(rows[k]) = Key(rows[i])

InFlight(d) == \E w \in Workers : job[w].doc = d /\ job[w].pc \notin {"idle", "retry"}

Accounted(d) ==
    \/ HashStored(d)
    \/ \E l \in links : l[2] = d
    \/ \E e \in Entries : dead[e] = d
    \/ InFlight(d)

\* A document a call returned a result for is in a stored row, linked to one, in
\* the dead-letter list, or being run again, until a user removes it
\* (retry.py:62-70, AUTOMATION_BUILD_DOC.md:222 "never silently dropped").
NothingOwedIsLost == \A d \in owed : Accounted(d)

\* Some row of the number has no date to compare by: the guard against late versions
\* lets an older one through after it (resolve.py:138).
HasUndated(key) == \E i \in Stored : Key(rows[i]) = key /\ rows[i].date = None

\* Expense reflects the latest version: while every row of a number is dated, none
\* that was superseded is dated after the one that still counts (resolve.py:136-142).
LatestWins ==
    deletes = 0 =>
    \A i, j \in Stored :
        /\ NormNum(rows[i].number) # None /\ Key(rows[i]) = Key(rows[j])
        /\ Key(rows[i]) \notin contested /\ ~HasUndated(Key(rows[i]))
        /\ rows[i].status # "superseded" /\ rows[j].status = "superseded"
        => rows[j].date <= rows[i].date

\* The bytes of a stored document can be produced: they are kept as its original,
\* about to be, or on disk as the payload of the failure that kept them from being
\* kept (pipeline.py:255-258, retry.py:62-68).
OriginalRecoverable ==
    \A i \in Stored :
        \/ i \in originals
        \/ \E w \in Workers : job[w].pc = "original" /\ job[w].id = i
        \/ \E w \in Workers : job[w].pc = "fail" /\ job[w].doc = rows[i].hash
        \/ \E h \in Hosts : <<h, rows[i].hash>> \in payloads

\* A document that is being run ends up on record: every call that was begun comes
\* to a stored row, a link or a dead-letter entry (with_retry is bounded, run_safely
\* catches everything).
EveryJobSettles ==
    \A d \in Docs : InFlight(d) ~> \/ HashStored(d)
                                   \/ \E l \in links : l[2] = d
                                   \/ \E e \in Entries : dead[e] = d
=============================================================================
