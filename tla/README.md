# TallyFlow, specified and checked

TallyFlow turns invoices that arrive by email or by upload into rows of a ledger,
adds them up, and answers questions about them. This directory holds TLA+ modules
translated from its source, the configurations with which TLC checks small instances
of them, and theorems about them that TLAPS proves for every value of the constants.
Paths below are relative to the repository (`src/`).

Contents: [the system](#the-system), [the modules](#the-modules),
[the runs](#the-runs), [what the code does not keep](#what-the-code-does-not-keep),
[the proofs](#the-proofs), [what is not modelled](#what-is-not-modelled),
[the plan](#the-plan).

## The system

A document enters through one of four doors: an upload (`POST /api/ingest`), the
mailbox poll of the server's background thread, the same poll in a scheduled run
(`POST /api/run`, called hourly by Cloud Scheduler, or `run_cron` on a GitHub Actions
machine), and the retry of a dead-lettered document. Every door leads to `run_safely`
around `with_retry` around `process_document`, which talks to the store one
transaction at a time and to an LLM in between. Nothing is locked across those calls,
so the program is a set of workers that interleave at every store call; people act on
the same store through the dashboard. The chat assistant only reads the store; its
handler awaits a thread, so requests interleave around that await.

| Component | State it keeps | Operations | Interacts with |
|---|---|---|---|
| Resolution engine, `backend/resolve.py` | none | `resolve` | called by the pipeline with the vendor's rows |
| Store, `backend/store.py` (SQLite), `backend/store_pg.py` (Postgres), `backend/db/` | invoices and their children, events, vendors, dead letters, runs, processed messages, settings | one method per transaction | everything below |
| Document pipeline, `backend/pipeline.py` | local variables of a call | `process_document`, `_store_non_invoice`, `split_documents` | store, LLM, FX service |
| Retry and dead letter, `backend/retry.py` | payload files on the local disk | `with_retry`, `run_safely`, `run_file`, `retry_dead_letter` | pipeline, store |
| HTTP API, `backend/main.py` | the auto-poll thread; rate-limiter windows and the daily spend counter | ingest, review, delete, retry and dismiss, settings, triggered run, chat | pipeline, store, chat |
| Email ingestion, `backend/ingest_email.py` | processed message ids (in the store) | `poll_and_process`, `process_email_bytes` | mailbox, retry |
| Scheduled runs and digest, `backend/run_cron.py`, `backend/digest.py` | processing runs (in the store) | `run_scheduled`, `send_digest` | email ingestion, store |
| Chat assistant, `backend/chat.py`, `backend/chat_tools.py` | the message list and tool results of a call | `run_chat`: history trim, tool loop, grounding, card | LLM, reads the store |
| Splitting, extraction, classification: `preprocess.py`, `extract.py`, `classify.py` | none | split a file, detect its kind, chunk its images, read it, repair, merge | LLM, called by the pipeline |
| Judgement: `normalize.py`, `validate.py`, `fx.py` | none | dates and currencies, reconciliation, confidence, status, conversion | called by the pipeline |
| Reports: `summary.py`, `daterange.py`, the store's feed and period queries | none | the reconciled summary, relative periods, the activity feed | read the store; called by the API and the chat's tools |
| Dashboard stores, `dashboard/src/chatStore.ts`, `uploadStore.ts` | the transcript and its request; the upload list and its busy flag | send, stop, retry, clear; ingest, clear | HTTP API |
| Dashboard views, `dashboard/src/views`, `components` | what they loaded | show, decide on a loaded queue | HTTP API |
| Generator, `generator/` | none | writes sample invoices | not part of the running program |

What makes each of them correct, and what makes that hard:

* **Resolution and pipeline.** A number of a vendor has one current version; it is
  the latest; versions are chained; what is superseded was replaced. Hard because
  candidates are read in one transaction and the row is written in another, because
  documents arrive in any order, and because a row may be deleted or reviewed between
  the two.
* **Store.** Uniqueness of a file's hash and of a vendor's name, foreign keys, and
  which statements are one transaction. Hard because SQLite and Postgres differ
  (foreign keys, the CHECK on `source`, autocommitted statements in a deletion).
* **Retry.** Whatever fails ends on record, with its bytes, and can be replayed. Hard
  because each of these is a separate write, on a disk or in a table.
* **Review and deletion.** A decision concerns the row as it was when it was loaded.
* **Email, runs.** Every message is run at least once and recorded; hard because of
  overlapping polls, the window of fifty messages, and crashes before the mark.
* **Chat endpoint.** No client exceeds its rate, the daily allowance is overshot by a
  bounded amount, every request is answered. Hard because the limiter prunes its map
  while others use it, and because the allowance is read before an await and charged
  after it.
* **Chat answers.** Only figures the ledger backs are shown, whatever tools the model
  calls; the history keeps the question. Hard because digits of ids look like amounts
  and because the token budget meets histories of any shape.
* **Dashboard stores.** A bubble or an upload always gets its outcome, and its own.
  Hard because stop, retry, clear and further selections meet a request at any point.
* **Reading a file.** No page is lost or read twice by splitting, chunking, repairing
  and retrying; one document's failure leaves the others of its file alone.
* **Judgement and reports.** A clean row has a figure and a certain date; periods meet
  without gap or overlap on every day of the calendar; sums add up.

## The modules

Each component is a module; a module `EXTENDS` the one it acts on.

    Resolve <- Ledger <- Pipeline <- Tallyflow <- Claims <- MCTallyflow
                                         ^
                                         +-- TallyflowProofs <- HistoryProofs

    Mailbox <- MCMailbox                 Limiter <= ChatGuards <- MCChatGuards
       ^                                 (INSTANCE)     ^
       +-- MailboxProofs                                +-- ChatGuardsProofs

    Reports <- Books                  <- MCReports
       ^
       +-- ChatAnswer <- ChatDesk     <- MCChatDesk
       +-- Assessment <- Intake       <- MCIntake
       +-- Lemmas     <- ReportsProofs (of Books), IntakeProofs (of Intake),
                         ChatDeskProofs (of ChatDesk)

| Module | Models | State | Actions and operators |
|---|---|---|---|
| `Resolve` | `backend/resolve.py` | none | `Outcomes(inc, cand)`: the decisions `resolve()` may take |
| `Ledger` | the store's tables and transactions, the summary's rule for a row | `rows` (invoices), `links` (events `duplicate_linked`), `originals` (invoice_files), `vendors`, `dead` (dead_letter), `payloads` (files on a host's disk), `issued` (uuids) | `SaveInvoice`, `UpdateStatus`, `DeleteCleared`, `ClearSupersedes`, `ClearCredit`, `DeleteRow`, `AddDeadLetter`, `DeleteDeadLetter`, `Insertable`, `Contribution` |
| `Pipeline` | `process_document`, `with_retry`, `run_safely`, `retry_dead_letter` | `job` (per worker: the next call `pc` and the local variables), counters, the histories `owed` and `contested` | one action per store or LLM call |
| `Tallyflow` | the whole, with the dashboard's users | `queue` (the loaded review queue), `deleting` (a Postgres deletion under way), counters | `LoadQueue`, `ReviewAction`, `DeleteInvoice`, `StartDelete` and the steps after it, `Dismiss` |
| `Claims` | nothing new: statements of the documents that the code refutes | | |
| `Mailbox` | `poll_and_process`, `process_email_bytes`, `run_scheduled`, the auto-poll loop | `inbox` (the folder), `seen` (processed_emails), `runs` (processing_runs), `recorded` (documents a pipeline call returned for), `poll` (per poller: the next call and its local variables) | `Arrive`, `Begin`, `List`, `Peek`, `Fetch`, `RunDocument`, `Mark`, `Return`, `FinishRun`, `PollStops` |
| `ChatGuards` | `chat_endpoint` with its limiter and spend cap, and the turns and retries of `run_chat` | `hits` (`_rl_hits`), `spend` (`_spend`), `req` (per slot: the request handled in it), `demo`, `now`, the histories `accepted` and `refused` | `Throttle`, `Pause`, `Admit`, `DemoAnswer`, `CallTools`, `CallText`, `CallRetried`, `CallFails`, `Respond`, `Tick` |
| `Limiter` | what the limiter promises: a window of requests, nothing forgotten | `now`, `accepted`, `refused` | `Accept`, `Refuse`, `Tick` |
| `ChatAnswer` | the history trim, the eleven read-only tools, the grounding check, card and period of an answer | none | `Trim`, `Execute`, `Returns`, `Collect`, `Grounded`, `Card`, `ResolvedRange`, `Finish` |
| `ChatDesk` | `chatStore.ts`, and the turns of `run_chat` that answer its request | `messages`, `busy`, `request` (the fetch and its AbortController), `ids` | `Send`, `RetryLast`, `Clear`, `Stop`, `CallTool`, `Reply`, `Fail`, `Land` |
| `Reports` | `daterange.py`, `summary.py`, the store's `summary_rows` and `build_activity_rows` | none | `Resolved`, `SummaryRows`, `Summary`, `Duration`, `ActivityFeed` |
| `Books` | the store's `activity_feed`; the inputs of `Reports` | `today`, `rows` (the invoices stored so far), `log` (the events of the first of them) | `NextDay`, `Store`, `Log`, `Feed` |
| `Assessment` | `normalize.py` (dates, currencies), `validate.py`, `fx.py` | none | `NormalizeDate`, `NormalizeCurrency`, `ConvertToBase`, `Reconcile`, `Confidence`, `Assess` |
| `Intake` | `uploadStore.ts`, `/api/ingest`, `run_file`, splitting, classification, chunked extraction and its merge | `items`, `busy`, `loops` (ingest calls under way), `server` (the ingestion the server is in) | `Ingest`, `Clear`, `ConnectionFails`, `Begin`, `Open`, `Classify`, `Extract`, `Malformed`, `TransientFailure`, `PermanentFailure`, `Judge`, `Save`, `Respond`, `ServerStops` |
| `MC*` | the small instances | | |
| `Lemmas` | facts the proofs share: least and largest elements, counting up to a position, finite sums | | |
| `*Proofs` | the theorems | | |

How the code of the ledger is read:

* **A call is a worker, a store call is a step.** `pc` names the call a worker makes
  next: `gate` is `exists_by_hash`, `duplicate` the event and reload after a hit,
  `read` type detection, classification and extraction, `normalize` and `upsert` /
  `insert_vendor` the vendor, `resolve` the candidates, the decision, the status
  and the FX lookup, `link` the duplicate's event and reload, `save` the
  transaction of `save_invoice`, `original` `save_original`, `finish` the last event
  and reload, `fail` the except branch of `run_safely`, `retry` a
  `retry_dead_letter` that has read its entry and not deleted it yet. What lies
  between two store calls reads and writes local variables only, so it belongs to
  the step before.
* **`resolve()` is a set of decisions.** The candidates come without an ORDER BY, and
  the code takes the first hit; any of the hits may be first. `max()` over equal
  keys is treated the same way.
* **Spellings of a number** are members of a set with the function `CanonNum` that
  upper-cases and squeezes blanks; a blank number is kept apart from a missing one,
  as `resolve.py` tells them apart.
* **Amounts** are integers in one unit; the two tolerances are constants. The
  comparison is `max(abs, pct * larger)` multiplied by 100.
* **A document stands for its sha256.** What the LLM reads from it is any member of
  `Readings[d]`, a reading that already went through normalisation and validation;
  `assessed` is the verdict of the latter, `base` the total converted at the rate
  of its date. How a verdict comes about is `Assessment`'s.
* **Backends.** `Backend` selects the constraints an INSERT meets, one or two steps
  for `upsert_vendor`, and one or three transactions for a deletion.
* **`/api/ingest` is a coroutine that never awaits** while it runs the pipeline, so a
  host is inside one upload at a time (`UploadTurn` in `Pipeline`, `server` in
  `Intake`); polls, retries and reviews run in threads beside it.
* **Faults** are actions of their own, bounded by `MaxFaults` and limited to
  `FaultKinds`: a transient LLM error (`llm`), an FX lookup that fails (`fx`), any
  other exception (`error`), a dead-letter write that fails (`dead_letter`), a
  process that stops inside a call (`crash`).
* **Histories.** `owed` collects documents some call returned a result for; a user
  who deletes the row or dismisses the entry that holds one takes it out. `contested`
  collects the keys of rows that were written from a decision which the table had
  overtaken, of late revisions that an FX failure reopened, and of superseded rows
  a reviewer decided on. No action reads them.
* **The mailbox is a module of its own**, because what a poll does to a message and what
  the pipeline does to a document meet in one place only: `run_safely` returns, which
  puts the document on record (a row, a link or a dead-letter entry, by
  `EveryJobSettles` and `NothingOwedIsLost` above), or it raises. It raises when the
  document fails and its payload cannot be written; `Unstorable` is the set of such
  documents. A poller is the server's loop or a thread that serves `/api/run` (or the
  scheduled process); any number of them overlap. A message is known by its Message-ID,
  or by its hash when it has none, which is the message itself. `PollStops` is an
  exception of the mail server or the store, or a stop of the process; all three leave
  the tables as they are and the poll's local variables gone. `known` is a history:
  `seen` as the poll found it.

How the code of the chat, the uploads and the reports is read:

* **A handler is two steps around its await.** `chat_endpoint` runs on the event loop:
  from the request to `run_in_threadpool` nothing else of the loop happens, so `Admit`,
  `Pause` and `Throttle` are one step each, and so is `Respond`, from the thread's end to
  the response. Between them the thread makes its model calls, one step each. The clock is
  read once per step; a day is `DayLength` ticks and a window `Window` of them.
* **A browser store is event-driven.** An operation runs to its first await, the
  continuation runs when the fetch has settled; the two are separate actions
  (`Dispatch` and `Land`; `Ingest` and `MoveOn`). A fetch settles once: an abort after its
  answer changes nothing. A request whose connection breaks stays with the server.
* **Numbers in `ChatAnswer` and `Assessment` are hundredths**, because the grounding check
  treats fractions as percentages and because rounding is half up to the cent. A text is
  reduced to the number it spells or the years it mentions, which is all the check takes
  from it; names of vendors spell and mention none. A tool result is the set of its leaves,
  each with the keys of the dictionaries it lies under, which decide whether it counts
  (`DenyKeys`). What an invoice has besides the columns that lists show, its other columns,
  lines, taxes and events with their details, is part of the ledger's `View` as such leaves, and
  `get_invoice` and `explain_invoice` return it (`Detail`). A call returns its tool's
  result or, when the tool raises, an error (`Returns`). Besides its arguments a call has its `words`: what its query says, which a
  search without a match and an unknown tool repeat.
* **A list query is a choice of positions.** `Only` takes the elements of a sequence at a set of
  positions, in order; a query is the set of positions its WHERE clause admits. A summary is
  computed from rows keyed by those positions, because nothing in it depends on their order.
  A stable sort is stated by rank: the place of an entry is the number of those that go first.
* **A page is one line item and perhaps an invoice number.** Whether the merged reading of
  a document has the items of its pages once and in order is then a question about a
  sequence of page numbers. Line items and tax lines reach the judgement as their sums.
* **What the store holds already is not `Intake`'s concern**: its documents are new, and
  the store may refuse any of them. Racing documents are `Pipeline`'s.
* **Months, leap years and quarters are computed**, not taken from a library: `dateutil`'s
  `relativedelta` and `calendar.monthrange` are modelled by what they do to a date.

Some definitions have a twin introduced by "Wrong variant of": a plausible mistake in
the same code. Nothing uses the twins; put in the place of the right definition, each
makes the property it is paired with in PROJECT.json fail, which shows that the property
depends on that code.

| In | Twins |
|---|---|
| `Resolve`, `Ledger`, `Pipeline` | `SameVersion`, `ArrivalOrder`, `LateAndRetiring`; `SaveUnmarked`, `CascadeEvents`, `LogOnly`; `AssumeStillStored`, `DeadLetterBare` |
| `Mailbox` | `FirstFromZero`, `ListOldest`, `FetchUnchecked`, `FetchAndMark`, `RunDocumentOrSkip` |
| `ChatGuards` | `ThrottleRemembered`, `StaleByAny`, `SpendRemainingInclusive`, `CallToolsForever`, `CallRetriedAgain` |
| `ChatAnswer`, `ChatDesk` | `TrimOldest`, `CollectAll`; `PatchFirst`, `NoLast`, `HasSettledOnItsOwn`, `CallToolAgain` |
| `Reports`, `Books` | `EndOfMonth30`, `InPeriodOpen`, `DurationToLast`; `Oldest` |
| `Assessment`, `Intake` | `ConfidenceLenient`, `NumericUnflagged`; `StartsUnnumbered`, `ChunksOverlap`, `MalformedAgain`, `ConcludedOrEnded`, `PatchItemAt`, `MoveOnOrStop` |

## The runs

`Mailbox_polls` takes `MCMailbox`: up to five messages, which are an invoice with two
documents and a logo, the same delivered again, one without Message-ID or attachment, a
promotion, and one whose attachment fails and cannot be kept. The ledger's runs take
`MCTallyflow`: one vendor and up to nine documents, which are an invoice `first` and its
re-export (`copy`, number in lower case), its later version (`revised`), a version of the
same date (`amended`), a poor scan that carries an earlier date and needs review
(`blurred`), a version without a date (`undated`), a credit note on it (`credit`), an
undated receipt of the same amount without a number (`receipt`), and a picture (`junk`).

| Run | Instance | Properties | Shows |
|---|---|---|---|
| `Race_sqlite` | 2 workers, `first copy revised`, 3 calls, 1 LLM outage or exception anywhere, 1 review, 1 deletion | `TypeOK`, `OneActivePerKey`, `NothingOwedIsLost`, `OriginalRecoverable`, `SupersededIsReplaced` | whatever the order of the store calls, a number has one active version unless it is contested, a document that was answered for is on record, the bytes of every stored row can be produced, from the original or from a payload, and what is superseded has its successor |
| `Race_postgres` | 2 workers, `first revised credit junk`, 3 calls, 1 crash or failing dead-letter write, 1 review, 1 deletion in three transactions | `VersionChain` | a revision is one version above what it supersedes, a credit goes from a credit note to an invoice, both within one vendor, and neither reference dangles |
| `History_sequential` | 1 worker, all nine documents, 4 calls in any order, 1 FX failure, 1 review | `LatestWins`, `SupersededIsReplaced` | the row of a number that counts is the latest dated one, in every order of arrival of dated versions, and no number disappears behind a superseded row |
| `Settles` | 2 workers, `first copy revised`, 2 calls, 2 faults, 1 review, 1 deletion, fairness | `EveryJobSettles` | a document under way comes to a row, a link or a dead-letter entry |
| `Mailbox_polls` | the loop and one scheduled run, three of the five messages in any order, a window of two, 1 exception or stop, fairness | `TypeOK`, `MarkedIsRecorded`, `NothingSteppedOver`, `MarkedIsNotRunAgain`, `EveryMailIsRun` | a marked message is on record, a poll leaves nothing behind and runs nothing it found marked, and a message that no other holds back is run or pushed out of the window |
| `Chat_guards` | 2 clients, 2 requests at a time, 2 requests to a window of 2 ticks, 3 ticks over a day's end, a daily cap of 2, 1 tool iteration, 2 tries, with and without demo mode, fairness | `TypeOK`, `WindowNeverExceeded`, `OvershootBounded`, `ImplementsLimiter`, `EveryRequestAnswered` | the pruned limiter lets through and refuses exactly what the one that forgets nothing does, the allowance is overshot by no more than the requests under way can call, and every request let in is answered |
| `Chat_desk` | 2 questions (one of them as long as the history budget), a ledger of 3 rows with their events, the last a credit note on the second, 15 tool calls each of which may fail, 4 answers that state amounts, a share, an invoice number nothing refers to, the one the credit note refers to and the words of a search, 2 iterations, at most 1 turn of history handed over, 4 bubbles, fairness | `TypeOK`, `BusyIsSending`, `ContextIsRecent`, `GroundedIsBacked`, `AnswersStay`, `EveryRequestEnds` | bubbles and request agree through stops, retries and clears; the model gets the recent past; only figures are shown that the ledger backs, that a call without result repeats, or that the credit note refers to |
| `Reports_days` | 12 days, three from each of the end of a year, a leap day, the start of a quarter and the end of a February; 3 rows or events; a feed of 2 documents | `PeriodsTile`, `SummaryAdds`, `FeedIsTail`, `DurationIsFinal` | periods meet, their summaries add up, the feed has each of the newest documents once and no older one, a processing time does not change afterwards |
| `Uploads` | 5 files (two invoices in one PDF with unnumbered pages, a three-page scan, a PDF with one scanned page, a broken PDF, a logo) in 3 selections, 8 extractions, chunks of 2, 2 attempts, 2 tries, 2 ingest calls, fairness | `TypeOK`, `PagesCovered`, `ReadingComplete`, `EveryDocumentAnswered`, `OutcomesAreTheirOwn`, `CleanHasFigure`, `CleanDateIsCertain`, `EveryUploadSettles` | no page is lost or read twice, every document of a response has its result at its own item, clean rows have a figure and a certain date, every upload shown as processing gets its outcome |
| `Claim_*` | the smallest instance with the counterexample | one each | see the next section |

**Bounds.** `MaxJobs`, `MaxFaults`, `MaxReviews`, `MaxDeletes` and `MaxTries` bound
what the environment does; `Ids` has one uuid for every row and dead-letter entry
that so many calls can produce, so no run ends for want of one. Two workers suffice
for a race because every hazard listed is a step of one call between two steps of
another; three calls let a third document meet what the race left behind. One
reading per document is enough because `Docs` already holds documents that differ in
each field `resolve()` looks at; one vendor because rows of different vendors are
never compared. `TolPct` is 1 and `TolAbs` 0 in units of one, so totals 100 and 120
differ and 100 and 100 agree. In `Mailbox_polls` three messages overrun a window of two,
which is what fifty-one do to a window of fifty, and two pollers overlap at every call;
five messages are there to choose the three from. In `Chat_guards` two slots make two
requests pass one check of the allowance; two clients make one prune the other's entry; a
window of two ticks and three ticks of clock let entries age out, and the day ends in
between (`DayLength` 3). In `Chat_desk` four bubbles hold a question, its answer and a
second exchange, which is where a retry can go wrong; a budget of three against costs of
one and three makes the trim bite, also when the question alone fills it; one turn handed over (`MaxHistory`) makes
chat_endpoint's own cut bite before the budget does. `Uploads`
needs two ingest calls for their shared flag, chunks of two so that three pages take two
requests, and two tries so that a retry starts between chunks. `Reports_days` has in
its start days each kind of boundary that `daterange.py` computes, and a feed limit of two
against three rows, which is what two hundred and one documents are to the limit of two hundred.

**Deadlock** is not checked: the environment is bounded and the program may rest.

**Fairness.** What is fair is what the code's own scheduling keeps going, never a person
or a fault.

* `Tallyflow`: weak fairness of `Progress(w)`, the steps a worker takes inside a call: a
  thread that is in a call keeps running. Starting calls, faults, reviews and deletions
  are never forced. `Progress` does not contain the faults, so the property holds whether
  or not they occur, but not when the process crashes; the run injects LLM errors and
  exceptions only.
* `Mailbox`: weak fairness of the steps inside a poll and of `Begin` for the loop: it
  catches whatever a poll raises and polls again after `poll_interval_sec`
  (main.py:42-53). Nobody has to call `/api/run`, so `Begin` of a runner is not fair.
* `ChatGuards`: weak fairness of the thread of a request and of its `Respond`: a model
  call returns or times out, and the event loop resumes a handler whose thread is done.
  Which way a call ends is left open, so the iterations and tries alone must end the loop.
* `ChatDesk`: weak fairness of `Serve` and of `Land`, the continuation of a settled fetch;
  the user is never forced to stop or retry.
* `Intake`: weak fairness of the server's steps and of its taking up a request that waits.

## What the code does not keep

Three statements of the repository's documents and comments are refuted by a run; each
shows the shortest counterexample.

| Run | Statement | Counterexample |
|---|---|---|
| `Claim_double_count` | README.md:101 "linked, not double-counted" | an upload and a poll of an invoice and its re-export both read the candidates before either saves; both rows are new and both count |
| `Claim_replay` | retry.py:95 "Replay a dead-lettered document" | on Postgres the CHECK on `source` (schema.sql:48) refuses every replayed row |
| `Claim_many_pages` | extract.py:88 ">5 images are chunked then merged", AUTOMATION_BUILD_DOC.md:60 | every chunk of a long scan is read, `merge_extractions` sets `doc_type` to a bare string (extract.py:110, 123-124), and `ext.doc_type.value` raises (pipeline.py:158): the document is dead-lettered |

Read in the same code, without a run of their own. In the ledger:

* duplicates are sought among active rows only, so after an invoice and its amendment a
  re-export of the invoice is stored as a third version (resolve.py:127 against
  AUTOMATION_BUILD_DOC.md:51);
* a row on a loaded queue that has been superseded meanwhile counts again once it is
  approved (main.py:191-197 against AUTOMATION_BUILD_DOC.md:52 "expense reflects the
  latest");
* a version without a date opens the guard against late versions: a dated invoice, its
  undated revision, then an older dated version, which supersedes it (resolve.py:138
  against resolve.py:137 and AUTOMATION_BUILD_DOC.md:52). `LatestWins` therefore speaks
  of numbers whose rows are all dated; without its conjunct `HasUndated`,
  `History_sequential` finds this history;
* a receipt without a number supersedes a numbered invoice of its amount, and a later
  revision of that number is then current beside it (resolve.py:78-90);
* a late older version whose FX lookup fails is stored `needs_review` and so stays
  active (pipeline.py:229 against 216-218); `RowStatus` does the same;
* a dismissed credit note still reduces the total (summary.py:42-46 against
  main.py:189-190);
* a revision stored between the UPDATEs and the DELETE of a Postgres deletion makes
  the DELETE fail on the foreign key (store_pg.py:146-155); `DeleteStepRow` has that
  outcome. That deletion, or one that stops there, leaves references cleared to a row
  that is still stored; no property forbids it, since no document does;
* the feed is cut at the documents stored last and sorted by their last events afterwards
  (store.py:376-382, 172): one stored earlier whose review or duplicate is the newest event of
  all is not in it. store.py:74-76 says so ("most recent N documents"), and `FeedIsTail` too.

In retries and the mailbox:

* a retry deletes the dead-letter entry before the new run (retry.py:115-116): a
  process that stops between `ClearEntry` and the end of the call leaves no trace of
  the document, which is why the run that checks `NothingOwedIsLost` injects no crash;
* two retries of one entry that both fail leave two entries (retry.py:95-97 "no
  duplicates");
* the scheduled run keeps a payload on its own disk and the retry runs on the server
  (retry.py:66, run_cron.py:1 against README.md:109 "original kept for replay");
* when the attachment of a message fails and its name holds a slash, the payload's `open`
  raises out of `run_safely` (retry.py:40-42, 66) and out of the poll; every later poll
  meets the same message before the newer ones (ingest_email.py:226 against 193, and
  retry.py:63 "dead-lettered, never lost"); `Mailbox_polls` holds such a message, and
  `EveryMailIsRun` sets the ones behind it aside;
* when `save_original` fails the row is already committed, and the replay leaves
  through the hash gate without keeping the file (pipeline.py:106-113, 257); the bytes
  survive as a payload only, which is what `OriginalRecoverable` says;
* the slower of two deliveries of one file, or of two first documents of a vendor on
  SQLite, meets a unique index and is dead-lettered though nothing failed
  (pipeline.py:106 and 255, store.py:486-498).

In the chat and the dashboard:

* the "hard daily Groq-call cap" (config.py:44) is overshot by requests under way
  together, by the bound `OvershootBounded` states, and calls that fail or are retried
  are never charged (main.py:357 "count ACTUAL Groq calls");
* the period of an answer is the first one a summary was asked for, its card is the last
  renderable result (chat.py:213-221): an answer over two months can show the figures of
  one under the name of the other; a `list_invoices` result carries no period at all;
* a vendor search that matches nothing returns the model's own query (chat_tools.py:129), a key
  the check does not deny, and a text that is a number counts as a quantity (chat.py:140-143): a
  search for "45" grounds a 45 ("so a grounded number IS the dashboard's number",
  chat_tools.py:4); the name of an unknown tool does the same (chat_tools.py:248). `Echoes` in
  `GroundedIsBacked` is this set of figures;
* the audit trail of a credit note has the invoice number it refers to under the key `ref`
  (resolve.py:160, 163), which is not among the denied ones (chat.py:97-101), and `get_invoice`
  and `explain_invoice` return that trail: a number of digits only grounds a figure, though "a
  fabricated figure can't pass by sharing digits with an invoice number" (chat.py:172-173).
  `Referenced` in `GroundedIsBacked` is this set of figures, and there is nothing else beside
  `Backed` and `Echoes`; without it `Chat_desk` finds the answer that states the number;
* a percentage is divided by a hundred and compared with every number, not with fractions only
  (chat.py:165-166): "12000%" counts as grounded by an amount of 120, although "every numeric
  token in the answer must match a number" (chat.py:171);
* years are taken from dates among the allowed numbers, though "IDs and dates never count"
  (chat.py:171-173); `Backed` in `GroundedIsBacked` grants them;
* the Retry of any failed or ungrounded bubble asks the last question again, not the
  bubble's (chatStore.ts:91-99);
* the first of two ingest loops to finish clears the busy flag, and clearing the page then
  drops items whose upload is under way (uploadStore.ts:3-5 "in-flight uploads keep
  updating the store").

In reading and judging a file:

* `fees` is missing from the fields merged across chunks (extract.py:49-53), and
  confidences of later chunks replace those of earlier ones (extract.py:121);
  classification sends all pages in one request whatever their number;
* self-reported confidences are not bounded, so one beyond 1 outweighs the "only 20%" of
  validate.py:97-98 (validate.py:118-121); `CleanHasFigure` sets such readings aside;
* the "$" inside "A$" or "C$" makes US dollars of an amount in a longer text
  (normalize.py:89-91);
* a date with words is read by the library in the currency's order and never flagged
  ambiguous (normalize.py:52-54 against 22-23); `CleanDateIsCertain` speaks of dates of
  numbers.

## The proofs

The provers check eight modules: `TallyflowProofs` and `HistoryProofs` about the ledger,
`MailboxProofs`, `ChatGuardsProofs`, `ChatDeskProofs`, `IntakeProofs`, `ReportsProofs`, and
`Lemmas`, which the last three share. Every safety invariant and every action property of a
passing run is a theorem in one of them. The theorems rest on the assumptions named in the
modules (`ResolveAssumption`, `LedgerAssumption`, `PipelineAssumption`,
`TallyflowAssumption`, `MailboxAssumption`, `ChatAssumption`, `AnswerAssumption`,
`DeskAssumption`, `IntakeAssumption`, `BooksAssumption`), which TLC evaluates in the runs,
and hold for any sets of documents, readings, vendors, workers, hosts, messages, pollers,
clients, slots, files, tool calls and rows, any limits, fault kinds and bounds. Three
theorems have a hypothesis of their own, given below where they are named.

`TallyflowProofs`:

* `THEOREM TypeCorrect == Spec => []TypeOK`. Besides column types this says that
  events and originals belong to stored rows and that an identifier in use was
  generated before. `TypeOK` is not inductive, because a step uses what an earlier
  step of the same call computed. `TypeInv` adds `Consistent(job[w])`, which says
  what a worker's local variables hold at each `pc`, and that a deletion under way
  names a row id. The lemmas `OutcomeType`, `RowOfType` and `CandidatesAreTable` are
  the facts about `resolve()` that `TypeInv` rests on; `WorkerJobs`, `WorkerStore`
  and `WorkerHistories` treat the worker's actions one by one, `UserTypes` those of
  users.
* `THEOREM OneActiveVersion == Spec => []OneActivePerKey`. Given `TypeInv` the property
  is inductive. The heart is `ReplacesTheActiveRow`: when the saved row is one
  `resolve()` would still decide on (`Current`), and the number already has an active
  row, that row is an active match, so the decision was a duplicate (not saved), a
  late revision (saved superseded) or a revision that supersedes exactly that row,
  which `save_invoice` marks in the same transaction. `KeepsActive` handles the steps
  that change no key and activate no row; reviews of superseded rows put their key
  into `contested` in the same step.

`HistoryProofs` begins with `RowEffects`: a step adds the row a worker was about to save
(`Inserts`), or removes rows and changes columns that leave a version what it is
(`RowsKept`). `SaveEffects` does the same for the row a worker holds.

* `THEOREM VersionsChain == Spec => []VersionChain`. The property is not inductive: a row
  is saved steps after the row it will supersede or credit was read, and on Postgres a
  deletion may run in between. `ChainInv` states the chain for rows about to be saved as
  well, lets a reference be to any id that was issued, and keeps that ids are not reused.
  That references run in no circle follows: versions ascend along `supersedes`, and what is
  credited is no credit note.
* `THEOREM LatestVersionWins == Spec => []LatestWins`. The invariant `LatestOnTop` says
  more of every orderly number (nothing deleted, not contested, all rows dated): one of its
  rows has both the highest version and the latest date, and an active row of it is such
  a row. `DecisionKeepsTop` shows that what `resolve()` decides on the table as it stands
  respects this, `SaveKeepsOnTop` that saving it does, also when the row it retires
  belongs to another number.
* `THEOREM SupersededRowsAreReplaced == Spec => []SupersededIsReplaced`. Following a
  superseded row to the active one that answers for it is a walk through the whole table;
  `Ancestors` says it without recursion, as the least set that is closed under
  `supersedes`. `ReplacedInv` holds while nothing has been deleted: a numbered row that is
  superseded is an ancestor of an active one, and a row about to be saved as superseded
  retires nothing itself and finds its number in the table. `AncestorsGrow` is why later rows
  do not break a walk; `ReplacedStays` why marking a row moves the answer on to the row
  that marked it.

Its last two theorems assume `Answered`: `FaultKinds` holds neither `crash` nor
`dead_letter`. Both are false without it, which the list above shows; the code has
no answer to these faults. The invariant `JobsHold` says that the ids a call keeps across its
steps, of a row or an entry, never come to stand for another document, whatever others delete.

* `THEOREM OriginalsKept`: `Spec => []OriginalRecoverable`.
* `THEOREM NothingIsLost`: `Spec => []NothingOwedIsLost`. A document is settled in a table or
  in flight; a step that takes it out of one puts it into the other, or is a user's, who
  takes it out of `owed`.

`MailboxProofs` proves `Spec => []TypeOK`, `[]MarkedIsRecorded`, `[]NothingSteppedOver`
and `[]MarkedIsNotRunAgain`. None of the last three is inductive: that a mark is right
depends on what its poll did since it fetched the message. `IInv` says for each poll where it
stands in the folder (`Placed`), that what it passed is marked (`Passed`), that what
it knew is still marked and is not the message at hand (`Informed`), and that the
documents it has no more to run are on record (`Working`). `PollFrame` shows that
arrivals, marks and records of others disturb none of this, since the folder and both
tables only grow; each action then needs an argument about its own poll alone.

`ChatGuardsProofs` proves `Spec => []TypeOK` and

* `THEOREM LimiterHolds == Spec => []WindowNeverExceeded`. The property speaks of every
  request ever let through, the code of a map that is pruned all the time. `Remembered`
  ties the two: what was let through within the last window is still in the map. `PruningKeeps`
  shows it of both ways the map is pruned, the client's own entry and those of others.
* `THEOREM LimiterRefines == Spec => ImplementsLimiter`. `ChatGuards` instantiates `Limiter`
  with its own `now`, `accepted` and `refused`. Initial states map to initial states, and every step of
  `ChatGuards` is a step of `Limiter` or leaves its variables alone. That an admitted request
  is one `Limiter` may accept is `Remembered` again; that a refused one is one it must refuse
  needs the converse, `NothingAdded`: the map remembers no request but those let through.
  Together the two count the same requests (`CountsExactly`).
* `THEOREM OvershootIsBounded == Spec => []OvershootBounded`. `SpendInv` sets aside, for
  every slot with a request in it, the calls that request may still be charged with; the
  count and what is set aside together stay under the bound.

`ChatDeskProofs` proves `Spec => []TypeOK`, `[]BusyIsSending`, `[]ContextIsRecent`,
`[]GroundedIsBacked` and `AnswersStay`. The invariant `IInv` has two cases, and the operations
move between them: the page rests, with no bubble sending (`Rested`), or it waits for one
request, whose placeholder is the last bubble and the only one sending (`Waiting`).

* The context of a question is cut three times: to the bubbles before it that are complete,
  to `MaxHistory` turns, and to the budget. `HistoryIs` and `TrimKeeps` say that each cut takes
  an end of what it was given, so that together they take the longest end that fits; the
  question of a retry is the last one, and what stood before it is what is sent again.
* A figure shown is a candidate of a number in some tool's result. For each tool, and each shape
  of result (errors, pages of rows, sums, details with lines, taxes and events, lists of runs and
  failed documents), the leaves that count are `Backed`, `Echoes` or `Referenced`; an id or a
  number of an invoice otherwise lies under a denied key wherever a tool puts it. `Collect` unites the results of all calls, so one lemma for each
  tool is enough, in whatever order and number they are called.
* `AnswersStay` is an action property: `Stays` follows an answered bubble through each operation
  to its place in the new transcript.

`IntakeProofs`. `IInv` is `LoopsOK`, `ItemsOK` and `ServerOK`: an item's outcome is that of its
own file, however many selections were put before it meanwhile; the server's documents are the
split of the file it was sent, and what it has read of the one at hand is what its first requests
were for (`DocOK`), also after a retry.

* `OutcomesKeepTheirFiles`, `EachDocumentIsAnswered` follow from it.
* `MergedIsWhole == Spec => []ReadingComplete` and `SplittingIsSound == Spec => []PagesCovered`
  are about sequences of any length: chunks of any size joined give the pages back
  (`ChunksJoin`), and so do the documents of a file. They go by the least counterexample:
  the lengths at which the claim fails have a least one, if there are any.
* `CleanRowsHaveFigures` assumes `Threshold > 68`, in percent; the code's is 75 (config.py:60),
  as is the run's. An invoice without a total reaches a confidence of 68 at most, when the model
  is certain of all it did read (`NoTotalIsDoubt`), and would pass a threshold as low as that. `CleanDatesAreCertain` has no such hypothesis.

`ReportsProofs`, about every ledger and audit trail on every day of the Gregorian calendar:

* `PeriodsMeet == Spec => []PeriodsTile`. Months, quarters and years are `Whole` periods of 1, 3
  and 12 months: `ThisIsWhole` and `LastIsWhole` show that the code's arithmetic computes them,
  `WholesTile` that one of them ends the day before the next begins. `MinusDaysFalls`
  counts the days of the rolling periods across the ends of months and years.
* `SummariesAdd`: sums over the positions of the ledger, divided by category,
  by vendor and by period. `PeriodsDivide` shows that a dated row lies in exactly one of two
  periods that meet; there is `NoDayBetween` them.
* `FeedStaysTail`: the query's rows are the documents stored last, as many as the limit lets
  through, and the feed is a permutation of them and the dead letters (`SortingPermutes`:
  different entries have different ranks), in an order that is total.
  `DurationStays`: the first event of a type stays the first whatever is appended (`FirstStays`).

Writing the proofs corrected the model: two arms of the CASE for a row's part in the summary
overlapped, and a search without a match repeats its query, which `GroundedIsBacked` had left out.

Only model-checked: what rests on fairness (`EveryJobSettles`, `EveryMailIsRun`,
`EveryRequestAnswered`, `EveryRequestEnds`, `EveryUploadSettles`), which is beyond these
provers. The claims are refuted rather than held.

## What is not modelled

* Field confidences, event texts, single line items and tax lines in the ledger: children that
  a transaction carries along; the judgement sees their sums, and the chat's tools a ledger
  that has them.
* What the LLM answers and in which words: an input, over sets of readings and figures.
  The prompt, labels of periods, demo mode's scripted sentences.
* Vendor matching, which is fuzzy string comparison by a library: vendors match or do not.
* Image processing (rendering, deskewing, recompressing), HTML, MIME parsing and the
  patterns of the junk and promotion heuristics: their verdicts are inputs.
* Backoff delays: a retry may come at any time.
* `existing_by_hash` of `resolve()`: the program always passes None (pipeline.py:198).
* Read-only endpoints, the settings endpoints, views, `hooks.ts` and `App.tsx`: they
  fetch, show, or overwrite one value.
* The digest: whether it is on, what it counts, sending it. A poll's counts.
* The sample generator, which is not part of the running program.

PROJECT.json lists every component with its status, and every hazard with its line.

## The plan

Done: the ledger, the mailbox, the chat endpoint with its abstract limiter, chat answers
and the conversation, reports, judgement and uploads; a proof of every safety invariant and
action property the passing runs check, and of the refinement of the limiter.

Left, in this order:

1. **An abstract ledger** (documents are received, replaced, removed) that `Tallyflow`
   implements where no number is contested, with the proof that it does.
2. **Settings and digest**, once something besides a single value depends on them.
