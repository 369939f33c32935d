------------------------------- MODULE Pipeline -------------------------------
(***************************************************************************)
(* Workers that run one document each through the resilient pipeline:      *)
(* run_safely around with_retry around process_document                    *)
(* (backend/retry.py, backend/pipeline.py), and retry_dead_letter.         *)
(*                                                                         *)
(* A worker is a thread or process inside such a call: an upload request,  *)
(* the auto-poll thread, the cron runner, a retry request.  Every store    *)
(* call and every LLM call is a step of its own, so the workers interleave *)
(* where the code lets them.  pc names the call the worker makes next.     *)
(***************************************************************************)
EXTENDS Ledger

CONSTANTS
    Workers,
    HostOf,     \* worker -> the machine it runs on
    Readings,   \* document -> what the LLM may read from it
    MaxTries,   \* retry_max_tries
    FaultKinds, \* the faults a run injects
    MaxFaults,  \* bound: how many of them
    MaxJobs     \* bound: how many documents and retries are started

VARIABLES
    job,        \* worker -> the call in progress
    faults,     \* faults injected so far
    jobs,       \* jobs started so far
    owed,       \* history: documents a call returned a result for, and no user removed
    contested   \* history: keys whose rows were written from a stale or overridden decision

workerVars == <<job, faults, jobs, owed, contested>>

Reading == [cls : DocTypes, docType : DocTypes, vendor : Vendors, number : OptNumber,
            date : OptDate, total : OptAmount, ref : OptNumber,
            assessed : {"clean", "needs_review"},
            base : OptAmount]   \* the total converted at the rate of its date

ASSUME PipelineAssumption ==
    /\ HostOf \in [Workers -> Hosts]
    /\ None \notin Reading
    /\ Readings \in [Docs -> SUBSET Reading]
    /\ \A d \in Docs : \A r \in Readings[d] : r.total = None => r.base = None
    /\ MaxTries \in Nat \ {0}
    /\ FaultKinds \subseteq {"llm", "fx", "error", "dead_letter", "crash"}
    /\ MaxFaults \in Nat /\ MaxJobs \in Nat

Labels == {"idle", "gate", "duplicate", "read", "normalize", "upsert", "insert_vendor",
           "resolve", "link", "save", "original", "finish", "fail", "retry"}
Sources == {"email", "upload", "retry"}

Job == [pc : Labels, doc : Docs \cup {None}, source : Sources \cup {None}, attempt : Nat,
        read : Reading \cup {None},     \* the extraction, None for junk
        row : Row \cup {None},          \* the row to be saved
        id : OptId]                     \* the row or dead-letter entry at hand

IdleJob == [pc |-> "idle", doc |-> None, source |-> None, attempt |-> 0,
            read |-> None, row |-> None, id |-> None]

WorkerInit ==
    /\ job = [w \in Workers |-> IdleJob]
    /\ faults = 0 /\ jobs = 0 /\ owed = {} /\ contested = {}

-----------------------------------------------------------------------------
Advance(w, j) == job' = [job EXCEPT ![w] = j]
Goto(w, label) == Advance(w, [job[w] EXCEPT !.pc = label])
Finish(w) == Advance(w, IdleJob)

\* The call returns a PipelineResult for its document.
Return(w) == Finish(w) /\ owed' = owed \cup {job[w].doc}

Fault(kind) == kind \in FaultKinds /\ faults < MaxFaults /\ faults' = faults + 1

NewId == CHOOSE i \in FreshIds : TRUE

Key(r) == <<r.vendor, NormNum(r.number)>>

RowStatus(r, o, fxOk) ==
    IF r.total # None /\ ~fxOk THEN "needs_review"
    ELSE IF o.flagged /\ o.hint # "superseded" THEN "needs_review"
    ELSE IF o.hint # None THEN o.hint ELSE r.assessed

\* invoice_row
RowOf(d, r, o, fxOk) ==
    [hash |-> d, vendor |-> r.vendor, number |-> r.number, date |-> r.date,
     total |-> r.total, base |-> IF fxOk THEN r.base ELSE None, docType |-> r.docType,
     status |-> RowStatus(r, o, fxOk), version |-> o.version,
     supersedes |-> o.supersedes, creditOf |-> o.creditOf, isInvoice |-> TRUE]

JunkRow(d) ==
    [hash |-> d, vendor |-> None, number |-> None, date |-> None, total |-> None,
     base |-> None, docType |-> "non_invoice", status |-> "stored", version |-> 1,
     supersedes |-> None, creditOf |-> None, isInvoice |-> FALSE]

\* The row about to be saved is one resolve() would still decide on now, and a
\* late revision among them is stored as superseded.
Current(w) ==
    \E o \in Outcomes(job[w].read, Candidates(job[w].read.vendor)), fxOk \in BOOLEAN :
        /\ o.branch # "logical_duplicate"
        /\ job[w].row = RowOf(job[w].doc, job[w].read, o, fxOk)
        /\ o.hint = "superseded" => job[w].row.status = "superseded"

-----------------------------------------------------------------------------
\* /api/ingest is a coroutine that never awaits while it runs the pipeline: a
\* server is inside one upload at a time.
UploadTurn(w) == \A v \in Workers : HostOf[v] = HostOf[w] => job[v].source # "upload"

\* run_safely -> with_retry -> process_document, first attempt.
Submit(w, d, source) ==
    /\ job[w].pc = "idle" /\ jobs < MaxJobs
    /\ source = "upload" => UploadTurn(w)
    /\ Advance(w, [IdleJob EXCEPT !.pc = "gate", !.doc = d, !.source = source, !.attempt = 1])
    /\ jobs' = jobs + 1
    /\ UNCHANGED <<storeVars, faults, owed, contested>>

\* retry_dead_letter: the entry and its payload are read ...
StartRetry(w, e) ==
    /\ job[w].pc = "idle" /\ jobs < MaxJobs
    /\ <<HostOf[w], dead[e]>> \in payloads
    /\ Advance(w, [IdleJob EXCEPT !.pc = "retry", !.doc = dead[e], !.source = "retry", !.id = e])
    /\ jobs' = jobs + 1
    /\ UNCHANGED <<storeVars, faults, owed, contested>>

\* ... then the entry is deleted and the document run again.
ClearEntry(w) ==
    /\ job[w].pc = "retry"
    /\ DeleteDeadLetter(job[w].id)
    /\ Advance(w, [job[w] EXCEPT !.pc = "gate", !.attempt = 1, !.id = None])
    /\ UNCHANGED <<rows, links, originals, vendors, payloads, issued,
                   faults, jobs, owed, contested>>

\* exists_by_hash
CheckHash(w) ==
    /\ job[w].pc = "gate"
    /\ \/ \E i \in Stored :
            /\ rows[i].hash = job[w].doc
            /\ Advance(w, [job[w] EXCEPT !.pc = "duplicate", !.id = i])
       \/ /\ ~HashStored(job[w].doc)
          /\ Goto(w, "read")
    /\ UNCHANGED <<storeVars, faults, jobs, owed, contested>>

\* Wrong variant of NoteDuplicate: a row deleted since the gate is not noticed.
AssumeStillStored(w) ==
    /\ job[w].pc = "duplicate" /\ Return(w)
    /\ UNCHANGED <<storeVars, faults, jobs, contested>>

\* append_event on, then get_invoice of, the row the gate found.
NoteDuplicate(w) ==
    /\ job[w].pc = "duplicate"
    /\ \/ job[w].id \in Stored /\ Return(w)
       \/ job[w].id \notin Stored /\ Goto(w, "fail") /\ UNCHANGED owed
    /\ UNCHANGED <<storeVars, faults, jobs, contested>>

\* Type detection, junk pre-filter, classify, extract.
Read(w) ==
    /\ job[w].pc = "read"
    /\ \E r \in Readings[job[w].doc] :
         \/ /\ r.cls = "non_invoice"
            /\ Advance(w, [job[w] EXCEPT !.pc = "save", !.row = JunkRow(job[w].doc)])
         \/ /\ r.cls # "non_invoice"
            /\ Advance(w, [job[w] EXCEPT !.pc = "normalize", !.read = r])
    /\ UNCHANGED <<storeVars, faults, jobs, owed, contested>>

\* A transient LLMError: with_retry calls process_document again, or gives up.
LlmUnavailable(w) ==
    /\ job[w].pc = "read" /\ Fault("llm")
    /\ \/ /\ job[w].attempt < MaxTries
          /\ Advance(w, [job[w] EXCEPT !.pc = "gate", !.attempt = job[w].attempt + 1])
       \/ job[w].attempt = MaxTries /\ Goto(w, "fail")
    /\ UNCHANGED <<storeVars, jobs, owed, contested>>

\* list_vendors, normalize_vendor
Normalize(w) ==
    /\ job[w].pc = "normalize"
    /\ Goto(w, IF job[w].read.vendor \in vendors THEN "resolve" ELSE "upsert")
    /\ UNCHANGED <<storeVars, faults, jobs, owed, contested>>

\* upsert_vendor: one statement on Postgres, SELECT then INSERT on SQLite.
UpsertVendor(w) ==
    /\ job[w].pc = "upsert"
    /\ \/ /\ Backend = "postgres"
          /\ vendors' = vendors \cup {job[w].read.vendor} /\ Goto(w, "resolve")
       \/ /\ Backend = "sqlite"
          /\ Goto(w, IF job[w].read.vendor \in vendors THEN "resolve" ELSE "insert_vendor")
          /\ UNCHANGED vendors
    /\ UNCHANGED <<rows, links, originals, dead, payloads, issued,
                   faults, jobs, owed, contested>>

\* The INSERT: canonical_name is UNIQUE, so the second of two inserts raises.
InsertVendor(w) ==
    /\ job[w].pc = "insert_vendor"
    /\ vendors' = vendors \cup {job[w].read.vendor}
    /\ Goto(w, IF job[w].read.vendor \in vendors THEN "fail" ELSE "resolve")
    /\ UNCHANGED <<rows, links, originals, dead, payloads, issued,
                   faults, jobs, owed, contested>>

\* candidates_for_vendor, resolve, status resolution and currency conversion.
ResolveDocument(w) ==
    /\ job[w].pc = "resolve"
    /\ \E o \in Outcomes(job[w].read, Candidates(job[w].read.vendor)) :
         \/ /\ o.branch = "logical_duplicate"
            /\ Advance(w, [job[w] EXCEPT !.pc = "link", !.id = o.link])
            /\ UNCHANGED faults
         \/ /\ o.branch # "logical_duplicate"
            /\ \E fxOk \in BOOLEAN :
                 /\ IF fxOk THEN UNCHANGED faults ELSE job[w].read.total # None /\ Fault("fx")
                 /\ Advance(w, [job[w] EXCEPT !.pc = "save",
                                     !.row = RowOf(job[w].doc, job[w].read, o, fxOk)])
    /\ UNCHANGED <<storeVars, jobs, owed, contested>>

\* append_event "duplicate_linked" on, then get_invoice of, the matched row.
LinkDuplicate(w) ==
    /\ job[w].pc = "link"
    /\ \/ /\ job[w].id \in Stored
          /\ links' = links \cup {<<job[w].id, job[w].doc>>}
          /\ Return(w)
       \/ /\ job[w].id \notin Stored
          /\ Goto(w, "fail")
          /\ UNCHANGED <<links, owed>>
    /\ UNCHANGED <<rows, originals, vendors, dead, payloads, issued, faults, jobs, contested>>

\* save_invoice; a constraint it breaks raises and rolls everything back.
Save(w) ==
    /\ job[w].pc = "save"
    /\ \/ /\ Insertable(job[w].row, job[w].source) /\ FreshIds # {}
          /\ SaveInvoice(NewId, job[w].row)
          /\ issued' = issued \cup {NewId}
          /\ Advance(w, [job[w] EXCEPT !.pc = "original", !.id = NewId])
          /\ contested' = IF job[w].read = None \/ Current(w) THEN contested
                          ELSE contested \cup {Key(job[w].row)}
       \/ /\ ~Insertable(job[w].row, job[w].source)
          /\ Goto(w, "fail")
          /\ UNCHANGED <<rows, issued, contested>>
    /\ UNCHANGED <<links, originals, vendors, dead, payloads, faults, jobs, owed>>

\* save_original: the file, then its invoice_files row.  Junk returns here.
SaveOriginal(w) ==
    /\ job[w].pc = "original"
    /\ \/ /\ job[w].id \in Stored
          /\ originals' = originals \cup {job[w].id}
          /\ IF job[w].read = None THEN Return(w) ELSE Goto(w, "finish") /\ UNCHANGED owed
       \/ /\ job[w].id \notin Stored
          /\ Goto(w, "fail")
          /\ UNCHANGED <<originals, owed>>
    /\ UNCHANGED <<rows, links, vendors, dead, payloads, issued, faults, jobs, contested>>

\* append_event "digest_queued", then get_invoice(...)["events"].
QueueDigest(w) ==
    /\ job[w].pc = "finish"
    /\ \/ job[w].id \in Stored /\ Return(w)
       \/ job[w].id \notin Stored /\ Goto(w, "fail") /\ UNCHANGED owed
    /\ UNCHANGED <<storeVars, faults, jobs, contested>>

\* Wrong variant of DeadLetter: no payload is kept.
DeadLetterBare(w) ==
    /\ job[w].pc = "fail" /\ FreshIds # {}
    /\ AddDeadLetter(NewId, job[w].doc)
    /\ issued' = issued \cup {NewId}
    /\ Return(w)
    /\ UNCHANGED <<rows, links, originals, vendors, payloads, faults, jobs, contested>>

\* run_safely's except branch: the payload file, then the dead-letter row.
DeadLetter(w) ==
    /\ job[w].pc = "fail" /\ FreshIds # {}
    /\ payloads' = payloads \cup {<<HostOf[w], job[w].doc>>}
    /\ AddDeadLetter(NewId, job[w].doc)
    /\ issued' = issued \cup {NewId}
    /\ Return(w)
    /\ UNCHANGED <<rows, links, originals, vendors, faults, jobs, contested>>

-----------------------------------------------------------------------------
\* Any other exception out of process_document: an unreadable file, a permanent
\* LLM error, the database or the disk.
Raise(w) ==
    /\ job[w].pc \notin {"idle", "retry", "fail"} /\ Fault("error")
    /\ Goto(w, "fail")
    /\ UNCHANGED <<storeVars, jobs, owed, contested>>

\* _store_payload or add_dead_letter raises: run_safely itself raises.
DeadLetterFails(w) ==
    /\ job[w].pc = "fail" /\ Fault("dead_letter")
    /\ payloads' \in {payloads, payloads \cup {<<HostOf[w], job[w].doc>>}}
    /\ Finish(w)
    /\ UNCHANGED <<rows, links, originals, vendors, dead, issued, jobs, owed, contested>>

\* The process stops inside the call.
Crash(w) ==
    /\ job[w].pc # "idle" /\ Fault("crash")
    /\ Finish(w)
    /\ UNCHANGED <<storeVars, jobs, owed, contested>>

\* Every local variable of a call holds a value of its declared domain.
WorkerType ==
    /\ job \in [Workers -> Job]
    /\ faults \in Nat /\ jobs \in Nat
    /\ owed \subseteq Docs
    /\ contested \subseteq (Vendors \cup {None}) \X OptNumber

\* The steps the code itself takes once a call has begun.
WorkerStep(w) ==
    \/ ClearEntry(w) \/ CheckHash(w) \/ NoteDuplicate(w) \/ Read(w) \/ Normalize(w)
    \/ UpsertVendor(w) \/ InsertVendor(w) \/ ResolveDocument(w) \/ LinkDuplicate(w)
    \/ Save(w) \/ SaveOriginal(w) \/ QueueDigest(w) \/ DeadLetter(w)

FaultStep(w) == LlmUnavailable(w) \/ Raise(w) \/ DeadLetterFails(w) \/ Crash(w)

Begin(w) ==
    \/ \E d \in Docs, source \in {"email", "upload"} : Submit(w, d, source)
    \/ \E e \in Entries : StartRetry(w, e)
=============================================================================
