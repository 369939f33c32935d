---------------------------- MODULE TallyflowProofs ----------------------------
(***************************************************************************)
(* Theorems about Tallyflow for every value of its constants: type         *)
(* correctness, and that a vendor's invoice number has one active version. *)
(***************************************************************************)
EXTENDS Tallyflow, TLAPS

\* What the call a worker is in has computed by the step it is at.
Consistent(j) ==
    /\ j.pc # "idle" => j.doc \in Docs
    /\ j.pc \in {"gate", "read", "duplicate", "retry"} => j.read = None
    /\ j.pc \in {"normalize", "upsert", "insert_vendor", "resolve"} => j.read \in Reading
    /\ j.pc = "save" => /\ j.row \in Row
                        /\ j.read = None => j.row = JunkRow(j.doc)
    /\ j.pc \in {"duplicate", "link", "original", "finish", "retry"} => j.id \in Ids

JobsOK == \A w \in Workers : Consistent(job[w])
JobsTyped == job \in [Workers -> Job] /\ JobsOK
DeletingOK == deleting.pc # "idle" => deleting.id \in Ids

\* TypeOK is not inductive by itself: a step reads fields an earlier one set.
TypeInv == TypeOK /\ JobsOK /\ DeletingOK

-----------------------------------------------------------------------------
\* uuid4: a new identifier is one never issued before.
LEMMA NewIdIsFresh == FreshIds # {} => NewId \in FreshIds
  BY Zenon DEF NewId

\* Canonical numbers are spellings, so keys range over vendors and numbers
\* (resolve.py:65-68).
LEMMA KeyType == \A r \in Row : Key(r) \in (Vendors \cup {None}) \X OptNumber
  BY ResolveAssumption DEF Key, NormNum, Row, OptNumber

LEMMA RowFieldTypes ==
    ASSUME NEW r \in Row, NEW i, NEW s \in Statuses
    PROVE  /\ Superseded(r) \in Row /\ [r EXCEPT !.status = s] \in Row
           /\ WithoutSupersedes(i, r) \in Row /\ WithoutCredit(i, r) \in Row
  BY DEF Row, Superseded, WithoutSupersedes, WithoutCredit, OptId, Statuses

LEMMA JunkRowType == \A d \in Docs : JunkRow(d) \in Row
  BY ResolveAssumption DEF JunkRow, Row, OptNumber, OptDate, OptAmount, OptId, DocTypes, Statuses

-----------------------------------------------------------------------------
(* What resolve() decides.                                                 *)

\* The rows a decision is taken from: some of the stored ones.
Table(cand) == cand \in [DOMAIN cand -> Row] /\ DOMAIN cand \subseteq Ids

LEMMA CandidatesAreTable ==
    ASSUME rows \in [Stored -> Row], Stored \subseteq Ids, NEW v
    PROVE  /\ Table(Candidates(v))
           /\ DOMAIN Candidates(v) \subseteq Stored
           /\ \A i \in DOMAIN Candidates(v) : Candidates(v)[i] = rows[i]
  BY DEF Table, Candidates, Stored

LEMMA CreditTargetsType ==
    ASSUME NEW inc, NEW cand, Table(cand)
    PROVE  /\ CreditTargets(inc, cand) \subseteq OptId
           /\ FindReferenced(inc, cand) \subseteq Ids
  BY DEF CreditTargets, FindReferenced, Table, OptId

\* Every decision is a well-formed outcome, and a duplicate names the row it
\* duplicates (resolve.py:111-166).
LEMMA OutcomeType ==
    ASSUME NEW inc, NEW cand, Table(cand), NEW o \in Outcomes(inc, cand)
    PROVE  /\ o \in Outcome
           /\ o.branch = "logical_duplicate" => o.link \in DOMAIN cand
  <1>1. /\ Duplicates(inc, cand) \subseteq DOMAIN cand
        /\ Latest(Pool(inc, cand), cand) \subseteq DOMAIN cand
    BY DEF Matches, ActiveOf, Duplicates, Pool, Latest
  <1>2. \A t \in DOMAIN cand : t \in Ids /\ cand[t].version \in Int
    BY DEF Table, Row
  <1>3. CASE \E i \in Duplicates(inc, cand) : o = DuplicateOf(i)
    BY <1>3, <1>1, <1>2 DEF DuplicateOf, Decision, Outcome, OptId
  <1>4. CASE o \in RevisionOutcomes(inc, cand)
    <2>1. PICK t \in DOMAIN cand : o = LateRevision(t, cand) \/ o \in Revisions(inc, t, cand)
      BY <1>4, <1>1 DEF RevisionOutcomes
    <2>2. CASE o = LateRevision(t, cand)
      BY <2>2, <1>2 DEF LateRevision, Decision, Outcome, OptId
    <2>3. CASE o \in Revisions(inc, t, cand)
      <3>1. PICK ref \in OptId : o = Revision(t, ref, cand)
        BY <2>3, CreditTargetsType DEF Revisions, OptId
      <3> QED
        BY <3>1, <1>2 DEF Revision, Decision, Outcome, OptId
    <2> QED
      BY <2>1, <2>2, <2>3
  <1>5. CASE \E ref \in Ids : o = LinkedCredit(ref)
    BY <1>5 DEF LinkedCredit, Decision, Outcome, OptId
  <1>6. CASE o = OrphanCredit
    BY <1>6 DEF OrphanCredit, Decision, Outcome, OptId
  <1>7. CASE o = NewOutcome
    BY <1>7 DEF NewOutcome, Decision, Outcome, OptId
  <1> QED
    BY <1>3, <1>4, <1>5, <1>6, <1>7, CreditTargetsType DEF Outcomes

\* A decision that stores a row as current replaces one of the active matches,
\* whenever there are any (resolve.py:127-152).
LEMMA ReplacesAnActiveMatch ==
    ASSUME NEW inc, NEW cand, NEW o \in Outcomes(inc, cand),
           o.branch # "logical_duplicate", o.hint # "superseded",
           ActiveOf(Matches(inc, cand), cand) # {}
    PROVE  o.supersedes \in ActiveOf(Matches(inc, cand), cand)
  <1> DEFINE active == ActiveOf(Matches(inc, cand), cand)
  <1>1. \A i : o # DuplicateOf(i)
    BY DEF DuplicateOf, Decision
  <1>2. \A t : o # LateRevision(t, cand)
    BY DEF LateRevision, Decision
  <1>3. Pool(inc, cand) = active
    BY DEF Pool
  <1>4. PICK t \in active : o \in Revisions(inc, t, cand)
    BY <1>1, <1>2, <1>3 DEF Outcomes, RevisionOutcomes, Latest
  <1> QED
    BY <1>4 DEF Revisions, Revision, Decision

LEMMA RowOfType ==
    ASSUME NEW d \in Docs, NEW r \in Reading, NEW o \in Outcome, NEW fxOk \in BOOLEAN
    PROVE  RowOf(d, r, o, fxOk) \in Row
  <1>1. RowStatus(r, o, fxOk) \in Statuses
    <2>1. CASE r.total # None /\ ~fxOk
      BY <2>1 DEF RowStatus, Statuses
    <2>2. CASE r.total = None \/ fxOk
      BY <2>2 DEF RowStatus, Statuses, Outcome, Reading
    <2> QED
      BY <2>1, <2>2
  <1> QED
    BY <1>1 DEF RowOf, Row, Reading, Outcome, OptNumber, OptDate, OptAmount, OptId

-----------------------------------------------------------------------------
(* Type correctness: the calls in progress.                                *)

LEMMA IdleJobType == IdleJob \in Job /\ Consistent(IdleJob)
  BY ResolveAssumption DEF IdleJob, Job, Consistent, Labels, OptId

LEMMA JobsStep ==
    ASSUME JobsTyped, NEW w \in Workers, NEW j \in Job, Consistent(j), Advance(w, j)
    PROVE  JobsTyped'
  BY DEF JobsTyped, JobsOK, Advance

LEMMA FinishStep ==
    ASSUME JobsTyped, NEW w \in Workers, Finish(w)
    PROVE  JobsTyped'
  BY IdleJobType, JobsStep DEF Finish

\* A jump that reads nothing a step has not set.
LEMMA GotoStep ==
    ASSUME JobsTyped, NEW w \in Workers, NEW label \in Labels, job[w].doc \in Docs,
           label \in {"gate", "read", "retry"} => job[w].read = None,
           label \in {"normalize", "upsert", "insert_vendor", "resolve"} => job[w].read \in Reading,
           label \in {"original", "finish"} => job[w].id \in Ids,
           label \notin {"duplicate", "link", "save", "retry"},
           Goto(w, label)
    PROVE  JobsTyped'
  <1> DEFINE j == [job[w] EXCEPT !.pc = label]
  <1>1. job[w] \in Job
    BY DEF JobsTyped
  <1>2. j \in Job
    BY <1>1 DEF Job
  <1>3. Consistent(j)
    BY <1>1 DEF Job, Consistent
  <1> QED
    BY <1>2, <1>3, JobsStep DEF Goto

LEMMA FailStep ==
    ASSUME JobsTyped, NEW w \in Workers, job[w].pc # "idle", Goto(w, "fail")
    PROVE  JobsTyped'
  <1>1. job[w].doc \in Docs
    BY DEF JobsTyped, JobsOK, Consistent
  <1>2. "fail" \in Labels
    BY DEF Labels
  <1> QED
    BY <1>1, <1>2, GotoStep

LEMMA BeginJobs ==
    ASSUME TypeInv, NEW w \in Workers, Begin(w)
    PROVE  JobsTyped'
  <1>1. JobsTyped /\ dead \in [Entries -> Docs] /\ Entries \subseteq Ids
    BY DEF TypeInv, TypeOK, StoreType, WorkerType, JobsTyped
  <1>2. CASE \E d \in Docs, source \in {"email", "upload"} : Submit(w, d, source)
    <2>1. PICK d \in Docs, source \in {"email", "upload"} : Submit(w, d, source)
      BY <1>2
    <2> DEFINE j == [IdleJob EXCEPT !.pc = "gate", !.doc = d, !.source = source, !.attempt = 1]
    <2>2. j \in Job
      BY ResolveAssumption DEF IdleJob, Job, Labels, Sources, OptId
    <2>3. Consistent(j)
      BY DEF IdleJob, Consistent
    <2> QED
      BY <1>1, <2>1, <2>2, <2>3, JobsStep DEF Submit
  <1>3. CASE \E e \in Entries : StartRetry(w, e)
    <2>1. PICK e \in Entries : StartRetry(w, e)
      BY <1>3
    <2> DEFINE j == [IdleJob EXCEPT !.pc = "retry", !.doc = dead[e], !.source = "retry", !.id = e]
    <2>2. j \in Job
      BY <1>1 DEF IdleJob, Job, Labels, Sources, OptId
    <2>3. Consistent(j)
      BY <1>1 DEF IdleJob, Consistent
    <2> QED
      BY <1>1, <2>1, <2>2, <2>3, JobsStep DEF StartRetry
  <1> QED
    BY <1>2, <1>3 DEF Begin

LEMMA FaultJobs ==
    ASSUME TypeInv, NEW w \in Workers, FaultStep(w)
    PROVE  JobsTyped'
  <1>1. JobsTyped
    BY DEF TypeInv, TypeOK, WorkerType, JobsTyped
  <1>2. CASE LlmUnavailable(w)
    <2> DEFINE j == [job[w] EXCEPT !.pc = "gate", !.attempt = job[w].attempt + 1]
    <2>1. job[w] \in Job /\ Consistent(job[w]) /\ job[w].pc = "read"
      BY <1>1, <1>2 DEF JobsTyped, JobsOK, LlmUnavailable
    <2>2. j \in Job
      <3>1. job[w].attempt + 1 \in Nat /\ "gate" \in Labels
        BY <2>1 DEF Job, Labels
      <3> QED
        BY <2>1, <3>1 DEF Job
    <2>3. Consistent(j)
      BY <2>1 DEF Job, Consistent
    <2>4. Advance(w, j) \/ Goto(w, "fail")
      BY <1>2 DEF LlmUnavailable
    <2>5. CASE Advance(w, j)
      BY <1>1, <2>2, <2>3, <2>5, JobsStep
    <2>6. CASE Goto(w, "fail")
      BY <1>1, <2>1, <2>6, FailStep
    <2> QED
      BY <2>4, <2>5, <2>6
  <1>3. CASE Raise(w)
    BY <1>1, <1>3, FailStep DEF Raise
  <1>4. CASE DeadLetterFails(w)
    BY <1>1, <1>4, FinishStep DEF DeadLetterFails
  <1>5. CASE Crash(w)
    BY <1>1, <1>5, FinishStep DEF Crash
  <1> QED
    BY <1>2, <1>3, <1>4, <1>5 DEF FaultStep

\* The thirteen steps of a call.
LEMMA WorkerJobs ==
    ASSUME TypeInv, NEW w \in Workers, WorkerStep(w)
    PROVE  JobsTyped'
  <1> USE DEF Advance
  <1>1. /\ JobsTyped /\ rows \in [Stored -> Row] /\ Stored \subseteq Ids
        /\ job[w] \in Job /\ Consistent(job[w])
    BY DEF TypeInv, TypeOK, StoreType, WorkerType, JobsTyped, JobsOK
  <1>2. \A d \in Docs : Readings[d] \subseteq Reading
    BY PipelineAssumption
  <1>3. CASE ClearEntry(w)
    <2> DEFINE j == [job[w] EXCEPT !.pc = "gate", !.attempt = 1, !.id = None]
    <2>1. j \in Job
      BY <1>1 DEF Job, Labels, OptId
    <2>2. Consistent(j)
      BY <1>1, <1>3 DEF Job, Consistent, ClearEntry
    <2> QED
      BY <1>1, <1>3, <2>1, <2>2, JobsStep DEF ClearEntry
  <1>4. CASE CheckHash(w)
    <2>1. CASE Goto(w, "read")
      <3>1. job[w].pc = "gate" /\ "read" \in Labels
        BY <1>4 DEF CheckHash, Labels
      <3> QED
        BY <1>1, <2>1, <3>1, GotoStep DEF Consistent
    <2>2. CASE \E i \in Stored : Advance(w, [job[w] EXCEPT !.pc = "duplicate", !.id = i])
      <3>1. PICK i \in Stored : Advance(w, [job[w] EXCEPT !.pc = "duplicate", !.id = i])
        BY <2>2
      <3> DEFINE j == [job[w] EXCEPT !.pc = "duplicate", !.id = i]
      <3>2. j \in Job
        BY <1>1 DEF Job, Labels, OptId
      <3>3. Consistent(j)
        BY <1>1, <1>4 DEF Job, Consistent, CheckHash
      <3> QED
        BY <1>1, <3>1, <3>2, <3>3, JobsStep
    <2> QED
      BY <1>4, <2>1, <2>2 DEF CheckHash
  <1>5. CASE NoteDuplicate(w)
    BY <1>1, <1>5, FinishStep, FailStep DEF NoteDuplicate, Return
  <1>6. CASE Read(w)
    <2>1. PICK r \in Reading :
             \/ Advance(w, [job[w] EXCEPT !.pc = "save", !.row = JunkRow(job[w].doc)])
             \/ Advance(w, [job[w] EXCEPT !.pc = "normalize", !.read = r])
      BY <1>1, <1>2, <1>6 DEF Read, Consistent
    <2>2. CASE Advance(w, [job[w] EXCEPT !.pc = "save", !.row = JunkRow(job[w].doc)])
      <3> DEFINE j == [job[w] EXCEPT !.pc = "save", !.row = JunkRow(job[w].doc)]
      <3>1. JunkRow(job[w].doc) \in Row
        BY <1>1, <1>6, JunkRowType DEF Consistent, Read
      <3>2. j \in Job
        BY <1>1, <3>1 DEF Job, Labels
      <3>3. Consistent(j)
        BY <1>1, <1>6, <3>1 DEF Job, Consistent, Read
      <3> QED
        BY <1>1, <2>2, <3>2, <3>3, JobsStep
    <2>3. CASE Advance(w, [job[w] EXCEPT !.pc = "normalize", !.read = r])
      <3> DEFINE j == [job[w] EXCEPT !.pc = "normalize", !.read = r]
      <3>1. j \in Job
        BY <1>1 DEF Job, Labels
      <3>2. Consistent(j)
        BY <1>1, <1>6 DEF Job, Consistent, Read
      <3> QED
        BY <1>1, <2>3, <3>1, <3>2, JobsStep
    <2> QED
      BY <2>1, <2>2, <2>3
  <1>7. CASE Normalize(w)
    <2>1. PICK label \in {"resolve", "upsert"} : Goto(w, label)
      BY <1>7 DEF Normalize
    <2>2. job[w].pc = "normalize" /\ label \in Labels
      BY <1>7 DEF Normalize, Labels
    <2> QED
      BY <1>1, <2>1, <2>2, GotoStep DEF Consistent
  <1>8. CASE UpsertVendor(w)
    <2>1. PICK label \in {"resolve", "insert_vendor"} : Goto(w, label)
      BY <1>8 DEF UpsertVendor
    <2>2. job[w].pc = "upsert" /\ label \in Labels
      BY <1>8 DEF UpsertVendor, Labels
    <2> QED
      BY <1>1, <2>1, <2>2, GotoStep DEF Consistent
  <1>9. CASE InsertVendor(w)
    <2>1. PICK label \in {"fail", "resolve"} : Goto(w, label)
      BY <1>9 DEF InsertVendor
    <2>2. job[w].pc = "insert_vendor" /\ label \in Labels
      BY <1>9 DEF InsertVendor, Labels
    <2> QED
      BY <1>1, <2>1, <2>2, GotoStep DEF Consistent
  <1>10. CASE ResolveDocument(w)
    <2> DEFINE cand == Candidates(job[w].read.vendor)
    <2>1. Table(cand) /\ DOMAIN cand \subseteq Ids
      BY <1>1, CandidatesAreTable
    <2>2. PICK o \in Outcomes(job[w].read, cand) :
             \/ /\ o.branch = "logical_duplicate"
                /\ Advance(w, [job[w] EXCEPT !.pc = "link", !.id = o.link])
             \/ \E fxOk \in BOOLEAN :
                   Advance(w, [job[w] EXCEPT !.pc = "save",
                                 !.row = RowOf(job[w].doc, job[w].read, o, fxOk)])
      BY <1>10 DEF ResolveDocument
    <2>3. /\ o \in Outcome
          /\ o.branch = "logical_duplicate" => o.link \in Ids
      BY <2>1, OutcomeType
    <2>4. CASE /\ o.branch = "logical_duplicate"
               /\ Advance(w, [job[w] EXCEPT !.pc = "link", !.id = o.link])
      <3> DEFINE j == [job[w] EXCEPT !.pc = "link", !.id = o.link]
      <3>1. o.link \in Ids
        BY <2>3, <2>4
      <3>2. j \in Job
        BY <1>1, <3>1 DEF Job, Labels, OptId
      <3>3. Consistent(j)
        BY <1>1, <1>10, <3>1 DEF Job, Consistent, ResolveDocument
      <3> QED
        BY <1>1, <2>4, <3>2, <3>3, JobsStep
    <2>5. ASSUME NEW fxOk \in BOOLEAN,
                 Advance(w, [job[w] EXCEPT !.pc = "save",
                               !.row = RowOf(job[w].doc, job[w].read, o, fxOk)])
          PROVE  JobsTyped'
      <3> DEFINE r == RowOf(job[w].doc, job[w].read, o, fxOk)
                 j == [job[w] EXCEPT !.pc = "save", !.row = r]
      <3>1. job[w].doc \in Docs /\ job[w].read \in Reading
        BY <1>1, <1>10 DEF Consistent, ResolveDocument
      <3>2. r \in Row
        BY <2>3, <3>1, RowOfType
      <3> HIDE DEF r
      <3>3. j \in Job
        BY <1>1, <3>2 DEF Job, Labels
      <3>4. job[w].read # None
        BY PipelineAssumption, <3>1
      <3>5. Consistent(j)
        <4>1. /\ j.pc = "save" /\ j.doc = job[w].doc /\ j.read = job[w].read /\ j.row = r
          BY <1>1 DEF Job
        <4> QED
          BY <3>1, <3>2, <3>4, <4>1 DEF Consistent
      <3> QED
        BY <1>1, <2>5, <3>3, <3>5, JobsStep DEF r
    <2> QED
      BY <2>2, <2>4, <2>5
  <1>11. CASE LinkDuplicate(w)
    BY <1>1, <1>11, FinishStep, FailStep DEF LinkDuplicate, Return
  <1>12. CASE Save(w)
    <2>1. CASE Goto(w, "fail")
      BY <1>1, <1>12, <2>1, FailStep DEF Save
    <2>2. CASE FreshIds # {} /\ Advance(w, [job[w] EXCEPT !.pc = "original", !.id = NewId])
      <3> DEFINE j == [job[w] EXCEPT !.pc = "original", !.id = NewId]
      <3>1. NewId \in Ids
        BY <2>2, NewIdIsFresh DEF FreshIds
      <3>2. j \in Job
        BY <1>1, <3>1 DEF Job, Labels, OptId
      <3>3. Consistent(j)
        BY <1>1, <1>12, <3>1 DEF Job, Consistent, Save
      <3> QED
        BY <1>1, <2>2, <3>2, <3>3, JobsStep
    <2> QED
      BY <1>12, <2>1, <2>2 DEF Save
  <1>13. CASE SaveOriginal(w)
    <2>1. Finish(w) \/ Goto(w, "finish") \/ Goto(w, "fail")
      BY <1>13 DEF SaveOriginal, Return
    <2>2. job[w].pc = "original" /\ "finish" \in Labels
      BY <1>13 DEF SaveOriginal, Labels
    <2>3. CASE Goto(w, "finish")
      BY <1>1, <2>2, <2>3, GotoStep DEF Consistent
    <2> QED
      BY <1>1, <2>1, <2>2, <2>3, FinishStep, FailStep
  <1>14. CASE QueueDigest(w)
    BY <1>1, <1>14, FinishStep, FailStep DEF QueueDigest, Return
  <1>15. CASE DeadLetter(w)
    BY <1>1, <1>15, FinishStep DEF DeadLetter, Return
  <1> QED
    BY <1>3, <1>4, <1>5, <1>6, <1>7, <1>8, <1>9, <1>10, <1>11, <1>12, <1>13, <1>14, <1>15
       DEF WorkerStep

-----------------------------------------------------------------------------
(* Type correctness: the tables.                                           *)

LEMMA StoreFrame ==
    ASSUME StoreType, UNCHANGED storeVars
    PROVE  StoreType'
  BY DEF StoreType, storeVars, Stored, Entries

\* save_invoice adds one row and keeps the others (store.py:413-458).
LEMMA SaveInvoiceRows ==
    ASSUME rows \in [Stored -> Row], NEW i, NEW r \in Row, SaveInvoice(i, r)
    PROVE  rows' \in [Stored' -> Row] /\ Stored' = Stored \cup {i}
  <1>1. \A q \in Row : Superseded(q) \in Row
    BY RowFieldTypes DEF Statuses
  <1> QED
    BY <1>1 DEF SaveInvoice, Stored

\* A new dead-letter entry, and the removal of one.
LEMMA DeadLetterRows ==
    ASSUME dead \in [Entries -> Docs], NEW e
    PROVE  /\ \A d \in Docs : AddDeadLetter(e, d) =>
                 dead' \in [Entries' -> Docs] /\ Entries' = Entries \cup {e}
           /\ DeleteDeadLetter(e) =>
                 dead' \in [Entries' -> Docs] /\ Entries' = Entries \ {e}
  BY DEF AddDeadLetter, DeleteDeadLetter, Entries

LEMMA WorkerStore ==
    ASSUME TypeInv, NEW w \in Workers, WorkerStep(w)
    PROVE  StoreType'
  <1>1. StoreType /\ job[w] \in Job /\ Consistent(job[w])
    BY DEF TypeInv, TypeOK, WorkerType, JobsOK
  <1>2. CASE ClearEntry(w)
    BY <1>1, <1>2, DeadLetterRows DEF ClearEntry, StoreType, Stored
  <1>3. CASE CheckHash(w) \/ NoteDuplicate(w) \/ Read(w) \/ Normalize(w)
             \/ ResolveDocument(w) \/ QueueDigest(w)
    <2>1. UNCHANGED storeVars
      BY <1>3 DEF CheckHash, NoteDuplicate, Read, Normalize, ResolveDocument, QueueDigest
    <2> QED
      BY <1>1, <2>1, StoreFrame
  <1>4. CASE UpsertVendor(w) \/ InsertVendor(w)
    <2>1. job[w].read.vendor \in Vendors
      BY <1>1, <1>4 DEF UpsertVendor, InsertVendor, Consistent, Reading
    <2>2. vendors' \subseteq Vendors
      BY <1>1, <1>4, <2>1 DEF UpsertVendor, InsertVendor, StoreType
    <2>3. UNCHANGED <<rows, links, originals, dead, payloads, issued>>
      BY <1>4 DEF UpsertVendor, InsertVendor
    <2> QED
      BY <1>1, <2>2, <2>3 DEF StoreType, Stored, Entries
  <1>5. CASE LinkDuplicate(w)
    <2>1. job[w].doc \in Docs
      BY <1>1, <1>5 DEF Consistent, LinkDuplicate
    <2>2. links' \subseteq Stored \X Docs
      BY <1>1, <1>5, <2>1 DEF LinkDuplicate, StoreType
    <2>3. UNCHANGED <<rows, originals, vendors, dead, payloads, issued>>
      BY <1>5 DEF LinkDuplicate
    <2> QED
      BY <1>1, <2>2, <2>3 DEF StoreType, Stored, Entries
  <1>6. CASE Save(w)
    <2>1. job[w].row \in Row /\ UNCHANGED <<links, originals, vendors, dead, payloads>>
      BY <1>1, <1>6 DEF Consistent, Save
    <2>2. CASE SaveInvoice(NewId, job[w].row) /\ FreshIds # {} /\ issued' = issued \cup {NewId}
      <3>1. NewId \in Ids
        BY <2>2, NewIdIsFresh DEF FreshIds
      <3>2. rows' \in [Stored' -> Row] /\ Stored' = Stored \cup {NewId}
        BY <1>1, <2>1, <2>2, SaveInvoiceRows DEF StoreType
      <3> QED
        BY <1>1, <2>1, <2>2, <3>1, <3>2 DEF StoreType, Entries
    <2>3. CASE UNCHANGED <<rows, issued>>
      BY <1>1, <2>1, <2>3, StoreFrame DEF storeVars
    <2> QED
      BY <1>6, <2>2, <2>3 DEF Save
  <1>7. CASE SaveOriginal(w)
    <2>1. originals' \subseteq Stored /\ UNCHANGED <<rows, links, vendors, dead, payloads, issued>>
      BY <1>1, <1>7 DEF SaveOriginal, StoreType
    <2> QED
      BY <1>1, <2>1 DEF StoreType, Stored, Entries
  <1>8. CASE DeadLetter(w)
    <2>1. /\ job[w].doc \in Docs /\ HostOf[w] \in Hosts /\ NewId \in Ids
      BY <1>1, <1>8, PipelineAssumption, NewIdIsFresh DEF Consistent, DeadLetter, FreshIds
    <2>2. dead' \in [Entries' -> Docs] /\ Entries' = Entries \cup {NewId}
      BY <1>1, <1>8, <2>1, DeadLetterRows DEF DeadLetter, StoreType
    <2>3. payloads' \subseteq Hosts \X Docs
      BY <1>1, <1>8, <2>1 DEF DeadLetter, StoreType
    <2>4. UNCHANGED <<rows, links, originals, vendors>> /\ issued' = issued \cup {NewId}
      BY <1>8 DEF DeadLetter
    <2> QED
      BY <1>1, <2>1, <2>2, <2>3, <2>4 DEF StoreType, Stored
  <1> QED
    BY <1>2, <1>3, <1>4, <1>5, <1>6, <1>7, <1>8 DEF WorkerStep

LEMMA FaultStore ==
    ASSUME TypeInv, NEW w \in Workers, FaultStep(w) \/ Begin(w)
    PROVE  StoreType'
  <1>1. StoreType /\ Consistent(job[w])
    BY DEF TypeInv, TypeOK, JobsOK
  <1>2. CASE LlmUnavailable(w) \/ Raise(w) \/ Crash(w) \/ Begin(w)
    <2>1. UNCHANGED storeVars
      BY <1>2 DEF LlmUnavailable, Raise, Crash, Begin, Submit, StartRetry
    <2> QED
      BY <1>1, <2>1, StoreFrame
  <1>3. CASE DeadLetterFails(w)
    <2>1. job[w].doc \in Docs /\ HostOf[w] \in Hosts
      BY <1>1, <1>3, PipelineAssumption DEF Consistent, DeadLetterFails
    <2>2. payloads' \subseteq Hosts \X Docs
      BY <1>1, <1>3, <2>1 DEF DeadLetterFails, StoreType
    <2>3. UNCHANGED <<rows, links, originals, vendors, dead, issued>>
      BY <1>3 DEF DeadLetterFails
    <2> QED
      BY <1>1, <2>2, <2>3 DEF StoreType, Stored, Entries
  <1> QED
    BY <1>2, <1>3 DEF FaultStep

-----------------------------------------------------------------------------
(* Type correctness: counters and histories.                               *)

Histories ==
    /\ faults \in Nat /\ jobs \in Nat
    /\ owed \subseteq Docs
    /\ contested \subseteq (Vendors \cup {None}) \X OptNumber

LEMMA WorkerHistories ==
    ASSUME TypeInv, NEW w \in Workers, WorkerStep(w) \/ FaultStep(w) \/ Begin(w)
    PROVE  Histories'
  <1>1. Histories /\ job[w] \in Job /\ Consistent(job[w])
    BY DEF TypeInv, TypeOK, WorkerType, JobsOK, Histories
  <1>2. faults' \in {faults, faults + 1} /\ jobs' \in {jobs, jobs + 1}
    <2>1. CASE WorkerStep(w)
      BY <2>1 DEF WorkerStep, ClearEntry, CheckHash, NoteDuplicate, Read, Normalize, UpsertVendor,
         InsertVendor, ResolveDocument, LinkDuplicate, Save, SaveOriginal, QueueDigest,
         DeadLetter, Fault
    <2>2. CASE FaultStep(w) \/ Begin(w)
      BY <2>2 DEF FaultStep, LlmUnavailable, Raise, DeadLetterFails, Crash, Fault, Begin, Submit,
         StartRetry
    <2> QED
      BY <2>1, <2>2
  <1>3. \/ owed' = owed
        \/ job[w].pc # "idle" /\ owed' = owed \cup {job[w].doc}
    <2>1. CASE WorkerStep(w)
      BY <2>1 DEF WorkerStep, ClearEntry, CheckHash, NoteDuplicate, Read, Normalize, UpsertVendor,
         InsertVendor, ResolveDocument, LinkDuplicate, Save, SaveOriginal, QueueDigest,
         DeadLetter, Return
    <2>2. CASE FaultStep(w) \/ Begin(w)
      BY <2>2 DEF FaultStep, LlmUnavailable, Raise, DeadLetterFails, Crash, Begin, Submit,
         StartRetry
    <2> QED
      BY <2>1, <2>2
  <1>4. \/ contested' = contested
        \/ job[w].pc = "save" /\ contested' = contested \cup {Key(job[w].row)}
    <2>1. CASE WorkerStep(w)
      BY <2>1 DEF WorkerStep, ClearEntry, CheckHash, NoteDuplicate, Read, Normalize, UpsertVendor,
         InsertVendor, ResolveDocument, LinkDuplicate, Save, SaveOriginal, QueueDigest,
         DeadLetter
    <2>2. CASE FaultStep(w) \/ Begin(w)
      BY <2>2 DEF FaultStep, LlmUnavailable, Raise, DeadLetterFails, Crash, Begin, Submit,
         StartRetry
    <2> QED
      BY <2>1, <2>2
  <1>5. owed' \subseteq Docs
    BY <1>1, <1>3 DEF Histories, Consistent
  <1>6. contested' \subseteq (Vendors \cup {None}) \X OptNumber
    BY <1>1, <1>4, KeyType DEF Histories, Consistent
  <1> QED
    BY <1>1, <1>2, <1>5, <1>6 DEF Histories

-----------------------------------------------------------------------------
(* Type correctness: what people do.                                       *)

UserType ==
    /\ queue \subseteq Ids /\ deleting \in Deleting
    /\ reviews \in Nat /\ deletes \in Nat
    /\ DeletingOK

LEMMA TypeInvParts == TypeInv <=> StoreType /\ JobsTyped /\ Histories /\ UserType
  BY DEF TypeInv, TypeOK, WorkerType, JobsTyped, Histories, UserType

LEMMA TypeInvNext ==
    ASSUME StoreType', JobsTyped', Histories', UserType'
    PROVE  TypeInv'
  BY DEF TypeInv, TypeOK, WorkerType, JobsTyped, Histories, UserType

LEMMA UserFrame ==
    ASSUME UserType, UNCHANGED userVars
    PROVE  UserType'
  BY DEF UserType, userVars, DeletingOK

LEMMA HistoriesFrame ==
    ASSUME JobsTyped, Histories, job' = job, faults' = faults, jobs' = jobs,
           owed' \subseteq owed, contested' \subseteq (Vendors \cup {None}) \X OptNumber
    PROVE  JobsTyped' /\ Histories'
  BY DEF JobsTyped, JobsOK, Histories

LEMMA DeletingSteps ==
    ASSUME UserType
    PROVE  /\ NoDelete \in Deleting
           /\ \A i \in Ids : [pc |-> "clear_supersedes", id |-> i] \in Deleting
           /\ \A pc \in {"clear_credit", "delete", "failed"} :
                  /\ [deleting EXCEPT !.pc = pc] \in Deleting
                  /\ [deleting EXCEPT !.pc = pc].id = deleting.id
  BY DEF UserType, Deleting, NoDelete, OptId

\* An UPDATE of stored rows that keeps their columns' types.
LEMMA UpdateRows ==
    ASSUME StoreType, DOMAIN rows' = Stored, rows' \in [Stored -> Row],
           UNCHANGED <<links, originals, vendors, dead, payloads, issued>>
    PROVE  StoreType'
  BY DEF StoreType, Stored, Entries

\* A DELETE of one row, with its cascade.
LEMMA RemoveRow ==
    ASSUME StoreType, NEW i, rows' \in [Stored \ {i} -> Row], Cascade(i),
           UNCHANGED <<vendors, dead, payloads, issued>>
    PROVE  StoreType'
  <1>1. Stored' = Stored \ {i}
    BY DEF Stored
  <1>2. links' \subseteq Stored' \X Docs
    BY <1>1 DEF StoreType, Cascade
  <1> QED
    BY <1>1, <1>2 DEF StoreType, Entries, Cascade

LEMMA UserTypes ==
    ASSUME TypeInv, UserStep
    PROVE  TypeInv'
  <1>1. StoreType /\ JobsTyped /\ Histories /\ UserType
    BY TypeInvParts
  <1>2. contested \subseteq (Vendors \cup {None}) \X OptNumber
    BY <1>1 DEF Histories
  <1>3. CASE LoadQueue
    <2>1. StoreType'
      BY <1>1, <1>3, StoreFrame DEF LoadQueue
    <2>2. JobsTyped' /\ Histories'
      BY <1>1, <1>2, <1>3, HistoriesFrame DEF LoadQueue, workerVars
    <2>3. UserType'
      BY <1>1, <1>3 DEF LoadQueue, UserType, DeletingOK, ReviewQueue, StoreType
    <2> QED
      BY <2>1, <2>2, <2>3, TypeInvNext
  <1>4. ASSUME NEW i \in queue, NEW status \in {"clean", "failed"}, ReviewAction(i, status)
        PROVE  TypeInv'
    <2>1. /\ i \in Stored /\ rows[i] \in Row
          /\ UNCHANGED <<links, originals, vendors, dead, payloads, issued>>
      BY <1>1, <1>4 DEF ReviewAction, StoreType
    <2>2. [rows[i] EXCEPT !.status = status] \in Row
      BY <2>1, RowFieldTypes DEF Statuses
    <2>3. StoreType'
      BY <1>1, <1>4, <2>1, <2>2, UpdateRows DEF ReviewAction, UpdateStatus, StoreType
    <2>4. contested' \subseteq (Vendors \cup {None}) \X OptNumber
      BY <1>2, <1>4, <2>1, KeyType DEF ReviewAction
    <2>5. JobsTyped' /\ Histories'
      BY <1>1, <1>4, <2>4, HistoriesFrame DEF ReviewAction
    <2>6. UserType'
      BY <1>1, <1>4 DEF ReviewAction, UserType, DeletingOK
    <2> QED
      BY <2>3, <2>5, <2>6, TypeInvNext
  <1>5. ASSUME NEW i \in Stored, DeleteInvoice(i)
        PROVE  TypeInv'
    <2>1. \A j \in Stored : WithoutCredit(i, WithoutSupersedes(i, rows[j])) \in Row
      BY <1>1, RowFieldTypes DEF StoreType, Statuses
    <2>2. StoreType'
      BY <1>1, <1>5, <2>1, RemoveRow DEF DeleteInvoice, DeleteCleared
    <2>3. JobsTyped' /\ Histories'
      BY <1>1, <1>2, <1>5, HistoriesFrame DEF DeleteInvoice
    <2>4. UserType'
      BY <1>1, <1>5 DEF DeleteInvoice, UserType, DeletingOK
    <2> QED
      BY <2>2, <2>3, <2>4, TypeInvNext
  <1>6. ASSUME NEW i \in Stored, StartDelete(i)
        PROVE  TypeInv'
    <2>1. StoreType'
      BY <1>1, <1>6, StoreFrame DEF StartDelete
    <2>2. JobsTyped' /\ Histories'
      BY <1>1, <1>2, <1>6, HistoriesFrame DEF StartDelete, workerVars
    <2>3. i \in Ids
      BY <1>1 DEF StoreType
    <2>4. UserType'
      BY <1>1, <1>6, <2>3, DeletingSteps DEF StartDelete, UserType, DeletingOK
    <2> QED
      BY <2>1, <2>2, <2>4, TypeInvNext
  <1>7. CASE DeleteStepSupersedes
    <2>1. \A j \in Stored : WithoutSupersedes(deleting.id, rows[j]) \in Row
      BY <1>1, RowFieldTypes DEF StoreType, Statuses
    <2>2. StoreType'
      BY <1>1, <1>7, <2>1, UpdateRows DEF DeleteStepSupersedes, ClearSupersedes
    <2>3. JobsTyped' /\ Histories'
      BY <1>1, <1>2, <1>7, HistoriesFrame DEF DeleteStepSupersedes, workerVars
    <2>4. UserType'
      BY <1>1, <1>7, DeletingSteps DEF DeleteStepSupersedes, UserType, DeletingOK
    <2> QED
      BY <2>2, <2>3, <2>4, TypeInvNext
  <1>8. CASE DeleteStepCredit
    <2>1. \A j \in Stored : WithoutCredit(deleting.id, rows[j]) \in Row
      BY <1>1, RowFieldTypes DEF StoreType, Statuses
    <2>2. StoreType'
      BY <1>1, <1>8, <2>1, UpdateRows DEF DeleteStepCredit, ClearCredit
    <2>3. JobsTyped' /\ Histories'
      BY <1>1, <1>2, <1>8, HistoriesFrame DEF DeleteStepCredit, workerVars
    <2>4. UserType'
      BY <1>1, <1>8, DeletingSteps DEF DeleteStepCredit, UserType, DeletingOK
    <2> QED
      BY <2>2, <2>3, <2>4, TypeInvNext
  <1>9. CASE DeleteStepRow
    <2>1. /\ owed' \subseteq owed /\ UNCHANGED <<vendors, dead, payloads, issued>>
          /\ UNCHANGED <<job, faults, jobs, contested, queue, reviews, deletes>>
      BY <1>9 DEF DeleteStepRow
    <2>2. StoreType'
      <3>1. CASE DeleteRow(deleting.id)
        BY <1>1, <2>1, <3>1, RemoveRow DEF DeleteRow, StoreType
      <3>2. CASE UNCHANGED <<rows, links, originals>>
        BY <1>1, <2>1, <3>2, StoreFrame DEF storeVars
      <3> QED
        BY <1>9, <3>1, <3>2 DEF DeleteStepRow
    <2>3. JobsTyped' /\ Histories'
      BY <1>1, <1>2, <2>1, HistoriesFrame
    <2>4. UserType'
      <3>1. CASE deleting' = NoDelete
        BY <1>1, <2>1, <3>1, DeletingSteps DEF UserType, DeletingOK, NoDelete
      <3>2. CASE deleting.pc = "delete" /\ deleting' = [deleting EXCEPT !.pc = "failed"]
        BY <1>1, <2>1, <3>2, DeletingSteps DEF UserType, DeletingOK
      <3> QED
        BY <1>9, <3>1, <3>2 DEF DeleteStepRow
    <2> QED
      BY <2>2, <2>3, <2>4, TypeInvNext
  <1>10. CASE DeleteReturns
    <2>1. StoreType'
      BY <1>1, <1>10, StoreFrame DEF DeleteReturns
    <2>2. JobsTyped' /\ Histories'
      BY <1>1, <1>2, <1>10, HistoriesFrame DEF DeleteReturns, workerVars
    <2>3. UserType'
      BY <1>1, <1>10, DeletingSteps DEF DeleteReturns, UserType, DeletingOK, NoDelete
    <2> QED
      BY <2>1, <2>2, <2>3, TypeInvNext
  <1>11. ASSUME NEW e \in Entries, Dismiss(e)
         PROVE  TypeInv'
    <2>1. StoreType'
      BY <1>1, <1>11, DeadLetterRows DEF Dismiss, StoreType, Stored
    <2>2. JobsTyped' /\ Histories'
      BY <1>1, <1>2, <1>11, HistoriesFrame DEF Dismiss
    <2>3. UserType'
      BY <1>1, <1>11 DEF Dismiss, UserType, DeletingOK
    <2> QED
      BY <2>1, <2>2, <2>3, TypeInvNext
  <1>12. CASE DeleteStops
    <2>1. StoreType'
      BY <1>1, <1>12, StoreFrame DEF DeleteStops
    <2>2. JobsTyped' /\ Histories'
      BY <1>1, <1>12 DEF DeleteStops, Fault, JobsTyped, JobsOK, Histories
    <2>3. UserType'
      BY <1>1, <1>12, DeletingSteps DEF DeleteStops, UserType, DeletingOK, NoDelete
    <2> QED
      BY <2>1, <2>2, <2>3, TypeInvNext
  <1> QED
    BY <1>3, <1>4, <1>5, <1>6, <1>7, <1>8, <1>9, <1>10, <1>11, <1>12 DEF UserStep

-----------------------------------------------------------------------------
LEMMA InitTypes == Init => TypeInv
  <1> SUFFICES ASSUME Init PROVE TypeInv
    OBVIOUS
  <1>1. StoreType
    BY DEF Init, StoreInit, StoreType, Stored, Entries
  <1>2. JobsTyped /\ Histories
    BY IdleJobType DEF Init, WorkerInit, JobsTyped, JobsOK, Histories
  <1>3. UserType
    BY DEF Init, UserType, DeletingOK, Deleting, NoDelete, OptId
  <1> QED
    BY <1>1, <1>2, <1>3, TypeInvParts

LEMMA StepTypes == TypeInv /\ [Next]_vars => TypeInv'
  <1> SUFFICES ASSUME TypeInv, [Next]_vars PROVE TypeInv'
    OBVIOUS
  <1>1. StoreType /\ JobsTyped /\ Histories /\ UserType
    BY TypeInvParts
  <1>2. ASSUME NEW w \in Workers, WorkerStep(w) \/ Begin(w) \/ FaultStep(w), UNCHANGED userVars
        PROVE  TypeInv'
    <2>1. JobsTyped'
      BY <1>2, WorkerJobs, BeginJobs, FaultJobs
    <2>2. StoreType'
      BY <1>2, WorkerStore, FaultStore
    <2>3. Histories'
      BY <1>2, WorkerHistories
    <2>4. UserType'
      BY <1>1, <1>2, UserFrame
    <2> QED
      BY <2>1, <2>2, <2>3, <2>4, TypeInvNext
  <1>3. CASE UserStep
    BY <1>3, UserTypes
  <1>4. CASE UNCHANGED vars
    <2>1. StoreType'
      BY <1>1, <1>4, StoreFrame DEF vars
    <2>2. JobsTyped' /\ Histories'
      BY <1>1, <1>4, HistoriesFrame DEF vars, workerVars, Histories
    <2>3. UserType'
      BY <1>1, <1>4, UserFrame DEF vars
    <2> QED
      BY <2>1, <2>2, <2>3, TypeInvNext
  <1> QED
    BY <1>2, <1>3, <1>4 DEF Next, Progress

\* No interleaving of uploads, polls, retries, faults, reviews and deletes puts a
\* value outside its domain, leaves a child row without its invoice or reuses an id.
THEOREM TypeCorrect == Spec => []TypeOK
  <1>1. TypeInv => TypeOK
    BY DEF TypeInv
  <1> QED
    BY <1>1, InitTypes, StepTypes, PTL DEF Spec

-----------------------------------------------------------------------------
(* One active version per invoice number.  OneActivePerKey is inductive    *)
(* relative to TypeInv: only save_invoice and a review can add an active   *)
(* row to a number, and the decision save_invoice carries out, when it is  *)
(* still the one resolve() would take, names the row to be replaced.       *)

\* A step that deletes rows or rewrites other columns than these.
LEMMA KeepsActive ==
    ASSUME OneActivePerKey, Stored' \subseteq Stored, contested' = contested,
           \A i \in Stored' : /\ rows'[i].number = rows[i].number
                              /\ rows'[i].vendor = rows[i].vendor
                              /\ rows'[i].status = rows[i].status
    PROVE  OneActivePerKey'
  BY DEF OneActivePerKey, Key

LEMMA UnchangedActive ==
    ASSUME OneActivePerKey, UNCHANGED <<rows, contested>>
    PROVE  OneActivePerKey'
  BY KeepsActive DEF Stored

LEMMA ClearedColumns ==
    ASSUME NEW r \in Row, NEW i
    PROVE  /\ WithoutSupersedes(i, r).number = r.number
           /\ WithoutSupersedes(i, r).vendor = r.vendor
           /\ WithoutSupersedes(i, r).status = r.status
           /\ WithoutCredit(i, r).number = r.number
           /\ WithoutCredit(i, r).vendor = r.vendor
           /\ WithoutCredit(i, r).status = r.status
  BY DEF Row, WithoutSupersedes, WithoutCredit

\* A current decision to store inc as active replaces the row that was active
\* under its number (resolve.py:78-90,123-152).
LEMMA ReplacesTheActiveRow ==
    ASSUME TypeInv, OneActivePerKey, NEW inc \in Reading,
           NEW o \in Outcomes(inc, Candidates(inc.vendor)),
           o.branch # "logical_duplicate", o.hint # "superseded",
           NormNum(inc.number) # None, Key(inc) \notin contested,
           NEW j \in Stored, NormNum(rows[j].number) # None,
           Key(rows[j]) = Key(inc), rows[j].status # "superseded"
    PROVE  o.supersedes = j
  <1> DEFINE cand == Candidates(inc.vendor)
             active == ActiveOf(Matches(inc, cand), cand)
  <1>1. /\ DOMAIN cand = {i \in Stored : rows[i].vendor = inc.vendor}
        /\ \A i \in DOMAIN cand : cand[i] = rows[i]
    BY DEF Candidates
  <1>2. inc.number \notin {None, Blank} /\ rows[j].number \notin {None, Blank}
    BY DEF NormNum
  <1>3. rows[j].vendor = inc.vendor /\ NormNum(rows[j].number) = NormNum(inc.number)
    BY DEF Key
  <1>4. j \in active
    BY <1>1, <1>2, <1>3 DEF ActiveOf, Matches, LogicalMatch
  <1>5. o.supersedes \in active
    BY <1>4, ReplacesAnActiveMatch
  <1> DEFINE t == o.supersedes
  <1>6. /\ t \in Stored /\ rows[t].status # "superseded"
        /\ rows[t].vendor = inc.vendor
        /\ NormNum(rows[t].number) = NormNum(inc.number)
    BY <1>1, <1>2, <1>5 DEF ActiveOf, Matches, LogicalMatch
  <1>7. Key(rows[t]) = Key(rows[j])
    BY <1>3, <1>6 DEF Key
  <1>8. NormNum(rows[t].number) # None /\ Key(rows[t]) \notin contested
    BY <1>6, <1>7
  <1> QED
    BY <1>6, <1>7, <1>8 DEF OneActivePerKey

LEMMA SaveKeepsOneActive ==
    ASSUME TypeInv, OneActivePerKey, NEW w \in Workers, Save(w)
    PROVE  OneActivePerKey'
  <1> DEFINE r == job[w].row
             n == NewId
  <1>1. /\ rows \in [Stored -> Row] /\ Stored \subseteq issued
        /\ Consistent(job[w]) /\ job[w] \in Job /\ job[w].pc = "save"
    BY DEF TypeInv, TypeOK, StoreType, WorkerType, JobsOK, Save
  <1>2. r \in Row /\ (job[w].read = None => r = JunkRow(job[w].doc))
    BY <1>1 DEF Consistent
  <1>3. CASE UNCHANGED <<rows, contested>>
    BY <1>3, UnchangedActive
  <1>4. CASE /\ FreshIds # {} /\ SaveInvoice(n, r)
             /\ contested' = IF job[w].read = None \/ Current(w) THEN contested
                             ELSE contested \cup {Key(r)}
    <2>1. n \notin Stored
      BY <1>1, <1>4, NewIdIsFresh DEF FreshIds
    <2>2. /\ Stored' = Stored \cup {n} /\ rows'[n] = r
          /\ contested \subseteq contested'
          /\ \A i \in Stored :
                rows'[i] = IF i = r.supersedes THEN Superseded(rows[i]) ELSE rows[i]
      <3>1. contested \subseteq contested'
        BY <1>4
      <3>2. rows' = [j \in Stored \cup {n} |->
                        IF j = n THEN r
                        ELSE IF j = r.supersedes THEN Superseded(rows[j]) ELSE rows[j]]
        BY <1>4 DEF SaveInvoice
      <3>3. Stored' = Stored \cup {n}
        BY <3>2 DEF Stored
      <3> HIDE DEF n, r
      <3>4. rows'[n] = r
        BY <3>2
      <3>5. ASSUME NEW i \in Stored
            PROVE  rows'[i] = IF i = r.supersedes THEN Superseded(rows[i]) ELSE rows[i]
        BY <2>1, <3>2
      <3> QED
        BY <3>1, <3>3, <3>4, <3>5
    <2>3. \A q \in Row : Superseded(q).status = "superseded"
      BY DEF Row, Superseded
    <2>4. \A i \in Stored : rows'[i].status # "superseded" =>
                            rows'[i] = rows[i] /\ i # r.supersedes
      BY <1>1, <2>2, <2>3
    <2>5. ASSUME NEW j \in Stored,
                 NormNum(r.number) # None, NormNum(rows'[j].number) # None,
                 Key(r) = Key(rows'[j]), Key(r) \notin contested',
                 r.status # "superseded", rows'[j].status # "superseded"
          PROVE  FALSE
      <3>1. rows'[j] = rows[j] /\ j # r.supersedes
        BY <2>4, <2>5
      <3>2. job[w].read # None
        <4>1. NormNum(JunkRow(job[w].doc).number) = None
          BY DEF JunkRow, NormNum
        <4> QED
          BY <1>2, <2>5, <4>1
      <3>3. job[w].read \in Reading
        BY <1>1, <3>2 DEF Job
      <3>4. Current(w)
        BY <1>4, <2>5, <3>2
      <3>5. PICK o \in Outcomes(job[w].read, Candidates(job[w].read.vendor)), fxOk \in BOOLEAN :
              /\ o.branch # "logical_duplicate"
              /\ r = RowOf(job[w].doc, job[w].read, o, fxOk)
              /\ o.hint = "superseded" => r.status = "superseded"
        BY <3>4 DEF Current
      <3>6. /\ r.number = job[w].read.number /\ r.vendor = job[w].read.vendor
            /\ r.supersedes = o.supersedes
        BY <3>5 DEF RowOf
      <3>7. Key(r) = Key(job[w].read)
        BY <3>6 DEF Key
      <3>8. o.supersedes = j
        <4>1. o.branch # "logical_duplicate" /\ o.hint # "superseded"
          BY <2>5, <3>5
        <4>2. /\ NormNum(job[w].read.number) # None /\ Key(job[w].read) \notin contested
              /\ NormNum(rows[j].number) # None /\ rows[j].status # "superseded"
              /\ Key(rows[j]) = Key(job[w].read)
          BY <2>2, <2>5, <3>1, <3>6, <3>7
        <4> QED
          BY <3>3, <4>1, <4>2, ReplacesTheActiveRow
      <3> QED
        BY <3>1, <3>6, <3>8
    <2>6. ASSUME NEW i \in Stored', NEW j \in Stored',
                 NormNum(rows'[i].number) # None, NormNum(rows'[j].number) # None,
                 Key(rows'[i]) = Key(rows'[j]), Key(rows'[i]) \notin contested',
                 rows'[i].status # "superseded", rows'[j].status # "superseded"
          PROVE  i = j
      <3>1. CASE i \in Stored /\ j \in Stored
        <4>1. rows'[i] = rows[i] /\ rows'[j] = rows[j] /\ Key(rows[i]) \notin contested
          BY <2>2, <2>4, <2>6, <3>1
        <4> QED
          BY <2>6, <3>1, <4>1 DEF OneActivePerKey
      <3>2. CASE i = n /\ j # n
        BY <2>2, <2>5, <2>6, <3>2
      <3>3. CASE i # n /\ j = n
        BY <2>2, <2>5, <2>6, <3>3
      <3> QED
        BY <2>2, <3>1, <3>2, <3>3
    <2> QED
      BY <2>6 DEF OneActivePerKey, Key
  <1> QED
    BY <1>3, <1>4 DEF Save

LEMMA ReviewKeepsOneActive ==
    ASSUME TypeInv, OneActivePerKey, NEW i, NEW status \in {"clean", "failed"},
           ReviewAction(i, status)
    PROVE  OneActivePerKey'
  <1>1. rows \in [Stored -> Row] /\ i \in Stored
    BY DEF TypeInv, TypeOK, StoreType, ReviewAction
  <1>2. rows' = [rows EXCEPT ![i] = [rows[i] EXCEPT !.status = status]]
    BY DEF ReviewAction, UpdateStatus
  <1>3. Stored' = Stored
    BY <1>1, <1>2 DEF Stored
  <1>4. \A j \in Stored : /\ rows'[j].number = rows[j].number
                          /\ rows'[j].vendor = rows[j].vendor
                          /\ j # i => rows'[j].status = rows[j].status
    BY <1>1, <1>2 DEF Row
  <1>5. \A j \in Stored : Key(rows'[j]) = Key(rows[j])
    BY <1>4 DEF Key
  <1>6. /\ contested \subseteq contested'
        /\ rows[i].status = "superseded" => Key(rows[i]) \in contested'
    BY DEF ReviewAction
  <1>7. ASSUME NEW j \in Stored, NEW k \in Stored,
               NormNum(rows'[j].number) # None, NormNum(rows'[k].number) # None,
               Key(rows'[j]) = Key(rows'[k]), Key(rows'[j]) \notin contested',
               rows'[j].status # "superseded", rows'[k].status # "superseded"
        PROVE  j = k
    <2>1. Key(rows[j]) = Key(rows[k]) /\ Key(rows[j]) \notin contested'
      BY <1>5, <1>7
    <2>2. rows[j].status # "superseded" /\ rows[k].status # "superseded"
      BY <1>4, <1>6, <1>7, <2>1
    <2>3. NormNum(rows[j].number) # None /\ NormNum(rows[k].number) # None
      BY <1>4, <1>7
    <2> QED
      BY <1>6, <2>1, <2>2, <2>3 DEF OneActivePerKey
  <1> QED
    BY <1>3, <1>7 DEF OneActivePerKey, Key

LEMMA UserKeepsOneActive ==
    ASSUME TypeInv, OneActivePerKey, UserStep
    PROVE  OneActivePerKey'
  <1>1. rows \in [Stored -> Row]
    BY DEF TypeInv, TypeOK, StoreType
  <1>2. CASE LoadQueue \/ DeleteReturns \/ DeleteStops \/ (\E i \in Stored : StartDelete(i))
             \/ (\E e \in Entries : Dismiss(e))
    <2>1. UNCHANGED <<rows, contested>>
      BY <1>2 DEF LoadQueue, DeleteReturns, DeleteStops, StartDelete, Dismiss, storeVars, workerVars
    <2> QED
      BY <2>1, UnchangedActive
  <1>3. CASE \E i \in queue, status \in {"clean", "failed"} : ReviewAction(i, status)
    BY <1>3, ReviewKeepsOneActive
  <1>4. ASSUME NEW i \in Stored, DeleteInvoice(i)
        PROVE  OneActivePerKey'
    <2>1. \A j \in Stored : WithoutSupersedes(i, rows[j]) \in Row
      BY <1>1, RowFieldTypes DEF Statuses
    <2>2. /\ Stored' = Stored \ {i} /\ contested' = contested
          /\ \A j \in Stored' : rows'[j] = WithoutCredit(i, WithoutSupersedes(i, rows[j]))
      BY <1>4 DEF DeleteInvoice, DeleteCleared, Stored
    <2> QED
      BY <1>1, <2>1, <2>2, ClearedColumns, KeepsActive
  <1>5. CASE DeleteStepSupersedes
    <2>1. /\ Stored' = Stored /\ contested' = contested
          /\ \A j \in Stored' : rows'[j] = WithoutSupersedes(deleting.id, rows[j])
      BY <1>5 DEF DeleteStepSupersedes, ClearSupersedes, Stored, workerVars
    <2> QED
      BY <1>1, <2>1, ClearedColumns, KeepsActive
  <1>6. CASE DeleteStepCredit
    <2>1. /\ Stored' = Stored /\ contested' = contested
          /\ \A j \in Stored' : rows'[j] = WithoutCredit(deleting.id, rows[j])
      BY <1>6 DEF DeleteStepCredit, ClearCredit, Stored, workerVars
    <2> QED
      BY <1>1, <2>1, ClearedColumns, KeepsActive
  <1>7. CASE DeleteStepRow
    <2>1. /\ Stored' \subseteq Stored /\ contested' = contested
          /\ \A j \in Stored' : rows'[j] = rows[j]
      BY <1>7 DEF DeleteStepRow, DeleteRow, Stored
    <2> QED
      BY <2>1, KeepsActive
  <1> QED
    BY <1>2, <1>3, <1>4, <1>5, <1>6, <1>7 DEF UserStep

LEMMA StepKeepsOneActive ==
    TypeInv /\ OneActivePerKey /\ [Next]_vars => OneActivePerKey'
  <1> SUFFICES ASSUME TypeInv, OneActivePerKey, [Next]_vars PROVE OneActivePerKey'
    OBVIOUS
  <1>1. ASSUME NEW w \in Workers, WorkerStep(w)
        PROVE  OneActivePerKey'
    <2>1. CASE Save(w)
      BY <2>1, SaveKeepsOneActive
    <2>2. CASE ~Save(w)
      <3>1. UNCHANGED <<rows, contested>>
        BY <1>1, <2>2 DEF WorkerStep, ClearEntry, CheckHash, NoteDuplicate, Read, Normalize,
           UpsertVendor, InsertVendor, ResolveDocument, LinkDuplicate, SaveOriginal,
           QueueDigest, DeadLetter, storeVars
      <3> QED
        BY <3>1, UnchangedActive
    <2> QED
      BY <2>1, <2>2
  <1>2. ASSUME NEW w \in Workers, Begin(w) \/ FaultStep(w)
        PROVE  OneActivePerKey'
    <2>1. UNCHANGED <<rows, contested>>
      BY <1>2 DEF Begin, Submit, StartRetry, FaultStep, LlmUnavailable, Raise,
         DeadLetterFails, Crash, storeVars
    <2> QED
      BY <2>1, UnchangedActive
  <1>3. CASE UserStep
    BY <1>3, UserKeepsOneActive
  <1>4. CASE UNCHANGED vars
    BY <1>4, UnchangedActive DEF vars, storeVars, workerVars
  <1> QED
    BY <1>1, <1>2, <1>3, <1>4 DEF Next, Progress

\* However uploads, polls, retries, faults, crashes, deletes and reviews interleave,
\* a vendor's invoice number has at most one row that is not superseded, unless a
\* row of that number was written from a decision the table had overtaken, an FX
\* failure reopened a late revision, or a superseded row was decided on.
THEOREM OneActiveVersion == Spec => []OneActivePerKey
  <1>1. Init => OneActivePerKey
    BY DEF Init, StoreInit, OneActivePerKey, Stored
  <1> QED
    BY <1>1, InitTypes, StepTypes, StepKeepsOneActive, PTL DEF Spec
=============================================================================
