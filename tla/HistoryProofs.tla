----------------------------- MODULE HistoryProofs -----------------------------
(***************************************************************************)
(* Theorems about the past of the ledger, for every value of the           *)
(* constants: the versions of an invoice, the chain they form and which of *)
(* them counts; and what becomes of a document, that nothing a call        *)
(* answered for is lost, and a stored document can be produced.  The last  *)
(* two assume that run_safely's own except branch succeeds and that no     *)
(* process stops inside a call, the two faults the code has no answer to.  *)
(***************************************************************************)
EXTENDS TallyflowProofs

-----------------------------------------------------------------------------
(* What a step may do to the invoices table: add the row a worker was      *)
(* about to save, or remove rows and change columns that leave a version   *)
(* what it is.                                                             *)

\* q is the row r with another status or cleared references.
SameVersionOf(q, r) ==
    /\ q.hash = r.hash /\ q.vendor = r.vendor /\ q.number = r.number
    /\ q.date = r.date /\ q.version = r.version /\ q.docType = r.docType
    /\ q.supersedes \in {r.supersedes, None} /\ q.creditOf \in {r.creditOf, None}

\* On Postgres only a row nothing refers to goes (schema.sql:45-46).
RowsKept ==
    /\ Stored' \subseteq Stored /\ issued \subseteq issued'
    /\ \A i \in Stored' : SameVersionOf(rows'[i], rows[i])
    /\ Backend = "postgres" => \A i \in Stored \ Stored' : Unreferenced(i)

\* w's row goes in under the new id n.
Inserts(w, n) ==
    /\ Save(w) /\ Insertable(job[w].row, job[w].source)
    /\ n \in Ids \ issued /\ issued' = issued \cup {n}
    /\ Stored' = Stored \cup {n} /\ rows'[n] = job[w].row
    /\ \A i \in Stored :
          rows'[i] = IF i = job[w].row.supersedes THEN Superseded(rows[i]) ELSE rows[i]

LEMMA SameVersions ==
    ASSUME NEW r \in Row, NEW i, NEW status
    PROVE  /\ SameVersionOf(r, r)
           /\ SameVersionOf(Superseded(r), r)
           /\ SameVersionOf([r EXCEPT !.status = status], r)
           /\ SameVersionOf(WithoutSupersedes(i, r), r)
           /\ SameVersionOf(WithoutCredit(i, r), r)
           /\ SameVersionOf(WithoutCredit(i, WithoutSupersedes(i, r)), r)
  BY DEF Row, SameVersionOf, Superseded, WithoutSupersedes, WithoutCredit

LEMMA SaveEffect ==
    ASSUME TypeInv, NEW w \in Workers, Save(w)
    PROVE  UNCHANGED <<rows, issued>> \/ Inserts(w, NewId)
  <1> DEFINE r == job[w].row
             n == NewId
  <1>1. Stored \subseteq issued
    BY DEF TypeInv, TypeOK, StoreType
  <1>2. CASE UNCHANGED <<rows, issued>>
    BY <1>2
  <1>3. CASE /\ Insertable(r, job[w].source) /\ FreshIds # {}
             /\ SaveInvoice(n, r) /\ issued' = issued \cup {n}
    <2>1. n \in Ids \ issued /\ n \notin Stored
      BY <1>1, <1>3, NewIdIsFresh DEF FreshIds
    <2>2. rows' = [j \in Stored \cup {n} |->
                      IF j = n THEN r
                      ELSE IF j = r.supersedes THEN Superseded(rows[j]) ELSE rows[j]]
      BY <1>3 DEF SaveInvoice
    <2>3. Stored' = Stored \cup {n}
      BY <2>2 DEF Stored
    <2> HIDE DEF n, r
    <2>4. rows'[n] = r
      BY <2>2
    <2>5. ASSUME NEW i \in Stored
          PROVE  rows'[i] = IF i = r.supersedes THEN Superseded(rows[i]) ELSE rows[i]
      BY <2>1, <2>2
    <2> QED
      BY <1>3, <2>1, <2>3, <2>4, <2>5 DEF Inserts, n, r
  <1> QED
    BY <1>2, <1>3 DEF Save

LEMMA KeptUnchanged ==
    ASSUME TypeInv, rows' = rows, issued \subseteq issued'
    PROVE  RowsKept
  BY SameVersions DEF RowsKept, Stored, TypeInv, TypeOK, StoreType

LEMMA UserKeepsRows ==
    ASSUME TypeInv, UserStep
    PROVE  RowsKept
  <1>1. rows \in [Stored -> Row]
    BY DEF TypeInv, TypeOK, StoreType
  <1>2. CASE LoadQueue \/ DeleteReturns \/ DeleteStops \/ (\E i \in Stored : StartDelete(i))
             \/ (\E e \in Entries : Dismiss(e))
    <2>1. rows' = rows /\ issued' = issued
      BY <1>2 DEF LoadQueue, DeleteReturns, DeleteStops, StartDelete, Dismiss, storeVars
    <2> QED
      BY <2>1, KeptUnchanged
  <1>3. ASSUME NEW i, NEW status, ReviewAction(i, status)
        PROVE  RowsKept
    <2>1. /\ Stored' = Stored /\ issued' = issued
          /\ \A j \in Stored : rows'[j] \in {rows[j], [rows[j] EXCEPT !.status = status]}
      BY <1>1, <1>3 DEF ReviewAction, UpdateStatus, Stored
    <2> QED
      BY <1>1, <2>1, SameVersions DEF RowsKept
  <1>4. ASSUME NEW i \in Stored, DeleteInvoice(i)
        PROVE  RowsKept
    <2>1. /\ Stored' = Stored \ {i} /\ issued' = issued /\ Backend = "sqlite"
          /\ \A j \in Stored' : rows'[j] = WithoutCredit(i, WithoutSupersedes(i, rows[j]))
      BY <1>4 DEF DeleteInvoice, DeleteCleared, Stored
    <2> QED
      BY <1>1, <2>1, SameVersions DEF RowsKept
  <1>5. CASE DeleteStepSupersedes
    <2>1. /\ Stored' = Stored /\ issued' = issued
          /\ \A j \in Stored' : rows'[j] = WithoutSupersedes(deleting.id, rows[j])
      BY <1>5 DEF DeleteStepSupersedes, ClearSupersedes, Stored
    <2> QED
      BY <1>1, <2>1, SameVersions DEF RowsKept
  <1>6. CASE DeleteStepCredit
    <2>1. /\ Stored' = Stored /\ issued' = issued
          /\ \A j \in Stored' : rows'[j] = WithoutCredit(deleting.id, rows[j])
      BY <1>6 DEF DeleteStepCredit, ClearCredit, Stored
    <2> QED
      BY <1>1, <2>1, SameVersions DEF RowsKept
  <1>7. CASE DeleteStepRow
    <2>1. /\ Stored' \subseteq Stored /\ issued' = issued
          /\ \A j \in Stored' : rows'[j] = rows[j]
          /\ \A j \in Stored \ Stored' : Unreferenced(j)
      BY <1>7 DEF DeleteStepRow, DeleteRow, Stored
    <2> QED
      BY <1>1, <2>1, SameVersions DEF RowsKept
  <1> QED
    BY <1>2, <1>3, <1>4, <1>5, <1>6, <1>7 DEF UserStep

\* Only a save adds a row, and no step turns one version into another
\* (store.py:413-458, main.py:191-197,332-343).
LEMMA RowEffects ==
    ASSUME TypeInv, [Next]_vars
    PROVE  RowsKept \/ \E w \in Workers : Inserts(w, NewId)
  <1>1. ASSUME NEW w \in Workers, WorkerStep(w)
        PROVE  RowsKept \/ Inserts(w, NewId)
    <2>1. CASE Save(w)
      BY <2>1, SaveEffect, KeptUnchanged
    <2>2. CASE ~Save(w)
      <3>1. rows' = rows /\ issued \subseteq issued'
        BY <1>1, <2>2 DEF WorkerStep, ClearEntry, CheckHash, NoteDuplicate, Read, Normalize,
           UpsertVendor, InsertVendor, ResolveDocument, LinkDuplicate, SaveOriginal,
           QueueDigest, DeadLetter, storeVars
      <3> QED
        BY <3>1, KeptUnchanged
    <2> QED
      BY <2>1, <2>2
  <1>2. ASSUME NEW w \in Workers, Begin(w) \/ FaultStep(w)
        PROVE  RowsKept
    <2>1. rows' = rows /\ issued' = issued
      BY <1>2 DEF Begin, Submit, StartRetry, FaultStep, LlmUnavailable, Raise,
         DeadLetterFails, Crash, storeVars
    <2> QED
      BY <2>1, KeptUnchanged
  <1>3. CASE UserStep
    BY <1>3, UserKeepsRows
  <1>4. CASE UNCHANGED vars
    BY <1>4, KeptUnchanged DEF vars, storeVars
  <1> QED
    BY <1>1, <1>2, <1>3, <1>4 DEF Next, Progress

-----------------------------------------------------------------------------
(* What a step may do to the row a worker is about to save.                *)

\* w has decided on its document and goes on to save r.
Decides(w, r) ==
    \E o \in Outcomes(job[w].read, Candidates(job[w].read.vendor)), fxOk \in BOOLEAN :
        /\ o.branch # "logical_duplicate"
        /\ r = RowOf(job[w].doc, job[w].read, o, fxOk)

\* w reads junk, or decides on a document.
Composes(w, r) ==
    /\ rows' = rows /\ issued' = issued
    /\ \/ r = JunkRow(job[w].doc)
       \/ Decides(w, r) /\ job[w].read \in Reading

LEMMA OthersJobs ==
    ASSUME TypeInv, NEW w \in Workers, WorkerStep(w) \/ FaultStep(w) \/ Begin(w)
    PROVE  \E j : Advance(w, j)
  BY Zenon DEF WorkerStep, FaultStep, Begin, ClearEntry, CheckHash, NoteDuplicate, Read, Normalize,
     UpsertVendor, InsertVendor, ResolveDocument, LinkDuplicate, Save, SaveOriginal, QueueDigest,
     DeadLetter, LlmUnavailable, Raise, DeadLetterFails, Crash, Submit, StartRetry, Goto, Return,
     Finish

\* A worker comes to the save with a row it has just composed (pipeline.py:141-243).
LEMMA SaveIsPrepared ==
    ASSUME TypeInv, NEW w \in Workers, WorkerStep(w) \/ FaultStep(w) \/ Begin(w),
           job'[w].pc = "save"
    PROVE  job'[w].doc = job[w].doc /\ Composes(w, job'[w].row)
  <1>1. /\ job \in [Workers -> Job] /\ job[w] \in Job /\ Consistent(job[w])
    BY DEF TypeInv, TypeOK, WorkerType, JobsOK
  <1>2. \A j : Advance(w, j) => job'[w] = j
    BY <1>1 DEF Advance
  <1>3. ~Finish(w)
    BY <1>2 DEF Finish, IdleJob
  <1>4. \A label : Goto(w, label) => label = "save"
    BY <1>1, <1>2 DEF Goto, Job
  <1>5. CASE Read(w)
    <2>1. PICK r : \/ Advance(w, [job[w] EXCEPT !.pc = "save", !.row = JunkRow(job[w].doc)])
                   \/ Advance(w, [job[w] EXCEPT !.pc = "normalize", !.read = r])
      BY <1>5 DEF Read
    <2>2. Advance(w, [job[w] EXCEPT !.pc = "save", !.row = JunkRow(job[w].doc)])
      BY <1>1, <1>2, <2>1 DEF Job
    <2>3. job'[w].row = JunkRow(job[w].doc) /\ job'[w].doc = job[w].doc
      BY <1>1, <1>2, <2>2 DEF Job
    <2> QED
      BY <1>5, <2>3 DEF Composes, Read, storeVars
  <1>6. CASE ResolveDocument(w)
    <2>1. PICK o \in Outcomes(job[w].read, Candidates(job[w].read.vendor)) :
             \/ Advance(w, [job[w] EXCEPT !.pc = "link", !.id = o.link])
             \/ /\ o.branch # "logical_duplicate"
                /\ \E fxOk \in BOOLEAN :
                      Advance(w, [job[w] EXCEPT !.pc = "save",
                                    !.row = RowOf(job[w].doc, job[w].read, o, fxOk)])
      BY <1>6 DEF ResolveDocument
    <2>2. ~Advance(w, [job[w] EXCEPT !.pc = "link", !.id = o.link])
      BY <1>1, <1>2 DEF Job
    <2>3. PICK fxOk \in BOOLEAN :
             Advance(w, [job[w] EXCEPT !.pc = "save",
                           !.row = RowOf(job[w].doc, job[w].read, o, fxOk)])
      BY <2>1, <2>2
    <2>4. /\ job'[w].row = RowOf(job[w].doc, job[w].read, o, fxOk)
          /\ job'[w].doc = job[w].doc
      BY <1>1, <1>2, <2>3 DEF Job
    <2>5. Decides(w, job'[w].row)
      BY <2>1, <2>2, <2>4 DEF Decides
    <2>6. job[w].read \in Reading
      BY <1>1, <1>6 DEF Consistent, ResolveDocument
    <2> QED
      BY <1>6, <2>4, <2>5, <2>6 DEF Composes, ResolveDocument, storeVars
  <1>7. CASE ClearEntry(w)
    BY <1>1, <1>2, <1>7 DEF ClearEntry, Job
  <1>8. CASE CheckHash(w)
    <2>1. PICK i : Goto(w, "read") \/ Advance(w, [job[w] EXCEPT !.pc = "duplicate", !.id = i])
      BY <1>8 DEF CheckHash
    <2> QED
      BY <1>1, <1>2, <1>4, <2>1 DEF Job
  <1>9. CASE Normalize(w) \/ UpsertVendor(w) \/ InsertVendor(w)
    <2>1. Goto(w, "resolve") \/ Goto(w, "upsert") \/ Goto(w, "insert_vendor") \/ Goto(w, "fail")
      BY <1>9 DEF Normalize, UpsertVendor, InsertVendor
    <2> QED
      BY <1>4, <2>1
  <1>10. CASE Save(w)
    <2>1. PICK i : Goto(w, "fail") \/ Advance(w, [job[w] EXCEPT !.pc = "original", !.id = i])
      BY <1>10 DEF Save
    <2> QED
      BY <1>1, <1>2, <1>4, <2>1 DEF Job
  <1>11. CASE NoteDuplicate(w) \/ LinkDuplicate(w) \/ SaveOriginal(w) \/ QueueDigest(w)
              \/ DeadLetter(w)
    BY <1>3, <1>4, <1>11 DEF NoteDuplicate, LinkDuplicate, SaveOriginal, QueueDigest, DeadLetter,
       Return
  <1>12. CASE LlmUnavailable(w)
    <2>1. PICK k : Goto(w, "fail")
                   \/ Advance(w, [job[w] EXCEPT !.pc = "gate", !.attempt = k])
      BY <1>12 DEF LlmUnavailable
    <2> QED
      BY <1>1, <1>2, <1>4, <2>1 DEF Job
  <1>13. CASE Raise(w) \/ DeadLetterFails(w) \/ Crash(w)
    BY <1>3, <1>4, <1>13 DEF Raise, DeadLetterFails, Crash
  <1>14. CASE Begin(w)
    <2>1. \/ \E d, source : Advance(w, [IdleJob EXCEPT !.pc = "gate", !.doc = d,
                                                       !.source = source, !.attempt = 1])
          \/ \E e : Advance(w, [IdleJob EXCEPT !.pc = "retry", !.doc = dead[e],
                                               !.source = "retry", !.id = e])
      BY <1>14 DEF Begin, Submit, StartRetry
    <2> QED
      BY <1>2, <2>1 DEF IdleJob
  <1> QED
    BY <1>5, <1>6, <1>7, <1>8, <1>9, <1>10, <1>11, <1>12, <1>13, <1>14 DEF WorkerStep, FaultStep

\* Over any step: a worker at the save was there before, or has just composed its row.
LEMMA SaveEffects ==
    ASSUME TypeInv, [Next]_vars, NEW w \in Workers, job'[w].pc = "save"
    PROVE  \/ job'[w] = job[w]
           \/ job'[w].doc = job[w].doc /\ Composes(w, job'[w].row)
  <1>1. job \in [Workers -> Job]
    BY DEF TypeInv, TypeOK, WorkerType
  <1>2. ASSUME NEW v \in Workers, WorkerStep(v) \/ FaultStep(v) \/ Begin(v)
        PROVE  \/ job'[w] = job[w]
               \/ job'[w].doc = job[w].doc /\ Composes(w, job'[w].row)
    <2>1. CASE v = w
      BY <1>2, <2>1, SaveIsPrepared
    <2>2. CASE v # w
      <3>1. PICK j : job' = [job EXCEPT ![v] = j]
        BY <1>2, OthersJobs DEF Advance
      <3> QED
        BY <1>1, <2>2, <3>1
    <2> QED
      BY <2>1, <2>2
  <1>3. CASE UserStep
    <2>1. job' = job
      BY <1>3 DEF UserStep, LoadQueue, ReviewAction, DeleteInvoice, StartDelete,
         DeleteStepSupersedes, DeleteStepCredit, DeleteStepRow, DeleteReturns, DeleteStops,
         Dismiss, workerVars
    <2> QED
      BY <2>1
  <1>4. CASE UNCHANGED vars
    BY <1>4 DEF vars, workerVars
  <1> QED
    BY <1>2, <1>3, <1>4 DEF Next, Progress

-----------------------------------------------------------------------------
(* The chain of versions.  VersionChain is not inductive by itself: what a *)
(* row refers to may be deleted, and its id must not come back under       *)
(* another row; and the row about to be saved was composed before.         *)

\* The stored row t is one r may supersede.
Supersedable(r, t) == r.version = t.version + 1 /\ r.vendor = t.vendor

\* The stored row t is one r may credit.
Creditable(r, t) == r.docType = "credit_note" /\ t.docType # "credit_note" /\ r.vendor = t.vendor

\* r refers to rows once generated, and to each in the right way if it is stored.
Above(r, table, ids) ==
    /\ {r.supersedes, r.creditOf} \subseteq ids \cup {None}
    /\ r.supersedes \in DOMAIN table => Supersedable(r, table[r.supersedes])
    /\ r.creditOf \in DOMAIN table => Creditable(r, table[r.creditOf])

ChainInv ==
    /\ \A i \in Stored : Above(rows[i], rows, issued)
    /\ \A w \in Workers : job[w].pc = "save" => Above(job[w].row, rows, issued)
    /\ Backend = "postgres" => \A i \in Stored :
          {rows[i].supersedes, rows[i].creditOf} \subseteq Stored \cup {None}

\* A revision is numbered one above the candidate it replaces, and no other
\* decision replaces one (resolve.py:111-166).
LEMMA DecisionRefs ==
    ASSUME NEW inc, NEW cand, NEW o \in Outcomes(inc, cand)
    PROVE  \/ o.supersedes = None
           \/ /\ o.supersedes \in DOMAIN cand
              /\ o.version = cand[o.supersedes].version + 1
  <1>1. Latest(Pool(inc, cand), cand) \subseteq DOMAIN cand
    BY DEF Matches, ActiveOf, Pool, Latest
  <1>2. CASE o \in RevisionOutcomes(inc, cand)
    <2>1. PICK t \in DOMAIN cand : o = LateRevision(t, cand) \/ o \in Revisions(inc, t, cand)
      BY <1>1, <1>2 DEF RevisionOutcomes
    <2> QED
      BY <2>1 DEF LateRevision, Revisions, Revision, Decision
  <1>3. CASE o \notin RevisionOutcomes(inc, cand)
    <2>1. \/ \E i : o = DuplicateOf(i)
          \/ o = OrphanCredit \/ o = NewOutcome \/ \E ref : o = LinkedCredit(ref)
      BY <1>3 DEF Outcomes
    <2> QED
      BY <2>1 DEF DuplicateOf, OrphanCredit, NewOutcome, LinkedCredit, Decision
  <1> QED
    BY <1>2, <1>3

\* Only a credit note credits a candidate, which is none itself (resolve.py:94-99,
\* 145-147,154-163).
LEMMA DecisionCredits ==
    ASSUME NEW inc, NEW cand, NEW o \in Outcomes(inc, cand)
    PROVE  \/ o.creditOf = None
           \/ /\ inc.docType = "credit_note"
              /\ o.creditOf \in DOMAIN cand /\ cand[o.creditOf].docType # "credit_note"
  <1> DEFINE found(ref) == ref \in DOMAIN cand /\ cand[ref].docType # "credit_note"
  <1>1. \A ref \in FindReferenced(inc, cand) : found(ref)
    BY DEF FindReferenced
  <1>2. \A ref \in CreditTargets(inc, cand) : ref = None \/ found(ref)
    BY <1>1 DEF CreditTargets
  <1>3. CASE o \in RevisionOutcomes(inc, cand)
    <2>1. PICK t : o = LateRevision(t, cand) \/ o \in Revisions(inc, t, cand)
      BY <1>3 DEF RevisionOutcomes
    <2>2. CASE o = LateRevision(t, cand)
      BY <2>2 DEF LateRevision, Decision
    <2>3. CASE o \in Revisions(inc, t, cand)
      <3>1. PICK ref \in IF inc.docType = "credit_note" THEN CreditTargets(inc, cand) ELSE {None} :
               o = Revision(t, ref, cand)
        BY <2>3 DEF Revisions
      <3>2. o.creditOf = ref
        BY <3>1 DEF Revision, Decision
      <3> QED
        BY <1>2, <3>1, <3>2
    <2> QED
      BY <2>1, <2>2, <2>3
  <1>4. CASE o \notin RevisionOutcomes(inc, cand)
    <2>1. \/ \E i : o = DuplicateOf(i)
          \/ o = OrphanCredit \/ o = NewOutcome
          \/ inc.docType = "credit_note" /\ \E ref \in FindReferenced(inc, cand) : o = LinkedCredit(ref)
      BY <1>4 DEF Outcomes
    <2> QED
      BY <1>1, <2>1 DEF DuplicateOf, OrphanCredit, NewOutcome, LinkedCredit, Decision
  <1> QED
    BY <1>3, <1>4

LEMMA ComposedAbove ==
    ASSUME TypeInv, NEW w, NEW r, Composes(w, r)
    PROVE  Above(r, rows, issued)
  <1>1. /\ rows \in [Stored -> Row] /\ Stored \subseteq Ids /\ Stored \subseteq issued
        /\ None \notin Stored
    BY ResolveAssumption DEF TypeInv, TypeOK, StoreType
  <1>2. CASE r = JunkRow(job[w].doc)
    BY <1>1, <1>2 DEF JunkRow, Above, Stored
  <1>3. CASE Decides(w, r)
    <2> DEFINE inc == job[w].read
               cand == Candidates(inc.vendor)
    <2>1. PICK o \in Outcomes(inc, cand), fxOk \in BOOLEAN :
             r = RowOf(job[w].doc, inc, o, fxOk)
      BY <1>3 DEF Decides
    <2>2. /\ r.supersedes = o.supersedes /\ r.version = o.version /\ r.vendor = inc.vendor
          /\ r.creditOf = o.creditOf /\ r.docType = inc.docType
      BY <2>1 DEF RowOf
    <2>3. \/ o.supersedes = None
          \/ o.supersedes \in DOMAIN cand /\ o.version = cand[o.supersedes].version + 1
      BY DecisionRefs
    <2>4. \A i \in DOMAIN cand : i \in Stored /\ cand[i] = rows[i] /\ rows[i].vendor = inc.vendor
      BY DEF Candidates
    <2>5. \/ o.creditOf = None
          \/ /\ inc.docType = "credit_note"
             /\ o.creditOf \in DOMAIN cand /\ cand[o.creditOf].docType # "credit_note"
      BY DecisionCredits
    <2> HIDE DEF cand, inc
    <2>6. ASSUME r.supersedes # None
          PROVE  r.supersedes \in Stored /\ Supersedable(r, rows[r.supersedes])
      <3>1. /\ r.supersedes \in DOMAIN cand
            /\ r.version = cand[r.supersedes].version + 1
        BY <2>2, <2>3, <2>6
      <3>2. /\ r.supersedes \in Stored /\ cand[r.supersedes] = rows[r.supersedes]
            /\ rows[r.supersedes].vendor = inc.vendor
        BY <2>4, <3>1
      <3> QED
        BY <2>2, <3>1, <3>2 DEF Supersedable
    <2>7. ASSUME r.creditOf # None
          PROVE  r.creditOf \in Stored /\ Creditable(r, rows[r.creditOf])
      <3>1. /\ r.creditOf \in DOMAIN cand /\ r.docType = "credit_note"
            /\ cand[r.creditOf].docType # "credit_note"
        BY <2>2, <2>5, <2>7
      <3>2. /\ r.creditOf \in Stored /\ cand[r.creditOf] = rows[r.creditOf]
            /\ rows[r.creditOf].vendor = inc.vendor
        BY <2>4, <3>1
      <3> QED
        BY <2>2, <3>1, <3>2 DEF Creditable
    <2> QED
      BY <1>1, <2>6, <2>7 DEF Above, Stored
  <1> QED
    BY <1>2, <1>3 DEF Composes

\* What is above its predecessor stays so while rows are only kept ...
LEMMA KeptAbove ==
    ASSUME RowsKept, NEW r, Above(r, rows, issued)
    PROVE  Above(r, rows', issued')
  BY DEF RowsKept, Above, Supersedable, Creditable, SameVersionOf, Stored

\* ... and when one is added, because its id is new.
LEMMA InsertAbove ==
    ASSUME TypeInv, NEW w \in Workers, Inserts(w, NewId), NEW r, Above(r, rows, issued)
    PROVE  Above(r, rows', issued')
  <1>1. rows \in [Stored -> Row] /\ NewId \in Ids /\ None \notin Ids
    BY ResolveAssumption DEF TypeInv, TypeOK, StoreType, Inserts
  <1>2. r.supersedes # NewId /\ r.creditOf # NewId
    BY <1>1 DEF Above, Inserts, Stored
  <1>3. \A i \in Stored : /\ rows'[i].version = rows[i].version /\ rows'[i].vendor = rows[i].vendor
                          /\ rows'[i].docType = rows[i].docType
    BY <1>1 DEF Inserts, Superseded, Row
  <1> QED
    BY <1>2, <1>3 DEF Above, Supersedable, Creditable, Inserts, Stored

LEMMA StepKeepsChain ==
    TypeInv /\ ChainInv /\ [Next]_vars => ChainInv'
  <1> SUFFICES ASSUME TypeInv, ChainInv, [Next]_vars PROVE ChainInv'
    OBVIOUS
  <1>1. /\ rows \in [Stored -> Row] /\ Stored \subseteq Ids /\ None \notin Ids
    BY ResolveAssumption DEF TypeInv, TypeOK, StoreType
  <1>2. ASSUME NEW w \in Workers, job'[w].pc = "save"
        PROVE  Above(job'[w].row, rows, issued)
    BY <1>2, SaveEffects, ComposedAbove DEF ChainInv
  <1>3. CASE RowsKept
    <2>1. ASSUME NEW i \in Stored'
          PROVE  Above(rows'[i], rows', issued')
      <3>1. Above(rows[i], rows', issued')
        BY <1>3, KeptAbove DEF ChainInv, RowsKept
      <3>2. SameVersionOf(rows'[i], rows[i]) /\ None \notin Stored'
        BY <1>1, <1>3 DEF RowsKept
      <3> QED
        BY <3>1, <3>2 DEF Above, Supersedable, Creditable, SameVersionOf, Stored
    <2>2. ASSUME NEW w \in Workers, job'[w].pc = "save"
          PROVE  Above(job'[w].row, rows', issued')
      BY <1>2, <1>3, <2>2, KeptAbove
    <2>3. ASSUME Backend = "postgres", NEW i \in Stored'
          PROVE  {rows'[i].supersedes, rows'[i].creditOf} \subseteq Stored' \cup {None}
      <3>1. /\ i \in Stored /\ rows'[i].supersedes \in {rows[i].supersedes, None}
            /\ rows'[i].creditOf \in {rows[i].creditOf, None}
        BY <1>3 DEF RowsKept, SameVersionOf
      <3>2. {rows[i].supersedes, rows[i].creditOf} \subseteq Stored \cup {None}
        BY <2>3, <3>1 DEF ChainInv
      <3>3. \A j \in Stored \ Stored' : j \notin {rows[i].supersedes, rows[i].creditOf}
        BY <1>3, <2>3, <3>1 DEF RowsKept, Unreferenced
      <3> QED
        BY <3>1, <3>2, <3>3
    <2> QED
      BY <2>1, <2>2, <2>3 DEF ChainInv
  <1>4. ASSUME NEW v \in Workers, Inserts(v, NewId)
        PROVE  ChainInv'
    <2>1. Above(job[v].row, rows, issued)
      BY <1>4 DEF ChainInv, Inserts, Save
    <2>2. ASSUME NEW i \in Stored'
          PROVE  Above(rows'[i], rows', issued')
      <3>1. CASE i = NewId
        BY <1>4, <2>1, <3>1, InsertAbove DEF Inserts
      <3>2. CASE i \in Stored
        <4>1. Above(rows[i], rows', issued')
          BY <1>4, <3>2, InsertAbove DEF ChainInv
        <4>2. /\ SameVersionOf(rows'[i], rows[i]) /\ rows'[i].supersedes = rows[i].supersedes
              /\ rows'[i].creditOf = rows[i].creditOf
          BY <1>1, <1>4, <3>2 DEF Inserts, SameVersionOf, Superseded, Row
        <4> QED
          BY <4>1, <4>2 DEF Above, Supersedable, Creditable, SameVersionOf, Stored
      <3> QED
        BY <1>4, <2>2, <3>1, <3>2 DEF Inserts
    <2>3. ASSUME NEW w \in Workers, job'[w].pc = "save"
          PROVE  Above(job'[w].row, rows', issued')
      BY <1>2, <1>4, <2>3, InsertAbove
    <2>4. ASSUME Backend = "postgres", NEW i \in Stored'
          PROVE  {rows'[i].supersedes, rows'[i].creditOf} \subseteq Stored' \cup {None}
      <3>1. {job[v].row.supersedes, job[v].row.creditOf} \subseteq Stored \cup {None}
        BY <1>4, <2>4 DEF Inserts, Insertable
      <3>2. \A j \in Stored : /\ rows'[j].supersedes = rows[j].supersedes
                              /\ rows'[j].creditOf = rows[j].creditOf
        BY <1>1, <1>4 DEF Inserts, Superseded, Row
      <3> QED
        BY <1>4, <2>4, <3>1, <3>2 DEF ChainInv, Inserts
    <2> QED
      BY <2>2, <2>3, <2>4 DEF ChainInv
  <1> QED
    BY <1>3, <1>4, RowEffects

\* A stored revision is one version above the stored row it supersedes, a stored
\* credit note credits a row that is none, each of the same vendor, however saves,
\* reviews, crashes and deletes (in three transactions on Postgres) interleave, and on
\* Postgres neither reference dangles (resolve.py:94-166, schema.sql:45-46).
THEOREM VersionsChain == Spec => []VersionChain
  <1>1. Init => ChainInv
    BY DEF Init, StoreInit, WorkerInit, IdleJob, ChainInv, Stored
  <1>2. ChainInv => VersionChain
    BY DEF ChainInv, Above, Supersedable, Creditable, VersionChain, Stored
  <1> QED
    BY <1>1, <1>2, InitTypes, StepTypes, StepKeepsChain, PTL DEF Spec

-----------------------------------------------------------------------------
(* The latest version counts.  LatestWins is not inductive by itself: what *)
(* resolve() compares a document with is the row of the highest version,   *)
(* so that row must also be the one of the latest date, and the active row *)
(* of the number, when it has one, must be such a row.                     *)

\* Rows with this key come from decisions that could compare dates.
Orderly(key) == key[2] # None /\ key \notin contested /\ ~HasUndated(key)

\* Row t has the highest version and the latest date of its key.
OnTop(t) ==
    \A j \in Stored : Key(rows[j]) = Key(rows[t]) =>
        rows[j].version <= rows[t].version /\ rows[j].date <= rows[t].date

LatestOnTop ==
    deletes = 0 =>
    /\ deleting.pc = "idle"
    /\ \A i \in Stored : Orderly(Key(rows[i])) =>
          /\ \E t \in Stored : Key(rows[t]) = Key(rows[i]) /\ OnTop(t)
          /\ rows[i].status # "superseded" => OnTop(i)

LEMMA TopWins == TypeInv /\ LatestOnTop => LatestWins
  BY DEF LatestOnTop, LatestWins, Orderly, OnTop, Key

\* A step that leaves key, version and date of every row alone, and reopens a
\* superseded row only of a contested key.
LEMMA KeepsOnTop ==
    ASSUME LatestOnTop, deletes' = 0 => deletes = 0 /\ deleting'.pc = "idle",
           deletes' = 0 => Stored' = Stored, contested \subseteq contested',
           \A i \in Stored' : /\ SameVersionOf(rows'[i], rows[i])
                              /\ \/ rows'[i].status # "superseded" => rows[i].status # "superseded"
                                 \/ Key(rows[i]) \in contested'
    PROVE  LatestOnTop'
  <1> SUFFICES ASSUME deletes' = 0 PROVE LatestOnTop'
    BY DEF LatestOnTop
  <1>1. Stored' = Stored /\ deletes = 0
    OBVIOUS
  <1>2. \A i \in Stored : /\ Key(rows'[i]) = Key(rows[i])
                          /\ rows'[i].date = rows[i].date /\ rows'[i].version = rows[i].version
    BY <1>1 DEF SameVersionOf, Key
  <1>3. \A i \in Stored : /\ HasUndated(Key(rows[i])) => HasUndated(Key(rows[i]))'
                          /\ Key(rows[i])' = Key(rows[i])
    BY <1>1, <1>2 DEF HasUndated, Key
  <1>4. \A i \in Stored : Orderly(Key(rows[i]))' => /\ Orderly(Key(rows[i]))
                                                   /\ Key(rows[i]) \notin contested'
    BY <1>3 DEF Orderly
  <1>5. \A t \in Stored : OnTop(t) => OnTop(t)'
    BY <1>1, <1>2 DEF OnTop
  <1>6. ASSUME NEW i \in Stored, Orderly(Key(rows[i]))'
        PROVE  /\ \E t \in Stored : Key(rows'[t]) = Key(rows'[i]) /\ OnTop(t)'
               /\ rows'[i].status # "superseded" => OnTop(i)'
    <2>1. Orderly(Key(rows[i])) /\ Key(rows[i]) \notin contested'
      BY <1>4, <1>6
    <2>2. \E t \in Stored : Key(rows[t]) = Key(rows[i]) /\ OnTop(t)
      BY <1>1, <2>1 DEF LatestOnTop
    <2>3. rows'[i].status # "superseded" => OnTop(i)
      BY <1>1, <2>1 DEF LatestOnTop
    <2> QED
      BY <1>2, <1>5, <2>2, <2>3
  <1> QED
    BY <1>1, <1>6 DEF LatestOnTop

LEMMA UnchangedOnTop ==
    ASSUME TypeInv, LatestOnTop, UNCHANGED <<rows, contested, deletes, deleting>>
    PROVE  LatestOnTop'
  <1>1. rows \in [Stored -> Row]
    BY DEF TypeInv, TypeOK, StoreType
  <1>2. deletes' = 0 => deletes = 0 /\ deleting'.pc = "idle"
    BY DEF LatestOnTop
  <1>3. \A i \in Stored' : SameVersionOf(rows'[i], rows[i])
    BY <1>1, SameVersions DEF Stored
  <1> QED
    BY <1>2, <1>3, KeepsOnTop DEF Stored

\* The candidates that match a numbered document are the rows of its key
\* (resolve.py:78-83).
LEMMA MatchesAreOfTheKey ==
    ASSUME NEW inc, NormNum(inc.number) # None
    PROVE  Matches(inc, Candidates(inc.vendor)) = {j \in Stored : Key(rows[j]) = Key(inc)}
  <1> DEFINE cand == Candidates(inc.vendor)
  <1>1. /\ DOMAIN cand = {j \in Stored : rows[j].vendor = inc.vendor}
        /\ \A j \in DOMAIN cand : cand[j] = rows[j]
    BY DEF Candidates
  <1>2. inc.number # None /\ inc.number # Blank
    BY DEF NormNum
  <1>3. ASSUME NEW j \in DOMAIN cand, LogicalMatch(inc, cand[j])
        PROVE  Key(rows[j]) = Key(inc)
    BY <1>1, <1>2, <1>3 DEF LogicalMatch, Key
  <1>4. ASSUME NEW j \in Stored, Key(rows[j]) = Key(inc)
        PROVE  j \in DOMAIN cand /\ LogicalMatch(inc, cand[j])
    <2>1. rows[j].vendor = inc.vendor /\ NormNum(rows[j].number) = NormNum(inc.number)
      BY <1>4 DEF Key
    <2>2. rows[j].number # None /\ rows[j].number # Blank
      BY <2>1 DEF NormNum
    <2> QED
      BY <1>1, <1>2, <2>1, <2>2 DEF LogicalMatch
  <1> QED
    BY <1>1, <1>3, <1>4 DEF Matches

\* The rows of a key that has only dated rows have dates and versions to compare.
LEMMA Comparable ==
    ASSUME TypeInv, NEW j \in Stored, ~HasUndated(Key(rows[j]))
    PROVE  rows[j].version \in Int /\ rows[j].date \in Nat
  BY DEF TypeInv, TypeOK, StoreType, Row, OptDate, HasUndated

\* The row a document is compared with is one on top of its key (resolve.py:134-136).
LEMMA LatestIsOnTop ==
    ASSUME TypeInv, LatestOnTop, deletes = 0, NEW inc \in Reading, Orderly(Key(inc)),
           NEW t \in Latest(Pool(inc, Candidates(inc.vendor)), Candidates(inc.vendor))
    PROVE  t \in Stored /\ Key(rows[t]) = Key(inc) /\ OnTop(t)
  <1> DEFINE cand == Candidates(inc.vendor)
             ofKey == {j \in Stored : Key(rows[j]) = Key(inc)}
  <1>1. NormNum(inc.number) # None
    BY DEF Orderly, Key
  <1>2. Matches(inc, cand) = ofKey
    BY <1>1, MatchesAreOfTheKey
  <1>3. \A j \in ofKey : cand[j] = rows[j]
    BY DEF Candidates, Key
  <1>4. t \in ofKey
    BY <1>2 DEF Latest, Pool, ActiveOf
  <1>5. Orderly(Key(rows[t]))
    BY <1>4
  <1>6. CASE ActiveOf(ofKey, cand) # {}
    <2>1. rows[t].status # "superseded"
      BY <1>2, <1>3, <1>6 DEF Latest, Pool, ActiveOf
    <2> QED
      BY <1>4, <1>5, <2>1 DEF LatestOnTop
  <1>7. CASE ActiveOf(ofKey, cand) = {}
    <2>1. PICK u \in Stored : Key(rows[u]) = Key(rows[t]) /\ OnTop(u)
      BY <1>4, <1>5 DEF LatestOnTop
    <2>2. u \in ofKey
      BY <1>4, <2>1
    <2>3. \/ rows[u].version < rows[t].version
          \/ /\ rows[u].version = rows[t].version
             /\ DateKey(rows[u].date) <= DateKey(rows[t].date)
      BY <1>2, <1>3, <1>4, <1>7, <2>2 DEF Latest, Pool
    <2>4. /\ rows[u].version \in Int /\ rows[u].date \in Nat
          /\ rows[t].version \in Int /\ rows[t].date \in Nat
      BY <1>4, <1>5, <2>1, Comparable DEF Orderly
    <2>5. rows[t].version <= rows[u].version
      BY <1>4, <2>1 DEF OnTop
    <2>6. rows[u].version = rows[t].version /\ rows[u].date <= rows[t].date
      <3>1. rows[u].date # None /\ rows[t].date # None
        BY <2>4, ResolveAssumption
      <3> QED
        BY <2>3, <2>4, <2>5, <3>1 DEF DateKey
    <2>7. ASSUME NEW j \in Stored, Key(rows[j]) = Key(rows[t])
          PROVE  rows[j].version <= rows[t].version /\ rows[j].date <= rows[t].date
      <3>1. rows[j].version <= rows[u].version /\ rows[j].date <= rows[u].date
        BY <2>1, <2>7 DEF OnTop
      <3>2. rows[j].version \in Int /\ rows[j].date \in Nat
        BY <1>5, <2>7, Comparable DEF Orderly
      <3> QED
        BY <2>4, <2>6, <3>1, <3>2
    <2> QED
      BY <1>4, <2>7 DEF OnTop
  <1> QED
    BY <1>4, <1>6, <1>7

\* A decision that stores inc puts it on top of its key, or stores it as superseded
\* below a row that is (R3, resolve.py:136-152).
LEMMA DecisionKeepsTop ==
    ASSUME TypeInv, LatestOnTop, deletes = 0, NEW inc \in Reading, Orderly(Key(inc)),
           inc.date # None,
           NEW o \in Outcomes(inc, Candidates(inc.vendor)), o.branch # "logical_duplicate"
    PROVE  \/ /\ o.hint # "superseded"
              /\ \A j \in Stored : Key(rows[j]) = Key(inc) =>
                    rows[j].version <= o.version /\ rows[j].date <= inc.date
           \/ /\ o.hint = "superseded"
              /\ \E t \in Stored : /\ Key(rows[t]) = Key(inc) /\ OnTop(t)
                                   /\ o.version <= rows[t].version
                                   /\ inc.date <= rows[t].date
  <1> DEFINE cand == Candidates(inc.vendor)
  <1>1. NormNum(inc.number) # None
    BY DEF Orderly, Key
  <1>2. Matches(inc, cand) = {j \in Stored : Key(rows[j]) = Key(inc)}
    BY <1>1, MatchesAreOfTheKey
  <1>3. \A i : o # DuplicateOf(i)
    BY DEF DuplicateOf, Decision
  <1>4. CASE Pool(inc, cand) = {}
    <2>1. \A j \in Stored : Key(rows[j]) # Key(inc)
      BY <1>2, <1>4 DEF Pool, ActiveOf
    <2>2. o = OrphanCredit \/ o = NewOutcome \/ \E ref : o = LinkedCredit(ref)
      BY <1>3, <1>4 DEF Outcomes
    <2>3. o.hint # "superseded"
      BY <2>2, ResolveAssumption DEF OrphanCredit, NewOutcome, LinkedCredit, Decision, Statuses
    <2> QED
      BY <2>1, <2>3
  <1>5. CASE Pool(inc, cand) # {}
    <2>1. PICK t \in Latest(Pool(inc, cand), cand) :
             IF Earlier(inc.date, cand[t].date) THEN o = LateRevision(t, cand)
             ELSE o \in Revisions(inc, t, cand)
      BY <1>3, <1>5 DEF Outcomes, RevisionOutcomes
    <2>2. t \in Stored /\ Key(rows[t]) = Key(inc) /\ OnTop(t)
      BY LatestIsOnTop
    <2>3. cand[t] = rows[t]
      BY <2>2 DEF Candidates, Key
    <2>4. /\ rows[t].version \in Int /\ rows[t].date \in Nat /\ rows[t].date # None
          /\ inc.date \in Nat
      BY <2>2, Comparable, ResolveAssumption DEF Orderly, Reading, OptDate
    <2>5. CASE Earlier(inc.date, rows[t].date)
      <3>1. o = LateRevision(t, cand)
        BY <2>1, <2>3, <2>5
      <3>2. o.hint = "superseded" /\ o.version = rows[t].version
        BY <2>3, <3>1 DEF LateRevision, Decision
      <3>3. inc.date <= rows[t].date
        BY <2>4, <2>5 DEF Earlier
      <3> QED
        BY <2>2, <2>4, <3>2, <3>3
    <2>6. CASE ~Earlier(inc.date, rows[t].date)
      <3>1. o \in Revisions(inc, t, cand)
        BY <2>1, <2>3, <2>6
      <3>2. o.hint # "superseded" /\ o.version = rows[t].version + 1
        BY <2>3, <3>1, ResolveAssumption DEF Revisions, Revision, Decision, Statuses
      <3>3. rows[t].date <= inc.date
        BY <2>4, <2>6 DEF Earlier
      <3>4. ASSUME NEW j \in Stored, Key(rows[j]) = Key(inc)
            PROVE  rows[j].version <= o.version /\ rows[j].date <= inc.date
        <4>1. rows[j].version \in Int /\ rows[j].date \in Nat
          BY <3>4, Comparable DEF Orderly
        <4>2. rows[j].version <= rows[t].version /\ rows[j].date <= rows[t].date
          BY <2>2, <3>4 DEF OnTop
        <4> QED
          BY <2>4, <3>2, <3>3, <4>1, <4>2
      <3> QED
        BY <3>2, <3>4
    <2> QED
      BY <2>5, <2>6
  <1> QED
    BY <1>4, <1>5

LEMMA SaveKeepsOnTop ==
    ASSUME TypeInv, OneActivePerKey, LatestOnTop, NEW w \in Workers, NEW n, Inserts(w, n),
           deletes = 0, deletes' = 0, deleting' = deleting,
           contested' = IF job[w].read = None \/ Current(w) THEN contested
                        ELSE contested \cup {Key(job[w].row)}
    PROVE  LatestOnTop'
  <1> DEFINE r == job[w].row
             k == Key(r)
             inc == job[w].read
  <1>1. /\ rows \in [Stored -> Row] /\ n \notin Stored /\ Stored' = Stored \cup {n}
        /\ rows'[n] = r /\ contested \subseteq contested'
        /\ job[w] \in Job /\ r \in Row /\ (inc = None => r = JunkRow(job[w].doc))
    BY DEF TypeInv, TypeOK, StoreType, WorkerType, JobsOK, Consistent, Inserts, Save
  <1>2. \A i \in Stored :
           /\ Key(rows'[i]) = Key(rows[i]) /\ rows'[i].number = rows[i].number
           /\ rows'[i].date = rows[i].date /\ rows'[i].version = rows[i].version
           /\ rows'[i].status # "superseded" =>
                 rows[i].status # "superseded" /\ i # r.supersedes
    BY <1>1 DEF Inserts, Superseded, Row, Key
  <1>3. \A i \in Stored : /\ Key(rows[i])' = Key(rows[i])
                          /\ Orderly(Key(rows[i]))' => Orderly(Key(rows[i]))
    <2>1. \A i \in Stored : HasUndated(Key(rows[i])) => HasUndated(Key(rows[i]))'
      BY <1>1, <1>2 DEF HasUndated, Key
    <2>2. \A i \in Stored : Key(rows[i])' = Key(rows[i])
      BY <1>2 DEF Key
    <2> QED
      BY <1>1, <2>1, <2>2 DEF Orderly
  \* Where the new row falls, if its key is orderly afterwards.
  <1>4. ASSUME k[2] # None, k \notin contested', ~HasUndated(k), r.date # None
        PROVE  /\ \/ /\ r.status = "superseded"
                     /\ \E t \in Stored : /\ Key(rows[t]) = k /\ OnTop(t)
                                          /\ r.version <= rows[t].version /\ r.date <= rows[t].date
                  \/ /\ \A j \in Stored : Key(rows[j]) = k =>
                           rows[j].version <= r.version /\ rows[j].date <= r.date
                     /\ \A j \in Stored : Key(rows[j]) = k => rows'[j].status = "superseded"
    <2>1. NormNum(r.number) # None
      BY <1>4 DEF Key
    <2>2. inc # None
      BY <1>1, <2>1 DEF JunkRow, NormNum
    <2>3. inc \in Reading
      BY <1>1, <2>2 DEF Job
    <2>4. Current(w)
      BY <1>4, <2>2
    <2>5. PICK o \in Outcomes(inc, Candidates(inc.vendor)), fxOk \in BOOLEAN :
             /\ o.branch # "logical_duplicate"
             /\ r = RowOf(job[w].doc, inc, o, fxOk)
             /\ o.hint = "superseded" => r.status = "superseded"
      BY <2>4 DEF Current
    <2>6. /\ r.number = inc.number /\ r.vendor = inc.vendor /\ r.date = inc.date
          /\ r.version = o.version /\ r.supersedes = o.supersedes
      BY <2>5 DEF RowOf
    <2>7. k = Key(inc)
      BY <2>6 DEF Key
    <2>8. Orderly(Key(inc))
      BY <1>1, <1>4, <2>7 DEF Orderly
    <2>9. CASE /\ o.hint # "superseded"
               /\ \A j \in Stored : Key(rows[j]) = Key(inc) =>
                     rows[j].version <= o.version /\ rows[j].date <= inc.date
      <3>1. ASSUME NEW j \in Stored, Key(rows[j]) = k
            PROVE  rows'[j].status = "superseded"
        <4>1. SUFFICES ASSUME rows'[j].status # "superseded" PROVE FALSE
          OBVIOUS
        <4>2. rows[j].status # "superseded" /\ j # r.supersedes
          BY <1>2, <4>1
        <4>3. NormNum(rows[j].number) # None /\ NormNum(inc.number) # None
          BY <2>1, <2>6, <3>1 DEF Key
        <4>4. Key(inc) \notin contested /\ Key(rows[j]) = Key(inc)
          BY <2>7, <2>8, <3>1 DEF Orderly
        <4> HIDE DEF k, inc, r
        <4>5. o.supersedes = j
          BY <2>3, <2>5, <2>9, <4>2, <4>3, <4>4, ReplacesTheActiveRow
        <4> QED
          BY <2>6, <4>2, <4>5
      <3> QED
        BY <2>6, <2>7, <2>9, <3>1
    <2>10. CASE /\ o.hint = "superseded"
                /\ \E t \in Stored : /\ Key(rows[t]) = Key(inc) /\ OnTop(t)
                                     /\ o.version <= rows[t].version
                                     /\ inc.date <= rows[t].date
      BY <2>5, <2>6, <2>7, <2>10
    <2> QED
      BY <1>4, <2>3, <2>5, <2>6, <2>8, <2>9, <2>10, DecisionKeepsTop
  <1>5. ASSUME NEW t \in Stored, OnTop(t),
               k = Key(rows[t]) => r.version <= rows[t].version /\ r.date <= rows[t].date
        PROVE  OnTop(t)'
    <2> SUFFICES ASSUME NEW j \in Stored', Key(rows'[j]) = Key(rows'[t])
                 PROVE  rows'[j].version <= rows'[t].version /\ rows'[j].date <= rows'[t].date
      BY DEF OnTop, Key
    <2>1. CASE j \in Stored
      BY <1>2, <1>5, <2>1 DEF OnTop
    <2>2. CASE j = n
      BY <1>1, <1>2, <1>5, <2>2
    <2> QED
      BY <1>1, <2>1, <2>2
  <1>6. ASSUME NEW i \in Stored', Orderly(Key(rows[i]))'
        PROVE  /\ \E t \in Stored' : Key(rows'[t]) = Key(rows'[i]) /\ OnTop(t)'
               /\ rows'[i].status # "superseded" => OnTop(i)'
    <2>1. Key(rows[i])' = Key(rows'[i])
      BY DEF Key
    <2>2. CASE Key(rows'[i]) # k
      <3>1. i \in Stored /\ Orderly(Key(rows[i])) /\ Key(rows[i]) # k
        BY <1>1, <1>2, <1>3, <1>6, <2>2
      <3>2. PICK t \in Stored : Key(rows[t]) = Key(rows[i]) /\ OnTop(t)
        BY <3>1 DEF LatestOnTop
      <3>3. OnTop(t)' /\ (OnTop(i) => OnTop(i)')
        BY <1>5, <3>1, <3>2
      <3>4. rows'[i].status # "superseded" => OnTop(i)
        BY <1>2, <3>1 DEF LatestOnTop
      <3> QED
        BY <1>1, <1>2, <3>1, <3>2, <3>3, <3>4
    <2>3. CASE Key(rows'[i]) = k
      <3>1. k[2] # None /\ k \notin contested' /\ ~HasUndated(k) /\ r.date # None
        <4>1. k[2] # None /\ k \notin contested' /\ ~\E j \in Stored' : Key(rows'[j]) = k /\ rows'[j].date = None
          BY <1>6, <2>1, <2>3 DEF Orderly, HasUndated, Key
        <4>2. ~HasUndated(k)
          BY <1>1, <1>2, <4>1 DEF HasUndated
        <4> QED
          BY <1>1, <4>1, <4>2
      <3>2. CASE /\ r.status = "superseded"
                 /\ \E t \in Stored : /\ Key(rows[t]) = k /\ OnTop(t)
                                      /\ r.version <= rows[t].version /\ r.date <= rows[t].date
        <4>1. PICK t \in Stored : /\ Key(rows[t]) = k /\ OnTop(t)
                                  /\ r.version <= rows[t].version /\ r.date <= rows[t].date
          BY <3>2
        <4>2. OnTop(t)' /\ Key(rows'[t]) = k
          BY <1>2, <1>5, <4>1
        <4>3. ASSUME rows'[i].status # "superseded"
              PROVE  OnTop(i)'
          <5>1. i \in Stored /\ Key(rows[i]) = k /\ Orderly(Key(rows[i]))
            BY <1>1, <1>2, <1>3, <1>6, <2>3, <3>2, <4>3
          <5>2. OnTop(i)
            BY <1>2, <4>3, <5>1 DEF LatestOnTop
          <5>3. rows[t].version <= rows[i].version /\ rows[t].date <= rows[i].date
            BY <4>1, <5>1, <5>2 DEF OnTop
          <5>4. /\ rows[t].version \in Int /\ rows[i].version \in Int /\ r.version \in Int
                /\ rows[t].date \in Nat /\ rows[i].date \in Nat /\ r.date \in Nat
            BY <1>1, <3>1, <4>1, <5>1, Comparable DEF Row, OptDate
          <5>5. r.version <= rows[i].version /\ r.date <= rows[i].date
            BY <4>1, <5>3, <5>4
          <5> QED
            BY <1>5, <5>1, <5>2, <5>5
        <4> QED
          BY <1>1, <2>3, <4>2, <4>3
      <3>3. CASE /\ \A j \in Stored : Key(rows[j]) = k =>
                       rows[j].version <= r.version /\ rows[j].date <= r.date
                 /\ \A j \in Stored : Key(rows[j]) = k => rows'[j].status = "superseded"
        <4>1. OnTop(n)'
          <5> SUFFICES ASSUME NEW j \in Stored', Key(rows'[j]) = Key(rows'[n])
                       PROVE  /\ rows'[j].version <= rows'[n].version
                              /\ rows'[j].date <= rows'[n].date
            BY DEF OnTop, Key
          <5>1. CASE j \in Stored
            BY <1>1, <1>2, <3>3, <5>1
          <5>2. CASE j = n
            <6>1. r.version \in Int /\ r.date \in Nat
              BY <1>1, <3>1 DEF Row, OptDate
            <6> QED
              BY <1>1, <5>2, <6>1
          <5> QED
            BY <1>1, <5>1, <5>2
        <4>2. rows'[i].status # "superseded" => i = n
          BY <1>1, <1>2, <2>3, <3>3
        <4> QED
          BY <1>1, <2>3, <4>1, <4>2
      <3> QED
        BY <1>4, <3>1, <3>2, <3>3
    <2> QED
      BY <2>2, <2>3
  <1>7. deleting'.pc = "idle"
    BY DEF LatestOnTop
  <1>8. \A i \in Stored' : Orderly(Key(rows[i]))' =>
           /\ \E t \in Stored' : Key(rows'[t]) = Key(rows'[i]) /\ OnTop(t)'
           /\ rows'[i].status # "superseded" => OnTop(i)'
    BY <1>6
  <1> QED
    BY <1>7, <1>8 DEF LatestOnTop, Key

\* Every step of a deletion is counted, or follows one that was.
LEMMA DeletesCounted ==
    ASSUME deletes \in Nat, deletes = 0 => deleting.pc = "idle",
           \/ \E i \in Stored : DeleteInvoice(i) \/ StartDelete(i)
           \/ DeleteStepSupersedes \/ DeleteStepCredit \/ DeleteStepRow
           \/ DeleteReturns \/ DeleteStops
    PROVE  deletes' # 0
  <1>1. \/ deletes' = deletes + 1
        \/ deletes' = deletes /\ deleting.pc # "idle"
    <2>1. CASE \E i \in Stored : DeleteInvoice(i) \/ StartDelete(i)
      BY <2>1 DEF DeleteInvoice, StartDelete
    <2>2. CASE DeleteStepSupersedes \/ DeleteStepCredit
      BY <2>2 DEF DeleteStepSupersedes, DeleteStepCredit
    <2>3. CASE DeleteStepRow \/ DeleteReturns \/ DeleteStops
      BY <2>3 DEF DeleteStepRow, DeleteReturns, DeleteStops
    <2> QED
      BY <2>1, <2>2, <2>3
  <1> QED
    BY <1>1

LEMMA UserKeepsOnTop ==
    ASSUME TypeInv, LatestOnTop, UserStep
    PROVE  LatestOnTop'
  <1>1. /\ rows \in [Stored -> Row] /\ deletes \in Nat /\ (deletes = 0 => deleting.pc = "idle")
    BY DEF TypeInv, TypeOK, StoreType, LatestOnTop
  <1>2. CASE LoadQueue \/ \E e \in Entries : Dismiss(e)
    <2>1. UNCHANGED <<rows, contested, deletes, deleting>>
      BY <1>2 DEF LoadQueue, Dismiss, storeVars, workerVars
    <2> QED
      BY <2>1, UnchangedOnTop
  <1>3. ASSUME NEW i, NEW status, ReviewAction(i, status)
        PROVE  LatestOnTop'
    <2>1. /\ Stored' = Stored /\ deletes' = deletes /\ deleting' = deleting
          /\ contested \subseteq contested'
          /\ \A j \in Stored : rows'[j] = IF j = i THEN [rows[j] EXCEPT !.status = status]
                                          ELSE rows[j]
      BY <1>1, <1>3 DEF ReviewAction, UpdateStatus, Stored
    <2>2. ASSUME NEW j \in Stored
          PROVE  SameVersionOf(rows'[j], rows[j])
      <3>1. rows[j] \in Row /\ rows'[j] \in {rows[j], [rows[j] EXCEPT !.status = status]}
        BY <1>1, <2>1
      <3> QED
        BY <3>1, SameVersions
    <2>3. rows[i].status = "superseded" => Key(rows[i]) \in contested'
      BY <1>3 DEF ReviewAction
    <2>4. \A j \in Stored : \/ rows'[j].status # "superseded" => rows[j].status # "superseded"
                            \/ Key(rows[j]) \in contested'
      BY <2>1, <2>3
    <2> QED
      BY <1>1, <2>1, <2>2, <2>4, KeepsOnTop
  <1>4. CASE (\E i \in Stored : DeleteInvoice(i) \/ StartDelete(i))
             \/ DeleteStepSupersedes \/ DeleteStepCredit \/ DeleteStepRow
             \/ DeleteReturns \/ DeleteStops
    <2>1. deletes' # 0
      BY <1>1, <1>4, DeletesCounted
    <2> QED
      BY <2>1 DEF LatestOnTop
  <1> QED
    BY <1>2, <1>3, <1>4 DEF UserStep

LEMMA StepKeepsOnTop ==
    TypeInv /\ OneActivePerKey /\ LatestOnTop /\ [Next]_vars => LatestOnTop'
  <1> SUFFICES ASSUME TypeInv, OneActivePerKey, LatestOnTop, [Next]_vars PROVE LatestOnTop'
    OBVIOUS
  <1>1. ASSUME NEW w \in Workers, WorkerStep(w), UNCHANGED userVars
        PROVE  LatestOnTop'
    <2>1. CASE Save(w)
      <3>1. CASE UNCHANGED <<rows, contested>>
        BY <1>1, <3>1, UnchangedOnTop DEF userVars
      <3>2. CASE ~UNCHANGED <<rows, contested>>
        <4>1. PICK n : n = NewId
          OBVIOUS
        <4>2. contested' = IF job[w].read = None \/ Current(w) THEN contested
                           ELSE contested \cup {Key(job[w].row)}
          BY <2>1, <3>2 DEF Save
        <4>3. issued' # issued
          BY <2>1, <3>2, NewIdIsFresh DEF Save, FreshIds
        <4>4. Inserts(w, n)
          BY <2>1, <4>1, <4>3, SaveEffect
        <4>5. deletes' = deletes /\ deleting' = deleting
          BY <1>1 DEF userVars
        <4> QED
          BY <4>2, <4>4, <4>5, SaveKeepsOnTop DEF LatestOnTop
      <3> QED
        BY <3>1, <3>2
    <2>2. CASE ~Save(w)
      <3>1. UNCHANGED <<rows, contested>>
        BY <1>1, <2>2 DEF WorkerStep, ClearEntry, CheckHash, NoteDuplicate, Read, Normalize,
           UpsertVendor, InsertVendor, ResolveDocument, LinkDuplicate, SaveOriginal,
           QueueDigest, DeadLetter, storeVars
      <3> QED
        BY <1>1, <3>1, UnchangedOnTop DEF userVars
    <2> QED
      BY <2>1, <2>2
  <1>2. ASSUME NEW w \in Workers, Begin(w) \/ FaultStep(w), UNCHANGED userVars
        PROVE  LatestOnTop'
    <2>1. UNCHANGED <<rows, contested>>
      BY <1>2 DEF Begin, Submit, StartRetry, FaultStep, LlmUnavailable, Raise,
         DeadLetterFails, Crash, storeVars
    <2> QED
      BY <1>2, <2>1, UnchangedOnTop DEF userVars
  <1>3. CASE UserStep
    BY <1>3, UserKeepsOnTop
  <1>4. CASE UNCHANGED vars
    BY <1>4, UnchangedOnTop DEF vars, storeVars, workerVars, userVars
  <1> QED
    BY <1>1, <1>2, <1>3, <1>4 DEF Next, Progress

\* While nothing is deleted and every row of a number is dated, the row that counts is
\* dated no earlier than any row that was superseded, in whatever order the versions
\* arrive and however receipts without a number retire them (resolve.py:132-152).
THEOREM LatestVersionWins == Spec => []LatestWins
  <1>1. Init => LatestOnTop /\ OneActivePerKey
    BY DEF Init, StoreInit, LatestOnTop, OneActivePerKey, NoDelete, Stored
  <1> QED
    BY <1>1, TopWins, InitTypes, StepTypes, StepKeepsOneActive, StepKeepsOnTop, PTL DEF Spec

-----------------------------------------------------------------------------
(* A superseded row is answered for.  What is on its way to the table must *)
(* not retire anything when it comes late itself, and must find the number *)
(* it was late for still there; no row goes while nothing is deleted.      *)

\* A superseded row with this number is answered for by an active one.
Replaced(key) ==
    \E j \in Stored : /\ rows[j].status # "superseded"
                      /\ \E k \in Ancestors(j) : Key(rows[k]) = key

\* A row to be saved as superseded retires nothing, and its number is in the table.
LateIsHarmless(r) ==
    r.status = "superseded" =>
        /\ r.supersedes = None
        /\ NormNum(r.number) # None => \E t \in Stored : Key(rows[t]) = Key(r)

ReplacedInv ==
    deletes = 0 =>
    /\ deleting.pc = "idle"
    /\ \A w \in Workers : job[w].pc = "save" => LateIsHarmless(job[w].row)
    /\ \A i \in Stored : rows[i].status = "superseded" /\ NormNum(rows[i].number) # None =>
          Replaced(Key(rows[i]))

\* A row is the first of its own ancestors ...
LEMMA OwnAncestor == \A j \in Stored : j \in Ancestors(j)
  BY DEF Ancestors

\* ... followed by those of the row it supersedes.
LEMMA AncestorsOfSuperseded ==
    ASSUME NEW j \in Stored, rows[j].supersedes \in Stored
    PROVE  Ancestors(rows[j].supersedes) \subseteq Ancestors(j)
  BY DEF Ancestors, ClosedBack

\* Every row stays, refers to the same row, and keeps its vendor and number.
ReferencesKept ==
    /\ Stored \subseteq Stored'
    /\ \A i \in Stored : /\ rows'[i].supersedes = rows[i].supersedes
                         /\ Key(rows'[i]) = Key(rows[i])

\* New rows do not take an ancestor from an old one.
LEMMA AncestorsGrow ==
    ASSUME ReferencesKept, NEW j \in Stored
    PROVE  Ancestors(j) \subseteq Ancestors(j)'
  <1> SUFFICES ASSUME NEW k \in Ancestors(j), NEW S \in SUBSET Stored', j \in S, ClosedBack(S)'
               PROVE  k \in S
    BY DEF Ancestors, ReferencesKept
  <1>1. ClosedBack(S \cap Stored)
    BY DEF ClosedBack, ReferencesKept
  <1> QED
    BY <1>1 DEF Ancestors

LEMMA ReplacedStays ==
    ASSUME ReferencesKept, NEW key, NEW j \in Stored, rows'[j].status # "superseded",
           NEW k \in Ancestors(j), Key(rows[k]) = key
    PROVE  Replaced(key)'
  <1>1. k \in Stored /\ k \in Ancestors(j)'
    BY AncestorsGrow DEF Ancestors
  <1> QED
    BY <1>1 DEF Replaced, ReferencesKept, Key

LEMMA HarmlessStays ==
    ASSUME ReferencesKept, NEW r, LateIsHarmless(r)
    PROVE  LateIsHarmless(r)'
  BY DEF LateIsHarmless, ReferencesKept, Key

\* A document that comes late is stored with no reference, and was compared with a row
\* of its number; no other is stored as superseded (pipeline.py:213-229,
\* resolve.py:136-152).
LEMMA ComposedIsHarmless ==
    ASSUME NEW w \in Workers, NEW r, Composes(w, r)
    PROVE  LateIsHarmless(r)
  <1> SUFFICES ASSUME r.status = "superseded" PROVE LateIsHarmless(r)
    BY DEF LateIsHarmless
  <1>1. r # JunkRow(job[w].doc)
    BY DEF JunkRow
  <1> DEFINE inc == job[w].read
             cand == Candidates(inc.vendor)
  <1>2. inc \in Reading /\ Decides(w, r)
    BY <1>1 DEF Composes
  <1>3. PICK o \in Outcomes(inc, cand), fxOk \in BOOLEAN :
            o.branch # "logical_duplicate" /\ r = RowOf(job[w].doc, inc, o, fxOk)
    BY <1>2 DEF Decides
  <1>4. /\ r.status = RowStatus(inc, o, fxOk) /\ r.supersedes = o.supersedes
        /\ r.number = inc.number /\ r.vendor = inc.vendor
    BY <1>3 DEF RowOf
  <1>5. o.hint = "superseded"
    BY <1>2, <1>4 DEF RowStatus, Reading
  <1>6. o \in RevisionOutcomes(inc, cand)
    <2>1. \A i : o # DuplicateOf(i)
      BY <1>3 DEF DuplicateOf, Decision
    <2>2. o # OrphanCredit /\ o # NewOutcome /\ \A ref : o # LinkedCredit(ref)
      BY <1>5, ResolveAssumption DEF OrphanCredit, NewOutcome, LinkedCredit, Decision, Statuses
    <2> QED
      BY <2>1, <2>2 DEF Outcomes
  <1>7. PICK t \in Latest(Pool(inc, cand), cand) :
            o = LateRevision(t, cand) \/ o \in Revisions(inc, t, cand)
    BY <1>6 DEF RevisionOutcomes
  <1>8. o = LateRevision(t, cand)
    BY <1>5, <1>7, ResolveAssumption DEF Revisions, Revision, Decision, Statuses
  <1>9. o.supersedes = None
    BY <1>8 DEF LateRevision, Decision
  <1>10. t \in Matches(inc, cand)
    BY <1>7 DEF Latest, Pool, ActiveOf
  <1>11. NormNum(inc.number) # None => t \in Stored /\ Key(rows[t]) = Key(inc)
    BY <1>10, MatchesAreOfTheKey
  <1> QED
    BY <1>4, <1>9, <1>11 DEF LateIsHarmless, Key

\* Where no row is added, none becomes superseded and nothing is deleted.
LEMMA KeepsReplaced ==
    ASSUME TypeInv, ReplacedInv, [Next]_vars, deletes' = 0 => deletes = 0 /\ deleting'.pc = "idle",
           deletes' = 0 => /\ ReferencesKept /\ Stored' = Stored
                           /\ \A i \in Stored : rows'[i].status = "superseded" =>
                                 rows[i].status = "superseded" /\ rows'[i].number = rows[i].number
    PROVE  ReplacedInv'
  <1> SUFFICES ASSUME deletes' = 0 PROVE ReplacedInv'
    BY DEF ReplacedInv
  <1>1. ASSUME NEW w \in Workers, job'[w].pc = "save", NEW r, r = job'[w].row
        PROVE  LateIsHarmless(r)'
    BY <1>1, SaveEffects, ComposedIsHarmless, HarmlessStays DEF ReplacedInv
  <1>2. ASSUME NEW i \in Stored, rows'[i].status = "superseded", NormNum(rows'[i].number) # None,
               NEW key, key = Key(rows'[i])
        PROVE  Replaced(key)'
    <2>1. rows[i].status = "superseded" /\ rows'[i].number = rows[i].number
      BY <1>2
    <2>2. PICK j \in Stored : /\ rows[j].status # "superseded"
                              /\ \E k \in Ancestors(j) : Key(rows[k]) = Key(rows[i])
      BY <1>2, <2>1 DEF ReplacedInv, Replaced
    <2>3. rows'[j].status # "superseded" /\ Key(rows'[i]) = Key(rows[i])
      BY <2>2 DEF ReferencesKept
    <2>4. PICK k \in Ancestors(j) : Key(rows[k]) = key
      BY <1>2, <2>2, <2>3
    <2> QED
      BY <2>2, <2>3, <2>4, ReplacedStays
  <1> QED
    BY <1>1, <1>2 DEF ReplacedInv, Replaced, LateIsHarmless, Key

LEMMA UnchangedReplaced ==
    ASSUME TypeInv, ReplacedInv, [Next]_vars, UNCHANGED <<rows, deletes, deleting>>
    PROVE  ReplacedInv'
  <1>1. deletes' = 0 => deletes = 0 /\ deleting'.pc = "idle"
    BY DEF ReplacedInv
  <1>2. ReferencesKept /\ Stored' = Stored
    BY DEF ReferencesKept, Stored
  <1> QED
    BY <1>1, <1>2, KeepsReplaced

\* The row that goes in takes the place of the one it supersedes, in every answer.
LEMMA SaveKeepsReplaced ==
    ASSUME TypeInv, ReplacedInv, [Next]_vars, NEW w \in Workers, Inserts(w, NewId),
           deletes' = deletes, deleting' = deleting
    PROVE  ReplacedInv'
  <1> SUFFICES ASSUME deletes = 0 PROVE ReplacedInv'
    BY DEF ReplacedInv
  <1> PICK r, s, n : r = job[w].row /\ s = r.supersedes /\ n = NewId
    OBVIOUS
  <1>1. /\ rows \in [Stored -> Row] /\ n \notin Stored /\ Stored' = Stored \cup {n}
        /\ rows'[n] = r
    BY DEF TypeInv, TypeOK, StoreType, Inserts
  <1>2. \A i \in Stored :
           /\ rows'[i].supersedes = rows[i].supersedes /\ rows'[i].number = rows[i].number
           /\ Key(rows'[i]) = Key(rows[i])
           /\ i # s => rows'[i].status = rows[i].status
    BY <1>1 DEF Inserts, Superseded, Row, Key
  <1>3. ReferencesKept
    BY <1>1, <1>2 DEF ReferencesKept
  <1>4. LateIsHarmless(r)
    BY DEF ReplacedInv, Inserts, Save
  <1>5. ASSUME NEW v \in Workers, job'[v].pc = "save", NEW q, q = job'[v].row
        PROVE  LateIsHarmless(q)'
    BY <1>3, <1>5, SaveEffects, ComposedIsHarmless, HarmlessStays DEF ReplacedInv
  \* The new row answers for all that s answered for.
  <1>6. ASSUME s \in Stored, NEW k \in Ancestors(s), NEW key, key = Key(rows[k])
        PROVE  Replaced(key)'
    <2>1. r.status # "superseded"
      <3>1. None \notin Stored
        BY ResolveAssumption DEF TypeInv, TypeOK, StoreType
      <3> QED
        BY <1>4, <1>6, <3>1 DEF LateIsHarmless
    <2>2. n \in Stored' /\ s \in Stored' /\ rows'[n].supersedes = s /\ rows'[n].status # "superseded"
      BY <1>1, <1>6, <2>1
    <2>3. k \in Stored /\ k \in Ancestors(s)'
      BY <1>3, <1>6, AncestorsGrow DEF Ancestors
    <2>4. k \in Ancestors(n)'
      BY <2>2, <2>3 DEF Ancestors, ClosedBack
    <2> QED
      BY <1>2, <1>6, <2>2, <2>3, <2>4 DEF Replaced, Key
  <1>7. ASSUME NEW key, Replaced(key)
        PROVE  Replaced(key)'
    <2>1. PICK j \in Stored : /\ rows[j].status # "superseded"
                              /\ \E k \in Ancestors(j) : Key(rows[k]) = key
      BY <1>7 DEF Replaced
    <2>2. PICK k \in Ancestors(j) : Key(rows[k]) = key
      BY <2>1
    <2>3. CASE j = s
      BY <1>2, <1>6, <2>2, <2>3
    <2>4. CASE j # s
      BY <1>2, <1>3, <2>1, <2>2, <2>4, ReplacedStays
    <2> QED
      BY <2>3, <2>4
  <1>8. ASSUME NEW i \in Stored', rows'[i].status = "superseded", NormNum(rows'[i].number) # None,
               NEW key, key = Key(rows'[i])
        PROVE  Replaced(key)'
    <2>1. CASE i \in Stored /\ rows[i].status = "superseded"
      <3>1. Replaced(key)
        BY <1>2, <1>8, <2>1 DEF ReplacedInv
      <3> QED
        BY <1>7, <3>1
    <2>2. CASE i \in Stored /\ rows[i].status # "superseded"
      <3>1. i = s /\ i \in Ancestors(i)
        BY <1>2, <1>8, <2>2, OwnAncestor
      <3> QED
        BY <1>2, <1>6, <1>8, <2>2, <3>1
    <2>3. CASE i = n
      <3>1. PICK t \in Stored : Key(rows[t]) = key
        BY <1>1, <1>4, <1>8, <2>3 DEF LateIsHarmless
      <3>2. Replaced(key)
        <4>1. CASE rows[t].status = "superseded"
          <5>1. NormNum(rows[t].number) # None
            BY <1>1, <1>8, <2>3, <3>1 DEF Key
          <5> QED
            BY <3>1, <4>1, <5>1 DEF ReplacedInv
        <4>2. CASE rows[t].status # "superseded"
          BY <3>1, <4>2, OwnAncestor DEF Replaced
        <4> QED
          BY <4>1, <4>2
      <3> QED
        BY <1>7, <3>2
    <2> QED
      BY <1>1, <2>1, <2>2, <2>3
  <1>9. deleting'.pc = "idle"
    BY DEF ReplacedInv
  <1> QED
    BY <1>5, <1>8, <1>9 DEF ReplacedInv, Replaced, LateIsHarmless, Key

LEMMA UserKeepsReplaced ==
    ASSUME TypeInv, ReplacedInv, UserStep
    PROVE  ReplacedInv'
  <1>1. /\ rows \in [Stored -> Row] /\ deletes \in Nat /\ (deletes = 0 => deleting.pc = "idle")
        /\ [Next]_vars
    BY DEF TypeInv, TypeOK, StoreType, ReplacedInv, Next
  <1>2. CASE LoadQueue \/ \E e \in Entries : Dismiss(e)
    <2>1. UNCHANGED <<rows, deletes, deleting>>
      BY <1>2 DEF LoadQueue, Dismiss, storeVars
    <2> QED
      BY <1>1, <2>1, UnchangedReplaced
  <1>3. ASSUME NEW i, NEW status \in {"clean", "failed"}, ReviewAction(i, status)
        PROVE  ReplacedInv'
    <2>1. /\ Stored' = Stored /\ deletes' = deletes /\ deleting' = deleting
          /\ \A j \in Stored : rows'[j] = IF j = i THEN [rows[j] EXCEPT !.status = status]
                                          ELSE rows[j]
      BY <1>1, <1>3 DEF ReviewAction, UpdateStatus, Stored
    <2>2. ASSUME NEW j \in Stored
          PROVE  /\ rows'[j].supersedes = rows[j].supersedes /\ rows'[j].number = rows[j].number
                 /\ Key(rows'[j]) = Key(rows[j])
                 /\ rows'[j].status = "superseded" => rows[j].status = "superseded"
      BY <1>1, <2>1 DEF Row, Key
    <2>3. ReferencesKept
      BY <2>1, <2>2 DEF ReferencesKept
    <2> QED
      BY <1>1, <2>1, <2>2, <2>3, KeepsReplaced
  <1>4. CASE (\E i \in Stored : DeleteInvoice(i) \/ StartDelete(i))
             \/ DeleteStepSupersedes \/ DeleteStepCredit \/ DeleteStepRow
             \/ DeleteReturns \/ DeleteStops
    <2>1. deletes' # 0
      BY <1>1, <1>4, DeletesCounted
    <2> QED
      BY <2>1 DEF ReplacedInv
  <1> QED
    BY <1>2, <1>3, <1>4 DEF UserStep

LEMMA StepKeepsReplaced == TypeInv /\ ReplacedInv /\ [Next]_vars => ReplacedInv'
  <1> SUFFICES ASSUME TypeInv, ReplacedInv, [Next]_vars PROVE ReplacedInv'
    OBVIOUS
  <1>1. ASSUME NEW w \in Workers, WorkerStep(w), UNCHANGED userVars
        PROVE  ReplacedInv'
    <2>1. CASE Save(w)
      <3>1. CASE UNCHANGED <<rows, issued>>
        BY <1>1, <3>1, UnchangedReplaced DEF userVars
      <3>2. CASE Inserts(w, NewId)
        <4>1. deletes' = deletes /\ deleting' = deleting
          BY <1>1 DEF userVars
        <4> QED
          BY <3>2, <4>1, SaveKeepsReplaced
      <3> QED
        BY <2>1, <3>1, <3>2, SaveEffect
    <2>2. CASE ~Save(w)
      <3>1. UNCHANGED rows
        BY <1>1, <2>2 DEF WorkerStep, ClearEntry, CheckHash, NoteDuplicate, Read, Normalize,
           UpsertVendor, InsertVendor, ResolveDocument, LinkDuplicate, SaveOriginal,
           QueueDigest, DeadLetter, storeVars
      <3> QED
        BY <1>1, <3>1, UnchangedReplaced DEF userVars
    <2> QED
      BY <2>1, <2>2
  <1>2. ASSUME NEW w \in Workers, Begin(w) \/ FaultStep(w), UNCHANGED userVars
        PROVE  ReplacedInv'
    <2>1. UNCHANGED rows
      BY <1>2 DEF Begin, Submit, StartRetry, FaultStep, LlmUnavailable, Raise,
         DeadLetterFails, Crash, storeVars
    <2> QED
      BY <1>2, <2>1, UnchangedReplaced DEF userVars
  <1>3. CASE UserStep
    BY <1>3, UserKeepsReplaced
  <1>4. CASE UNCHANGED vars
    BY <1>4, UnchangedReplaced DEF vars, storeVars, userVars
  <1> QED
    BY <1>1, <1>2, <1>3, <1>4 DEF Next, Progress

\* While nothing is deleted, every superseded row that has a number is answered for by
\* one that is not superseded and carries the number, or replaced, directly or not, one
\* that does, on either backend, however uploads, polls, retries, crashes and reviews
\* interleave and whichever stale decisions are saved (resolve.py:78-90,135-152,
\* store.py:413-458).
THEOREM SupersededRowsAreReplaced == Spec => []SupersededIsReplaced
  <1>1. Init => ReplacedInv
    BY DEF Init, StoreInit, WorkerInit, IdleJob, NoDelete, ReplacedInv, Stored
  <1>2. ReplacedInv => SupersededIsReplaced
    BY DEF ReplacedInv, Replaced, SupersededIsReplaced
  <1> QED
    BY <1>1, <1>2, InitTypes, StepTypes, StepKeepsReplaced, PTL DEF Spec

-----------------------------------------------------------------------------
(* A call keeps ids of rows and entries across its steps.  Others may      *)
(* remove what they stand for meanwhile; they never come to stand for      *)
(* another document.                                                       *)

\* What j knows of its document, the tables being table, entries and ids.
Holds(j, table, entries, ids) ==
    /\ j.pc = "save" => j.row.hash = j.doc
    /\ j.pc \in {"duplicate", "original", "finish"} =>
          j.id \in ids /\ (j.id \in DOMAIN table => table[j.id].hash = j.doc)
    /\ j.pc = "retry" =>
          j.id \in ids /\ (j.id \in DOMAIN entries => entries[j.id] = j.doc)

JobsHold == \A w \in Workers : Holds(job[w], rows, dead, issued)

\* No id changes the document it stands for.
IdsKept ==
    /\ issued \subseteq issued'
    /\ \A i \in Stored' \cap issued : i \in Stored /\ rows'[i].hash = rows[i].hash
    /\ \A e \in Entries' \cap issued : e \in Entries /\ dead'[e] = dead[e]

LEMMA RowIdsKept ==
    ASSUME TypeInv, [Next]_vars
    PROVE  /\ issued \subseteq issued'
           /\ \A i \in Stored' \cap issued : i \in Stored /\ rows'[i].hash = rows[i].hash
  <1>1. rows \in [Stored -> Row]
    BY DEF TypeInv, TypeOK, StoreType
  <1>2. CASE RowsKept
    BY <1>2 DEF RowsKept, SameVersionOf
  <1>3. ASSUME NEW w \in Workers, Inserts(w, NewId)
        PROVE  /\ issued \subseteq issued'
               /\ \A i \in Stored' \cap issued : i \in Stored /\ rows'[i].hash = rows[i].hash
    BY <1>1, <1>3 DEF Inserts, Superseded, Row
  <1> QED
    BY <1>2, <1>3, RowEffects

\* Only run_safely adds an entry, under a new id (retry.py:62-70).
LEMMA EntryIdsKept ==
    ASSUME TypeInv, [Next]_vars
    PROVE  \A e \in Entries' \cap issued : e \in Entries /\ dead'[e] = dead[e]
  <1>1. CASE dead' = dead
    BY <1>1 DEF Entries
  <1>2. CASE \E e : DeleteDeadLetter(e)
    BY <1>2 DEF DeleteDeadLetter, Entries
  <1>3. ASSUME NEW w \in Workers, DeadLetter(w)
        PROVE  \A e \in Entries' \cap issued : e \in Entries /\ dead'[e] = dead[e]
    <2>1. NewId \notin issued
      BY <1>3, NewIdIsFresh DEF DeadLetter, FreshIds
    <2> QED
      BY <1>3, <2>1 DEF DeadLetter, AddDeadLetter, Entries
  <1>4. ASSUME NEW w \in Workers, WorkerStep(w), ~DeadLetter(w)
        PROVE  dead' = dead \/ \E e : DeleteDeadLetter(e)
    BY <1>4 DEF WorkerStep, ClearEntry, CheckHash, NoteDuplicate, Read, Normalize, UpsertVendor,
       InsertVendor, ResolveDocument, LinkDuplicate, Save, SaveOriginal, QueueDigest, storeVars
  <1>5. ASSUME NEW w \in Workers, Begin(w) \/ FaultStep(w)
        PROVE  dead' = dead
    BY <1>5 DEF Begin, Submit, StartRetry, FaultStep, LlmUnavailable, Raise, DeadLetterFails,
       Crash, storeVars
  <1>6. CASE UserStep
    <2>1. dead' = dead \/ \E e : DeleteDeadLetter(e)
      BY <1>6 DEF UserStep, LoadQueue, ReviewAction, DeleteInvoice, StartDelete,
         DeleteStepSupersedes, DeleteStepCredit, DeleteStepRow, DeleteReturns, DeleteStops,
         Dismiss, storeVars
    <2> QED
      BY <1>1, <1>2, <2>1
  <1>7. CASE UNCHANGED vars
    BY <1>1, <1>7 DEF vars, storeVars
  <1> QED
    BY <1>1, <1>2, <1>3, <1>4, <1>5, <1>6, <1>7 DEF Next, Progress

LEMMA StepKeepsIds == TypeInv /\ [Next]_vars => IdsKept
  BY RowIdsKept, EntryIdsKept DEF IdsKept

LEMMA HoldsAfter ==
    ASSUME IdsKept, NEW j, Holds(j, rows, dead, issued)
    PROVE  Holds(j, rows', dead', issued')
  BY DEF IdsKept, Holds, Stored, Entries

LEMMA ComposedHash ==
    ASSUME NEW w, NEW r, Composes(w, r)
    PROVE  r.hash = job[w].doc
  BY DEF Composes, Decides, JunkRow, RowOf

\* A worker's own step leaves it with the ids of its own document
\* (pipeline.py:98-258, retry.py:92-101).
LEMMA OwnJobHolds ==
    ASSUME TypeInv, NEW w \in Workers, Holds(job[w], rows, dead, issued), IdsKept,
           WorkerStep(w) \/ FaultStep(w) \/ Begin(w)
    PROVE  Holds(job'[w], rows', dead', issued')
  <1>1. /\ job \in [Workers -> Job] /\ job[w] \in Job
        /\ Stored \subseteq issued /\ Entries \subseteq issued
    BY DEF TypeInv, TypeOK, StoreType, WorkerType
  <1>2. \A j : Advance(w, j) => job'[w] = j
    BY <1>1 DEF Advance
  <1>3. \A label : Goto(w, label) => /\ job'[w].pc = label /\ job'[w].id = job[w].id
                                     /\ job'[w].doc = job[w].doc
    BY <1>1, <1>2 DEF Goto, Job
  <1>4. ASSUME \E label \in {"gate", "read", "normalize", "upsert", "insert_vendor", "resolve",
                             "fail"} : Goto(w, label)
        PROVE  Holds(job'[w], rows', dead', issued')
    BY <1>3, <1>4 DEF Holds
  <1>5. CASE Finish(w)
    BY <1>2, <1>5 DEF Finish, IdleJob, Holds
  <1>6. CASE job'[w].pc = "save"
    BY <1>6, SaveIsPrepared, ComposedHash DEF Holds
  <1>7. CASE job'[w].pc \in {"gate", "link"}
    BY <1>7 DEF Holds
  <1>8. CASE CheckHash(w)
    <2>1. CASE Goto(w, "read")
      BY <1>4, <2>1
    <2>2. ASSUME NEW i \in Stored, rows[i].hash = job[w].doc,
                 Advance(w, [job[w] EXCEPT !.pc = "duplicate", !.id = i])
          PROVE  Holds(job'[w], rows', dead', issued')
      <3>1. /\ job'[w].pc = "duplicate" /\ job'[w].id = i /\ job'[w].doc = job[w].doc
        BY <1>1, <1>2, <2>2 DEF Job
      <3>2. rows' = rows /\ issued' = issued
        BY <1>8 DEF CheckHash, storeVars
      <3> QED
        BY <1>1, <2>2, <3>1, <3>2 DEF Holds
    <2> QED
      BY <1>8, <2>1, <2>2 DEF CheckHash
  <1>9. CASE Save(w)
    <2>1. CASE Goto(w, "fail")
      BY <1>4, <2>1
    <2>2. CASE /\ FreshIds # {} /\ issued' = issued \cup {NewId}
               /\ Advance(w, [job[w] EXCEPT !.pc = "original", !.id = NewId])
      <3>1. job'[w].pc = "original" /\ job'[w].id = NewId /\ job'[w].doc = job[w].doc
        BY <1>1, <1>2, <2>2 DEF Job
      <3>2. Inserts(w, NewId)
        BY <1>9, <2>2, SaveEffect, NewIdIsFresh DEF FreshIds
      <3>3. rows'[NewId].hash = job[w].doc
        BY <1>9, <3>2 DEF Holds, Inserts, Save
      <3> QED
        BY <2>2, <3>1, <3>3 DEF Holds
    <2> QED
      BY <1>9, <2>1, <2>2 DEF Save
  <1>10. CASE SaveOriginal(w)
    <2>1. CASE Goto(w, "finish")
      <3>1. /\ job[w].pc = "original" /\ rows' = rows /\ issued' = issued
        BY <1>10 DEF SaveOriginal
      <3> QED
        BY <1>3, <2>1, <3>1 DEF Holds
    <2> QED
      BY <1>4, <1>5, <1>10, <2>1 DEF SaveOriginal, Return
  <1>11. CASE Begin(w)
    <2>1. ASSUME NEW e \in Entries, StartRetry(w, e)
          PROVE  Holds(job'[w], rows', dead', issued')
      <3>1. /\ job'[w] = [IdleJob EXCEPT !.pc = "retry", !.doc = dead[e], !.source = "retry",
                                         !.id = e]
            /\ dead' = dead /\ issued' = issued
        BY <1>2, <2>1 DEF StartRetry, storeVars
      <3> QED
        BY <1>1, <3>1 DEF Holds, IdleJob
    <2>2. ASSUME NEW d \in Docs, NEW source \in {"email", "upload"}, Submit(w, d, source)
          PROVE  job'[w].pc = "gate"
      BY <1>2, <2>2 DEF Submit, IdleJob
    <2> QED
      BY <1>7, <1>11, <2>1, <2>2 DEF Begin
  <1>12. CASE Read(w) \/ ResolveDocument(w)
    <2>1. \/ \E q : Advance(w, [job[w] EXCEPT !.pc = "save", !.row = q])
          \/ \E q : Advance(w, [job[w] EXCEPT !.pc = "normalize", !.read = q])
          \/ \E q : Advance(w, [job[w] EXCEPT !.pc = "link", !.id = q])
      BY <1>12 DEF Read, ResolveDocument
    <2>2. job'[w].pc \in {"save", "normalize", "link"}
      BY <1>1, <1>2, <2>1 DEF Job
    <2> QED
      BY <1>6, <2>2 DEF Holds
  <1>13. CASE ClearEntry(w)
    BY <1>1, <1>2, <1>7, <1>13 DEF ClearEntry, Job
  <1>14. CASE LlmUnavailable(w)
    <2>1. Goto(w, "fail") \/ \E k : Advance(w, [job[w] EXCEPT !.pc = "gate", !.attempt = k])
      BY <1>14 DEF LlmUnavailable
    <2>2. Goto(w, "fail") \/ job'[w].pc = "gate"
      BY <1>1, <1>2, <2>1 DEF Job
    <2> QED
      BY <1>4, <1>7, <2>2
  <1>15. CASE Normalize(w) \/ UpsertVendor(w) \/ InsertVendor(w) \/ Raise(w)
    BY <1>4, <1>15 DEF Normalize, UpsertVendor, InsertVendor, Raise
  <1>16. CASE NoteDuplicate(w) \/ LinkDuplicate(w) \/ QueueDigest(w) \/ DeadLetter(w)
              \/ DeadLetterFails(w) \/ Crash(w)
    BY <1>4, <1>5, <1>16 DEF NoteDuplicate, LinkDuplicate, QueueDigest, DeadLetter,
       DeadLetterFails, Crash, Return
  <1> QED
    BY <1>8, <1>9, <1>10, <1>11, <1>12, <1>13, <1>14, <1>15, <1>16 DEF WorkerStep, FaultStep

LEMMA UserLeavesJobs ==
    ASSUME UserStep \/ UNCHANGED vars
    PROVE  job' = job
  BY DEF UserStep, LoadQueue, ReviewAction, DeleteInvoice, StartDelete, DeleteStepSupersedes,
     DeleteStepCredit, DeleteStepRow, DeleteReturns, DeleteStops, Dismiss, workerVars, vars

LEMMA StepKeepsHolds == TypeInv /\ JobsHold /\ [Next]_vars => JobsHold'
  <1> SUFFICES ASSUME TypeInv, JobsHold, [Next]_vars, NEW v \in Workers
               PROVE  Holds(job'[v], rows', dead', issued')
    BY DEF JobsHold
  <1>1. IdsKept /\ Holds(job[v], rows, dead, issued) /\ job \in [Workers -> Job]
    BY StepKeepsIds DEF JobsHold, TypeInv, TypeOK, WorkerType
  <1>2. CASE job'[v] = job[v]
    BY <1>1, <1>2, HoldsAfter
  <1>3. ASSUME NEW w \in Workers, WorkerStep(w) \/ FaultStep(w) \/ Begin(w)
        PROVE  Holds(job'[v], rows', dead', issued')
    <2>1. CASE v = w
      BY <1>1, <1>3, <2>1, OwnJobHolds
    <2>2. CASE v # w
      <3>1. PICK j : job' = [job EXCEPT ![w] = j]
        BY <1>3, OthersJobs DEF Advance
      <3> QED
        BY <1>1, <1>2, <2>2, <3>1
    <2> QED
      BY <2>1, <2>2
  <1>4. CASE UserStep \/ UNCHANGED vars
    BY <1>2, <1>4, UserLeavesJobs
  <1> QED
    BY <1>3, <1>4 DEF Next, Progress

-----------------------------------------------------------------------------
(* The bytes of a stored document.                                         *)

\* Neither of the two faults the code has no answer to is injected.
Answered == FaultKinds \cap {"crash", "dead_letter"} = {}

LEMMA NoLostCall ==
    ASSUME Answered, NEW w
    PROVE  ~Crash(w) /\ ~DeadLetterFails(w)
  BY DEF Answered, Crash, DeadLetterFails, Fault

LEMMA WorkersOnlyAdd ==
    ASSUME NEW w, WorkerStep(w) \/ FaultStep(w) \/ Begin(w)
    PROVE  originals \subseteq originals' /\ payloads \subseteq payloads' /\ links \subseteq links'
  <1>1. CASE WorkerStep(w)
    BY <1>1 DEF WorkerStep, ClearEntry, CheckHash, NoteDuplicate, Read, Normalize, UpsertVendor,
       InsertVendor, ResolveDocument, LinkDuplicate, Save, SaveOriginal, QueueDigest, DeadLetter,
       storeVars
  <1>2. CASE FaultStep(w) \/ Begin(w)
    BY <1>2 DEF FaultStep, Begin, Submit, StartRetry, LlmUnavailable, Raise, DeadLetterFails,
       Crash, storeVars
  <1> QED
    BY <1>1, <1>2

\* A worker about to keep the original does, or goes to the except branch ...
LEMMA AtOriginal ==
    ASSUME Answered, TypeInv, NEW w \in Workers, job[w].pc = "original",
           WorkerStep(w) \/ FaultStep(w) \/ Begin(w), job[w].id \in Stored
    PROVE  job[w].id \in originals' \/ (job'[w].pc = "fail" /\ job'[w].doc = job[w].doc)
  <1>1. job \in [Workers -> Job] /\ job[w] \in Job
    BY DEF TypeInv, TypeOK, WorkerType
  <1>2. SaveOriginal(w) \/ Raise(w)
    BY NoLostCall DEF WorkerStep, FaultStep, Begin, ClearEntry, CheckHash, NoteDuplicate, Read,
       Normalize, UpsertVendor, InsertVendor, ResolveDocument, LinkDuplicate, Save, QueueDigest,
       DeadLetter, LlmUnavailable, Submit, StartRetry
  <1>3. CASE SaveOriginal(w)
    BY <1>3 DEF SaveOriginal
  <1>4. CASE Raise(w)
    BY <1>1, <1>4 DEF Raise, Goto, Advance, Job
  <1> QED
    BY <1>2, <1>3, <1>4

\* ... and one in the except branch keeps the payload.
LEMMA AtFail ==
    ASSUME Answered, NEW w \in Workers, job[w].pc = "fail",
           WorkerStep(w) \/ FaultStep(w) \/ Begin(w)
    PROVE  HostOf[w] \in Hosts /\ <<HostOf[w], job[w].doc>> \in payloads'
  <1>1. DeadLetter(w)
    BY NoLostCall DEF WorkerStep, FaultStep, Begin, ClearEntry, CheckHash, NoteDuplicate, Read,
       Normalize, UpsertVendor, InsertVendor, ResolveDocument, LinkDuplicate, Save, SaveOriginal,
       QueueDigest, LlmUnavailable, Raise, Submit, StartRetry
  <1> QED
    BY <1>1, PipelineAssumption DEF DeadLetter

\* The bytes of document d, of row i, can be produced.
Kept(i, d) ==
    \/ i \in originals
    \/ \E w \in Workers : job[w].pc = "original" /\ job[w].id = i
    \/ \E w \in Workers : job[w].pc = "fail" /\ job[w].doc = d
    \/ \E h \in Hosts : <<h, d>> \in payloads

LEMMA WorkersKeep ==
    ASSUME Answered, TypeInv, JobsHold, NEW w \in Workers,
           WorkerStep(w) \/ FaultStep(w) \/ Begin(w),
           NEW i \in Stored, NEW d, d = rows[i].hash, Kept(i, d)
    PROVE  Kept(i, d)'
  <1>1. job \in [Workers -> Job] /\ \E j : job' = [job EXCEPT ![w] = j]
    BY OthersJobs DEF TypeInv, TypeOK, WorkerType, Advance
  <1>2. \A v \in Workers \ {w} : job'[v] = job[v]
    BY <1>1
  <1>3. CASE i \in originals \/ \E h \in Hosts : <<h, d>> \in payloads
    BY <1>3, WorkersOnlyAdd DEF Kept
  <1>4. ASSUME NEW v \in Workers, job[v].pc = "original", job[v].id = i
        PROVE  Kept(i, d)'
    <2>1. CASE v = w
      <3>1. job[w].doc = d
        BY <1>4, <2>1 DEF JobsHold, Holds, Stored
      <3> QED
        BY <1>4, <2>1, <3>1, AtOriginal DEF Kept
    <2>2. CASE v # w
      BY <1>2, <1>4, <2>2 DEF Kept
    <2> QED
      BY <2>1, <2>2
  <1>5. ASSUME NEW v \in Workers, job[v].pc = "fail", job[v].doc = d
        PROVE  Kept(i, d)'
    <2>1. CASE v = w
      BY <1>5, <2>1, AtFail DEF Kept
    <2>2. CASE v # w
      BY <1>2, <1>5, <2>2 DEF Kept
    <2> QED
      BY <2>1, <2>2
  <1> QED
    BY <1>3, <1>4, <1>5 DEF Kept

\* Deleting an invoice takes its own original and no other.
LEMMA UserKeeps ==
    ASSUME TypeInv, UserStep, NEW i \in Stored', NEW d, Kept(i, d)
    PROVE  Kept(i, d)'
  <1>1. job' = job
    BY UserLeavesJobs
  <1>2. payloads' = payloads
    BY DEF UserStep, LoadQueue, ReviewAction, DeleteInvoice, StartDelete, DeleteStepSupersedes,
       DeleteStepCredit, DeleteStepRow, DeleteReturns, DeleteStops, Dismiss, storeVars
  <1>3. i \in originals => i \in originals'
    <2>1. CASE originals' = originals
      BY <2>1
    <2>2. ASSUME NEW k, Stored' = Stored \ {k}, Cascade(k)
          PROVE  i \in originals => i \in originals'
      BY <2>2 DEF Cascade
    <2>3. CASE \E k \in Stored : DeleteInvoice(k)
      BY <2>2, <2>3 DEF DeleteInvoice, DeleteCleared, Stored
    <2>4. CASE DeleteStepRow
      <3>1. originals' = originals \/ DeleteRow(deleting.id)
        BY <2>4 DEF DeleteStepRow
      <3>2. ASSUME DeleteRow(deleting.id)
            PROVE  i \in originals => i \in originals'
        <4>1. PICK k : k = deleting.id
          OBVIOUS
        <4> QED
          BY <2>2, <3>2, <4>1 DEF DeleteRow, Stored
      <3> QED
        BY <2>1, <3>1, <3>2
    <2>5. CASE ~DeleteStepRow /\ ~\E k \in Stored : DeleteInvoice(k)
      <3>1. originals' = originals
        BY <2>5 DEF UserStep, LoadQueue, ReviewAction, StartDelete, DeleteStepSupersedes,
           DeleteStepCredit, DeleteReturns, DeleteStops, Dismiss, storeVars
      <3> QED
        BY <3>1
    <2> QED
      BY <2>3, <2>4, <2>5
  <1> QED
    BY <1>1, <1>2, <1>3 DEF Kept

LEMMA StepKeepsOriginals ==
    ASSUME Answered
    PROVE  TypeInv /\ JobsHold /\ OriginalRecoverable /\ [Next]_vars => OriginalRecoverable'
  <1> SUFFICES ASSUME TypeInv, JobsHold, OriginalRecoverable, [Next]_vars,
                      NEW i \in Stored', NEW d, d = rows'[i].hash
               PROVE  Kept(i, d)'
    BY DEF OriginalRecoverable, Kept
  <1>1. i \in Stored => d = rows[i].hash /\ Kept(i, d)
    <2>1. Stored \subseteq issued /\ IdsKept
      BY StepKeepsIds DEF TypeInv, TypeOK, StoreType
    <2> QED
      BY <2>1 DEF IdsKept, OriginalRecoverable, Kept
  <1>2. CASE i \notin Stored
    <2>1. PICK w \in Workers : Inserts(w, NewId)
      BY <1>2, RowEffects DEF RowsKept
    <2>2. i = NewId /\ Save(w) /\ issued' # issued
      BY <1>2, <2>1 DEF Inserts
    <2>3. Advance(w, [job[w] EXCEPT !.pc = "original", !.id = NewId])
      BY <2>2 DEF Save
    <2>4. job'[w].pc = "original" /\ job'[w].id = i
      <3>1. job \in [Workers -> Job] /\ job[w] \in Job
        BY DEF TypeInv, TypeOK, WorkerType
      <3> QED
        BY <2>2, <2>3, <3>1 DEF Advance, Job
    <2> QED
      BY <2>4 DEF Kept
  <1>3. CASE i \in Stored
    <2>1. CASE \E w \in Workers : WorkerStep(w) \/ FaultStep(w) \/ Begin(w)
      BY <1>1, <1>3, <2>1, WorkersKeep
    <2>2. CASE UserStep
      BY <1>1, <1>3, <2>2, UserKeeps
    <2>3. CASE UNCHANGED vars
      BY <1>1, <1>3, <2>3 DEF Kept, vars, storeVars, workerVars
    <2> QED
      BY <2>1, <2>2, <2>3 DEF Next, Progress
  <1> QED
    BY <1>2, <1>3

LEMMA InitHolds == Init => JobsHold
  BY DEF Init, WorkerInit, IdleJob, JobsHold, Holds

\* When no process stops inside a call and the except branch succeeds, the bytes of
\* every stored document are kept with it, about to be, or on disk as a payload,
\* however rows are deleted and errors strike between the row and its original.
THEOREM OriginalsKept ==
    ASSUME Answered
    PROVE  Spec => []OriginalRecoverable
  <1>1. Init => OriginalRecoverable
    BY DEF Init, StoreInit, OriginalRecoverable, Stored
  <1> QED
    BY <1>1, InitTypes, StepTypes, InitHolds, StepKeepsHolds, StepKeepsOriginals, PTL DEF Spec

-----------------------------------------------------------------------------
(* Where a document is on record.                                          *)

\* d has come to a row, a link or an entry.
Settled(d) ==
    \/ HashStored(d)
    \/ \E l \in links : l[2] = d
    \/ \E e \in Entries : dead[e] = d

LEMMA AccountedIs == \A d : Accounted(d) <=> Settled(d) \/ InFlight(d)
  BY DEF Accounted, Settled

\* No worker's step removes a row, and the entry a retry removes is the one of the
\* document it then has in hand.
LEMMA WorkersKeepSettled ==
    ASSUME TypeInv, JobsHold, NEW w \in Workers,
           WorkerStep(w) \/ FaultStep(w) \/ Begin(w), NEW d, Settled(d)
    PROVE  Settled(d)' \/ (ClearEntry(w) /\ job[w].doc = d)
  <1>1. /\ rows \in [Stored -> Row] /\ dead \in [Entries -> Docs]
        /\ Stored \subseteq issued /\ Entries \subseteq issued
    BY DEF TypeInv, TypeOK, StoreType
  <1>2. CASE HashStored(d)
    <2>1. CASE rows' = rows
      BY <1>2, <2>1 DEF Settled, HashStored, Stored
    <2>2. CASE Inserts(w, NewId)
      <3>1. \A i \in Stored : i \in Stored' /\ rows'[i].hash = rows[i].hash
        BY <1>1, <2>2 DEF Inserts, Superseded, Row
      <3>2. HashStored(d)'
        BY <1>2, <3>1 DEF HashStored
      <3> QED
        BY <3>2 DEF Settled
    <2>3. CASE ~Save(w)
      <3>1. rows' = rows
        BY <2>3 DEF WorkerStep, ClearEntry, CheckHash, NoteDuplicate, Read, Normalize,
           UpsertVendor, InsertVendor, ResolveDocument, LinkDuplicate, SaveOriginal,
           QueueDigest, DeadLetter, storeVars, Begin, Submit, StartRetry, FaultStep,
           LlmUnavailable, Raise, DeadLetterFails, Crash
      <3> QED
        BY <2>1, <3>1
    <2> QED
      BY <2>1, <2>2, <2>3, SaveEffect
  <1>3. CASE \E l \in links : l[2] = d
    BY <1>3, WorkersOnlyAdd DEF Settled
  <1>4. ASSUME NEW e \in Entries, dead[e] = d
        PROVE  Settled(d)' \/ (ClearEntry(w) /\ job[w].doc = d)
    <2>1. CASE dead' = dead
      BY <1>4, <2>1 DEF Settled, Entries
    <2>2. CASE DeadLetter(w)
      <3>1. e # NewId
        BY <1>1, <1>4, <2>2, NewIdIsFresh DEF DeadLetter, FreshIds
      <3>2. e \in Entries' /\ dead'[e] = d
        BY <1>4, <2>2, <3>1 DEF DeadLetter, AddDeadLetter, Entries
      <3> QED
        BY <3>2 DEF Settled
    <2>3. CASE ClearEntry(w)
      <3>1. CASE e = job[w].id
        BY <1>4, <2>3, <3>1 DEF ClearEntry, JobsHold, Holds, Entries
      <3>2. CASE e # job[w].id
        <4>1. e \in Entries' /\ dead'[e] = d
          BY <1>4, <2>3, <3>2 DEF ClearEntry, DeleteDeadLetter, Entries
        <4> QED
          BY <4>1 DEF Settled
      <3> QED
        BY <3>1, <3>2
    <2>4. CASE ~DeadLetter(w) /\ ~ClearEntry(w)
      <3>1. dead' = dead
        BY <2>4 DEF WorkerStep, CheckHash, NoteDuplicate, Read, Normalize,
           UpsertVendor, InsertVendor, ResolveDocument, LinkDuplicate, Save, SaveOriginal,
           QueueDigest, storeVars, Begin, Submit, StartRetry, FaultStep,
           LlmUnavailable, Raise, DeadLetterFails, Crash
      <3> QED
        BY <2>1, <3>1
    <2> QED
      BY <2>2, <2>3, <2>4
  <1> QED
    BY <1>2, <1>3, <1>4 DEF Settled

\* A call ends with its document on record, or goes on with it (retry.py:51-73).
LEMMA CallSettles ==
    ASSUME Answered, TypeInv, JobsHold, NEW w \in Workers, job[w].pc \notin {"idle", "retry"},
           WorkerStep(w) \/ FaultStep(w) \/ Begin(w), NEW d, d = job[w].doc
    PROVE  \/ Settled(d)'
           \/ /\ job'[w].pc \notin {"idle", "retry"} /\ job'[w].doc = d
              /\ owed' = owed
  <1>1. /\ job \in [Workers -> Job] /\ job[w] \in Job
        /\ Holds(job[w], rows, dead, issued)
    BY DEF TypeInv, TypeOK, WorkerType, JobsHold
  <1>2. \A j : Advance(w, j) => job'[w] = j
    BY <1>1 DEF Advance
  <1>3. ASSUME NEW label \in Labels \ {"idle", "retry"}, Goto(w, label)
        PROVE  job'[w].pc \notin {"idle", "retry"} /\ job'[w].doc = job[w].doc
    BY <1>1, <1>2, <1>3 DEF Goto, Job
  <1>4. CASE NoteDuplicate(w) \/ SaveOriginal(w) \/ QueueDigest(w)
    <2>1. CASE job[w].id \in Stored /\ rows' = rows
      <3>1. rows[job[w].id].hash = job[w].doc
        BY <1>1, <1>4, <2>1 DEF NoteDuplicate, SaveOriginal, QueueDigest, Holds, Stored
      <3>2. Settled(d)'
        BY <2>1, <3>1 DEF Settled, HashStored, Stored
      <3> QED
        BY <3>2
    <2>2. CASE job[w].id \notin Stored
      <3>1. Goto(w, "fail") /\ owed' = owed
        BY <1>4, <2>2 DEF NoteDuplicate, SaveOriginal, QueueDigest
      <3> QED
        BY <1>3, <3>1 DEF Labels
    <2>3. rows' = rows
      BY <1>4 DEF NoteDuplicate, SaveOriginal, QueueDigest, storeVars
    <2> QED
      BY <2>1, <2>2, <2>3
  <1>5. CASE LinkDuplicate(w)
    <2>1. \/ <<job[w].id, job[w].doc>> \in links'
          \/ Goto(w, "fail") /\ owed' = owed
      BY <1>5 DEF LinkDuplicate
    <2>2. CASE <<job[w].id, job[w].doc>> \in links'
      BY <2>2 DEF Settled
    <2> QED
      BY <1>3, <2>1, <2>2 DEF Labels
  <1>6. CASE DeadLetter(w)
    <2>1. NewId \in Entries' /\ dead'[NewId] = job[w].doc
      BY <1>6 DEF DeadLetter, AddDeadLetter, Entries
    <2> QED
      BY <2>1 DEF Settled
  <1>7. CASE CheckHash(w) \/ Read(w) \/ ResolveDocument(w) \/ Save(w) \/ LlmUnavailable(w)
    <2>1. \/ Goto(w, "read") \/ Goto(w, "fail")
          \/ \E q : Advance(w, [job[w] EXCEPT !.pc = "duplicate", !.id = q])
          \/ \E q : Advance(w, [job[w] EXCEPT !.pc = "save", !.row = q])
          \/ \E q : Advance(w, [job[w] EXCEPT !.pc = "normalize", !.read = q])
          \/ \E q : Advance(w, [job[w] EXCEPT !.pc = "link", !.id = q])
          \/ \E q : Advance(w, [job[w] EXCEPT !.pc = "original", !.id = q])
          \/ \E q : Advance(w, [job[w] EXCEPT !.pc = "gate", !.attempt = q])
      BY <1>7 DEF CheckHash, Read, ResolveDocument, Save, LlmUnavailable
    <2>2. owed' = owed
      BY <1>7 DEF CheckHash, Read, ResolveDocument, Save, LlmUnavailable
    <2>3. job'[w].pc \notin {"idle", "retry"} /\ job'[w].doc = job[w].doc
      BY <1>1, <1>2, <2>1 DEF Job, Goto
    <2> QED
      BY <2>2, <2>3
  <1>8. CASE Normalize(w) \/ UpsertVendor(w) \/ InsertVendor(w) \/ Raise(w)
    <2>1. \E label \in {"resolve", "upsert", "insert_vendor", "fail"} : Goto(w, label)
      BY <1>8 DEF Normalize, UpsertVendor, InsertVendor, Raise
    <2>2. owed' = owed
      BY <1>8 DEF Normalize, UpsertVendor, InsertVendor, Raise
    <2> QED
      BY <1>3, <2>1, <2>2 DEF Labels
  <1>9. ~ClearEntry(w) /\ ~Begin(w) /\ ~Crash(w) /\ ~DeadLetterFails(w)
    BY NoLostCall DEF ClearEntry, Begin, Submit, StartRetry
  <1> QED
    BY <1>4, <1>5, <1>6, <1>7, <1>8, <1>9 DEF WorkerStep, FaultStep

LEMMA WorkersKeepAccount ==
    ASSUME Answered, TypeInv, JobsHold, NothingOwedIsLost, NEW w \in Workers,
           WorkerStep(w) \/ FaultStep(w) \/ Begin(w)
    PROVE  NothingOwedIsLost'
  <1> SUFFICES ASSUME NEW d, d \in owed' PROVE Accounted(d)'
    BY DEF NothingOwedIsLost
  <1>1. job \in [Workers -> Job] /\ \E j : job' = [job EXCEPT ![w] = j]
    BY OthersJobs DEF TypeInv, TypeOK, WorkerType, Advance
  <1>2. \A v \in Workers \ {w} : job'[v] = job[v]
    BY <1>1
  <1>3. Settled(d)' \/ InFlight(d)' => Accounted(d)'
    BY DEF Accounted, Settled
  <1>4. CASE job[w].pc \notin {"idle", "retry"} /\ job[w].doc = d
    <2>1. CASE job'[w].pc \notin {"idle", "retry"} /\ job'[w].doc = d
      BY <1>3, <2>1 DEF InFlight
    <2> QED
      BY <1>3, <1>4, <2>1, CallSettles
  <1>5. CASE ~(job[w].pc \notin {"idle", "retry"} /\ job[w].doc = d)
    <2>1. d \in owed
      BY <1>5 DEF WorkerStep, ClearEntry, CheckHash, NoteDuplicate, Read, Normalize,
         UpsertVendor, InsertVendor, ResolveDocument, LinkDuplicate, Save, SaveOriginal,
         QueueDigest, DeadLetter, Return, Begin, Submit, StartRetry, FaultStep,
         LlmUnavailable, Raise, DeadLetterFails, Crash
    <2>2. Settled(d) \/ InFlight(d)
      BY <2>1, AccountedIs DEF NothingOwedIsLost
    <2>3. CASE InFlight(d)
      <3>1. PICK v \in Workers \ {w} : job[v].doc = d /\ job[v].pc \notin {"idle", "retry"}
        BY <1>5, <2>3 DEF InFlight
      <3>2. InFlight(d)'
        BY <1>2, <3>1 DEF InFlight
      <3> QED
        BY <1>3, <3>2
    <2>4. CASE Settled(d)
      <3>1. CASE ClearEntry(w) /\ job[w].doc = d
        <4>1. job'[w].pc = "gate" /\ job'[w].doc = d
          <5>1. job[w] \in Job /\ job'[w] = [job[w] EXCEPT !.pc = "gate", !.attempt = 1, !.id = None]
            BY <1>1, <3>1 DEF ClearEntry, Advance
          <5> QED
            BY <3>1, <5>1 DEF Job
        <4>2. InFlight(d)'
          BY <4>1 DEF InFlight
        <4> QED
          BY <1>3, <4>2
      <3> QED
        BY <1>3, <2>4, <3>1, WorkersKeepSettled
    <2> QED
      BY <2>2, <2>3, <2>4
  <1> QED
    BY <1>4, <1>5

\* What a user removes is owed no longer (main.py:332-343, retry.py:104-107).
LEMMA UsersKeepAccount ==
    ASSUME TypeInv, NothingOwedIsLost, UserStep
    PROVE  NothingOwedIsLost'
  <1> SUFFICES ASSUME NEW d, d \in owed' PROVE Accounted(d)'
    BY DEF NothingOwedIsLost
  <1>1. job' = job
    BY UserLeavesJobs
  <1>2. InFlight(d) => InFlight(d)'
    BY <1>1 DEF InFlight
  <1>3. Settled(d)' \/ InFlight(d)' => Accounted(d)'
    BY DEF Accounted, Settled
  \* A row goes with its links, and the documents they hold.
  <1>4. ASSUME NEW k \in Stored, Stored' = Stored \ {k}, Cascade(k), dead' = dead,
               owed' = owed \ HeldBy(k), \A j \in Stored' : rows'[j].hash = rows[j].hash
        PROVE  Accounted(d)'
    <2>1. d \in owed /\ d \notin HeldBy(k)
      BY <1>4
    <2>2. CASE HashStored(d)
      <3>1. PICK j \in Stored : rows[j].hash = d
        BY <2>2 DEF HashStored
      <3>2. j # k
        BY <2>1, <3>1 DEF HeldBy
      <3>3. HashStored(d)'
        BY <1>4, <3>1, <3>2 DEF HashStored
      <3> QED
        BY <1>3, <3>3 DEF Settled
    <2>3. CASE \E l \in links : l[2] = d
      <3>1. PICK l \in links : l[2] = d
        BY <2>3
      <3>2. l[1] # k
        BY <2>1, <3>1 DEF HeldBy
      <3>3. l \in links'
        BY <1>4, <3>1, <3>2 DEF Cascade
      <3> QED
        BY <1>3, <3>1, <3>3 DEF Settled
    <2>4. CASE \E e \in Entries : dead[e] = d
      BY <1>3, <1>4, <2>4 DEF Settled, Entries
    <2> QED
      BY <1>2, <1>3, <2>1, <2>2, <2>3, <2>4, AccountedIs DEF NothingOwedIsLost, Settled
  <1>5. ASSUME Stored' = Stored, \A j \in Stored : rows'[j].hash = rows[j].hash,
               links' = links, dead' = dead, owed' = owed
        PROVE  Accounted(d)'
    <2>1. Settled(d) => Settled(d)'
      BY <1>5 DEF Settled, HashStored, Entries
    <2> QED
      BY <1>2, <1>3, <1>5, <2>1, AccountedIs DEF NothingOwedIsLost
  <1>6. RowsKept
    BY UserKeepsRows
  <1>7. \A j \in Stored' : rows'[j].hash = rows[j].hash
    BY <1>6 DEF RowsKept, SameVersionOf
  <1>8. CASE \E i \in Stored : DeleteInvoice(i)
    BY <1>4, <1>7, <1>8 DEF DeleteInvoice, DeleteCleared, Stored
  <1>9. CASE DeleteStepRow
    <2>1. PICK k : k = deleting.id
      OBVIOUS
    <2>2. CASE DeleteRow(k) /\ owed' = owed \ HeldBy(k)
      BY <1>4, <1>7, <1>9, <2>1, <2>2 DEF DeleteStepRow, DeleteRow, Stored
    <2>3. CASE UNCHANGED <<rows, links, originals, owed>>
      BY <1>5, <1>9, <2>3 DEF DeleteStepRow, Stored
    <2> QED
      BY <1>9, <2>1, <2>2, <2>3 DEF DeleteStepRow
  <1>10. CASE \E e \in Entries : Dismiss(e)
    <2>1. PICK e \in Entries : Dismiss(e)
      BY <1>10
    <2>2. d \in owed /\ d # dead[e]
      BY <2>1 DEF Dismiss
    <2>3. \A f \in Entries : dead[f] = d => f \in Entries' /\ dead'[f] = d
      BY <2>1, <2>2 DEF Dismiss, DeleteDeadLetter, Entries
    <2>4. Settled(d) => Settled(d)'
      BY <2>1, <2>3 DEF Dismiss, Settled, HashStored, Stored
    <2> QED
      BY <1>2, <1>3, <2>2, <2>4, AccountedIs DEF NothingOwedIsLost
  <1>11. CASE DeleteStepSupersedes \/ DeleteStepCredit
    BY <1>5, <1>7, <1>11 DEF DeleteStepSupersedes, DeleteStepCredit, ClearSupersedes,
       ClearCredit, Stored, workerVars
  <1>12. CASE \E i \in queue, status \in {"clean", "failed"} : ReviewAction(i, status)
    BY <1>5, <1>7, <1>12 DEF ReviewAction, UpdateStatus, Stored
  <1>13. CASE LoadQueue \/ (\E i \in Stored : StartDelete(i)) \/ DeleteReturns \/ DeleteStops
    <2>1. rows' = rows /\ links' = links /\ dead' = dead
      BY <1>13 DEF LoadQueue, StartDelete, DeleteReturns, DeleteStops, storeVars
    <2>2. owed' = owed
      BY <1>13 DEF LoadQueue, StartDelete, DeleteReturns, DeleteStops, workerVars
    <2> QED
      BY <1>5, <2>1, <2>2 DEF Stored
  <1> QED
    BY <1>8, <1>9, <1>10, <1>11, <1>12, <1>13 DEF UserStep

LEMMA StepKeepsAccount ==
    ASSUME Answered
    PROVE  TypeInv /\ JobsHold /\ NothingOwedIsLost /\ [Next]_vars => NothingOwedIsLost'
  <1>1. UNCHANGED vars /\ NothingOwedIsLost => NothingOwedIsLost'
    BY DEF vars, storeVars, workerVars, NothingOwedIsLost, Accounted, InFlight, HashStored, Stored,
       Entries
  <1> QED
    BY <1>1, WorkersKeepAccount, UsersKeepAccount DEF Next, Progress

\* When no process stops inside a call and the except branch succeeds, every document a
\* call answered for is in a row, linked to one, in the dead-letter list or being run
\* again, however uploads, polls, retries, dismissals and deletes interleave, until a
\* user removes it (retry.py:51-107, AUTOMATION_BUILD_DOC.md:222).
THEOREM NothingIsLost ==
    ASSUME Answered
    PROVE  Spec => []NothingOwedIsLost
  <1>1. Init => NothingOwedIsLost
    BY DEF Init, WorkerInit, NothingOwedIsLost
  <1> QED
    BY <1>1, InitTypes, StepTypes, InitHolds, StepKeepsHolds, StepKeepsAccount, PTL DEF Spec
=============================================================================
