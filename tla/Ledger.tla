-------------------------------- MODULE Ledger --------------------------------
(***************************************************************************)
(* The store behind the program (backend/store.py over SQLite,             *)
(* backend/store_pg.py over Postgres): its tables as variables, one        *)
(* operator per transaction it commits, and what a row adds to the         *)
(* reconciled summary (backend/summary.py).                                *)
(*                                                                         *)
(* Line items, tax lines and confidences are children that every           *)
(* transaction carries along with their invoice row and are left out.      *)
(***************************************************************************)
EXTENDS Resolve

CONSTANTS
    Docs,       \* distinct documents; a document stands for its sha256
    Hosts,      \* machines with a disk of their own (server, cron runner)
    Backend     \* "sqlite" or "postgres"

VARIABLES
    rows,       \* invoices: a function from the ids of the stored rows to Row
    links,      \* events of type duplicate_linked: <<row id, linked document>>
    originals,  \* the row ids that have an invoice_files row
    vendors,    \* the canonical names in the vendors table
    dead,       \* dead_letter: a function from entry ids to documents
    payloads,   \* payload files on disk: <<host, document>>
    issued      \* every uuid generated so far (uuid4 never repeats)

storeVars == <<rows, links, originals, vendors, dead, payloads, issued>>

ASSUME LedgerAssumption ==
    /\ None \notin Docs
    /\ Backend \in {"sqlite", "postgres"}

\* A row of the invoices table.  base is base_total, None when it was not computed.
Row == [hash : Docs, vendor : Vendors \cup {None}, number : OptNumber, date : OptDate,
        total : OptAmount, base : OptAmount, docType : DocTypes, status : Statuses,
        version : Int, supersedes : OptId, creditOf : OptId, isInvoice : BOOLEAN]

Stored == DOMAIN rows
Entries == DOMAIN dead
FreshIds == Ids \ issued
HashStored(d) == \E i \in Stored : rows[i].hash = d

\* candidates_for_vendor
Candidates(v) == [i \in {j \in Stored : rows[j].vendor = v} |-> rows[i]]

\* SELECT ... WHERE status IN ('needs_review','failed')
ReviewQueue == {i \in Stored : rows[i].status \in {"needs_review", "failed"}}

StoreInit ==
    /\ rows = << >> /\ dead = << >>
    /\ links = {} /\ originals = {} /\ vendors = {} /\ payloads = {} /\ issued = {}

\* Every table holds values of its columns, the rows of its child tables belong to
\* a stored invoice, and every id in use was generated (schema.sql:21-54,90-104).
StoreType ==
    /\ rows \in [Stored -> Row]
    /\ Stored \subseteq issued /\ issued \subseteq Ids
    /\ links \subseteq Stored \X Docs
    /\ originals \subseteq Stored
    /\ vendors \subseteq Vendors
    /\ dead \in [Entries -> Docs] /\ Entries \subseteq issued
    /\ payloads \subseteq Hosts \X Docs

-----------------------------------------------------------------------------
(* Transactions.  Each constrains the tables it writes; the caller frames  *)
(* the others.                                                             *)

\* The constraints an INSERT into invoices is held to.  SQLite declares no
\* foreign key on supersedes_id and credit_of_id and no CHECK on source.
Insertable(r, source) ==
    /\ ~HashStored(r.hash)
    /\ Backend = "postgres" =>
         /\ {r.supersedes, r.creditOf} \subseteq Stored \cup {None}
         /\ source \in {"email", "upload"}

Superseded(r) == [r EXCEPT !.status = "superseded"]

\* Wrong variant of SaveInvoice: the supersede-mark is forgotten.
SaveUnmarked(i, r) == rows' = [j \in Stored \cup {i} |-> IF j = i THEN r ELSE rows[j]]

\* save_invoice / store_invoice(): the row and the supersede-mark, or neither.
SaveInvoice(i, r) ==
    rows' = [j \in Stored \cup {i} |->
                IF j = i THEN r
                ELSE IF j = r.supersedes THEN Superseded(rows[j]) ELSE rows[j]]

UpdateStatus(i, status) ==
    rows' = [rows EXCEPT ![i] = [rows[i] EXCEPT !.status = status]]

WithoutSupersedes(i, r) == [r EXCEPT !.supersedes = IF @ = i THEN None ELSE @]
WithoutCredit(i, r) == [r EXCEPT !.creditOf = IF @ = i THEN None ELSE @]

ClearSupersedes(i) == rows' = [j \in Stored |-> WithoutSupersedes(i, rows[j])]
ClearCredit(i) == rows' = [j \in Stored |-> WithoutCredit(i, rows[j])]

\* No stored row refers to i: a Postgres DELETE of i passes its foreign keys.
Unreferenced(i) == \A j \in Stored \ {i} : i \notin {rows[j].supersedes, rows[j].creditOf}

\* Wrong variant of Cascade: invoice_files rows outlive their invoice.
CascadeEvents(i) == links' = {l \in links : l[1] # i} /\ UNCHANGED originals

\* DELETE FROM invoices, with ON DELETE CASCADE on events and invoice_files.
Cascade(i) ==
    /\ links' = {l \in links : l[1] # i}
    /\ originals' = originals \ {i}

DeleteRow(i) ==
    /\ rows' = [j \in Stored \ {i} |-> rows[j]]
    /\ Cascade(i)

\* LocalStore.delete_invoice: the three statements are one transaction.
DeleteCleared(i) ==
    /\ rows' = [j \in Stored \ {i} |-> WithoutCredit(i, WithoutSupersedes(i, rows[j]))]
    /\ Cascade(i)

\* Wrong variant of AddDeadLetter: the failure is only logged.
LogOnly(e, d) == UNCHANGED dead

AddDeadLetter(e, d) == dead' = [f \in Entries \cup {e} |-> IF f = e THEN d ELSE dead[f]]
DeleteDeadLetter(e) == dead' = [f \in Entries \ {e} |-> dead[f]]

-----------------------------------------------------------------------------
(* reconcile_summary: what a row adds to the headline total.               *)

Dec(v) == IF v = None THEN 0 ELSE v

Excluded(r) == r.status = "superseded" \/ r.docType = "non_invoice" \/ ~r.isInvoice
IsCredit(r) == ~Excluded(r) /\ r.docType = "credit_note"
IsSpend(r) == ~Excluded(r) /\ ~IsCredit(r) /\ r.status \in {"clean", "stored"}

Contribution(r) ==
    IF IsCredit(r) THEN -Abs(Dec(r.base)) ELSE IF IsSpend(r) THEN Dec(r.base) ELSE 0
=============================================================================
