------------------------------- MODULE Resolve -------------------------------
(***************************************************************************)
(* The resolution engine (backend/resolve.py): given what was read from an *)
(* incoming document and the rows already stored for its vendor, decide    *)
(* whether it is a duplicate, a revision, a credit note or new.  Pure.     *)
(*                                                                         *)
(* Candidates come from a SELECT without ORDER BY, so "the first hit" of   *)
(* the code is any hit here: Outcomes is the set of possible decisions.    *)
(***************************************************************************)
EXTENDS Integers

CONSTANTS
    None,       \* Python's None / SQL's NULL
    Blank,      \* the empty string
    Ids,        \* uuids
    Vendors,    \* canonical vendor names (vendors.canonical_name is UNIQUE)
    Numbers,    \* spellings of an invoice number a document may carry
    CanonNum,   \* spelling -> " ".join(n.strip().upper().split())
    TolAbs,     \* revision_tolerance_abs, in the unit of the amounts
    TolPct      \* revision_tolerance_pct, in percent

DocTypes == {"invoice", "credit_note", "non_invoice"}
Statuses == {"needs_review", "clean", "stored", "superseded", "credited", "failed"}

ASSUME ResolveAssumption ==
    /\ None \notin Statuses /\ None \notin Int /\ None \notin Ids /\ None \notin Vendors
    /\ None \notin Numbers /\ Blank \in Numbers
    /\ CanonNum \in [Numbers -> Numbers]
    /\ TolAbs \in Nat /\ TolPct \in Nat

OptNumber == Numbers \cup {None}
OptDate == Nat \cup {None}
OptAmount == Int \cup {None}
OptId == Ids \cup {None}

NormNum(n) == IF n \in {None, Blank} THEN None ELSE CanonNum[n]

Abs(x) == IF x < 0 THEN -x ELSE x
Larger(x, y) == IF x < y THEN y ELSE x

MoneyClose(a, b) ==
    /\ a # None /\ b # None
    /\ 100 * Abs(a - b) <= Larger(100 * TolAbs, TolPct * Larger(Abs(a), Abs(b)))

\* Both numbered: same vendor and number.  Incoming unnumbered: the fuzzy key.
\* A numbered (or blank-numbered) document never matches an unnumbered row.
LogicalMatch(inc, e) ==
    /\ inc.vendor = e.vendor
    /\ \/ /\ inc.number \notin {None, Blank} /\ e.number \notin {None, Blank}
          /\ NormNum(inc.number) = NormNum(e.number)
       \/ /\ inc.number = None
          /\ inc.date = None \/ e.date = None \/ inc.date = e.date
          /\ MoneyClose(inc.total, e.total)

IsIdentical(inc, e) == MoneyClose(inc.total, e.total) /\ inc.date = e.date

Earlier(d1, d2) == d1 # None /\ d2 # None /\ d1 < d2

DateKey(d) == IF d = None THEN -1 ELSE d

\* The rows of S that max() may return under the key (version, date or date.min).
Latest(S, cand) ==
    {i \in S : \A j \in S :
        \/ cand[j].version < cand[i].version
        \/ /\ cand[j].version = cand[i].version
           /\ DateKey(cand[j].date) <= DateKey(cand[i].date)}

FindReferenced(inc, cand) ==
    {i \in DOMAIN cand : /\ NormNum(inc.ref) \notin {None, Blank}
                         /\ NormNum(cand[i].number) = NormNum(inc.ref)
                         /\ cand[i].docType # "credit_note"}

\* hits[0] if hits else None
CreditTargets(inc, cand) ==
    IF FindReferenced(inc, cand) = {} THEN {None} ELSE FindReferenced(inc, cand)

Matches(inc, cand) == {i \in DOMAIN cand : LogicalMatch(inc, cand[i])}
ActiveOf(S, cand) == {i \in S : cand[i].status # "superseded"}

\* ResolutionOutcome; mark_superseded_id always equals supersedes_id.
Outcome == [branch : {"logical_duplicate", "revision", "revision_late",
                      "credit_note", "credit_orphan", "new"},
            link : OptId, supersedes : OptId, creditOf : OptId,
            version : Int, hint : {"credited", "superseded"} \cup {None},
            flagged : BOOLEAN]

Decision(branch, link, supersedes, creditOf, version, hint, flagged) ==
    [branch |-> branch, link |-> link, supersedes |-> supersedes, creditOf |-> creditOf,
     version |-> version, hint |-> hint, flagged |-> flagged]

NewOutcome == Decision("new", None, None, None, 1, None, FALSE)

DuplicateOf(i) == Decision("logical_duplicate", i, None, None, 1, None, FALSE)

LinkedCredit(ref) == Decision("credit_note", ref, None, ref, 1, "credited", FALSE)
OrphanCredit == Decision("credit_orphan", None, None, None, 1, "credited", TRUE)

\* Wrong variant of LateRevision: it retires the version it comes after as well.
LateAndRetiring(t, cand) ==
    Decision("revision_late", t, t, None, cand[t].version, "superseded", TRUE)

LateRevision(t, cand) ==
    Decision("revision_late", t, None, None, cand[t].version, "superseded", TRUE)

\* Wrong variant of Revision: the version is not incremented.
SameVersion(t, ref, cand) == Decision("revision", t, t, ref, cand[t].version, None, FALSE)

Revision(t, ref, cand) == Decision("revision", t, t, ref, cand[t].version + 1, None, FALSE)

\* A revised credit note keeps its link to the invoice it credits.
Revisions(inc, t, cand) ==
    {Revision(t, ref, cand) :
        ref \in IF inc.docType = "credit_note" THEN CreditTargets(inc, cand) ELSE {None}}

\* Active rows of the same type that say the same.
Duplicates(inc, cand) ==
    {i \in ActiveOf(Matches(inc, cand), cand) :
        cand[i].docType = inc.docType /\ IsIdentical(inc, cand[i])}

\* active or matches
Pool(inc, cand) ==
    LET active == ActiveOf(Matches(inc, cand), cand)
    IN  IF active # {} THEN active ELSE Matches(inc, cand)

\* Wrong variant of RevisionOutcomes: whatever arrives last is the latest.
ArrivalOrder(inc, cand) == UNION {Revisions(inc, t, cand) : t \in Latest(Pool(inc, cand), cand)}

\* A match that is not identical: the latest one is revised, unless inc is older (R3).
RevisionOutcomes(inc, cand) ==
    UNION {IF Earlier(inc.date, cand[t].date)
           THEN {LateRevision(t, cand)}
           ELSE Revisions(inc, t, cand) : t \in Latest(Pool(inc, cand), cand)}

\* The decisions resolve() may take for inc, the stored rows of its vendor being cand.
Outcomes(inc, cand) ==
    IF Duplicates(inc, cand) # {}
    THEN {DuplicateOf(i) : i \in Duplicates(inc, cand)}
    ELSE IF Pool(inc, cand) # {}
    THEN RevisionOutcomes(inc, cand)
    ELSE IF inc.docType = "credit_note"
    THEN IF FindReferenced(inc, cand) = {} THEN {OrphanCredit}
         ELSE {LinkedCredit(ref) : ref \in FindReferenced(inc, cand)}
    ELSE {NewOutcome}
=============================================================================
