-------------------------------- MODULE Reports --------------------------------
(***************************************************************************)
(* What is computed from rows already fetched: relative periods            *)
(* (backend/daterange.py), the rows of a period (store.summary_rows) and    *)
(* the reconciled summary over them (backend/summary.py), and the activity  *)
(* feed (backend/store.py, build_activity_rows).  Pure functions, no state. *)
(***************************************************************************)
EXTENDS Integers, Sequences, FiniteSetsExt, SequencesExt

CONSTANT None

\* The k-th smallest of some numbers.
Nth(I, k) == CHOOSE i \in I : Cardinality({j \in I : j <= i}) = k

\* The elements of s at the positions I, in their order.
Only(s, I) == [k \in 1 .. Cardinality(I) |-> s[Nth(I, k)]]

-----------------------------------------------------------------------------
(* Dates are [y, m, d]; Iso orders them as their ISO strings are ordered.   *)

Iso(d) == 10000 * d.y + 100 * d.m + d.d

IsLeap(y) == (y % 4 = 0 /\ y % 100 # 0) \/ y % 400 = 0

MonthLength(y, m) ==
    CASE m = 2 -> IF IsLeap(y) THEN 29 ELSE 28
      [] m \in {4, 6, 9, 11} -> 30
      [] OTHER -> 31

IsDate(d) == d.m \in 1 .. 12 /\ d.d \in 1 .. MonthLength(d.y, d.m)

\* Wrong variant of EndOfMonth: every month has thirty days.
EndOfMonth30(d) == [d EXCEPT !.d = 30]

\* _eom
EndOfMonth(d) == [d EXCEPT !.d = MonthLength(d.y, d.m)]

FirstOf(y, m) == [y |-> y, m |-> m, d |-> 1]

\* relativedelta(months=k) from the first of a month
PlusMonths(d, k) == FirstOf(d.y + (d.m - 1 + k) \div 12, ((d.m - 1 + k) % 12) + 1)

DayBefore(d) == IF d.d > 1 THEN [d EXCEPT !.d = @ - 1] ELSE EndOfMonth(PlusMonths(d, -1))

MinusDays(d, n) ==
    LET back[k \in 0 .. n] == IF k = 0 THEN d ELSE DayBefore(back[k - 1]) IN back[n]

Phrases == {"this_month", "last_month", "this_quarter", "last_quarter", "this_year",
            "last_year", "ytd", "last_7_days", "last_30_days", "all_time"}

Span(from, to) == [from |-> from, to |-> to]

QuarterOf(first) == Span(first, EndOfMonth(PlusMonths(first, 2)))

\* resolve_date_range, for a phrase of the enumeration
Resolved(phrase, today) ==
    LET month == FirstOf(today.y, today.m)
        quarter == FirstOf(today.y, ((today.m - 1) \div 3) * 3 + 1)
        year == FirstOf(today.y, 1)
    IN  CASE phrase = "this_month"   -> Span(month, EndOfMonth(today))
          [] phrase = "last_month"   -> Span(PlusMonths(month, -1), EndOfMonth(PlusMonths(month, -1)))
          [] phrase = "this_quarter" -> QuarterOf(quarter)
          [] phrase = "last_quarter" -> QuarterOf(PlusMonths(quarter, -3))
          [] phrase = "this_year"    -> Span(year, [y |-> today.y, m |-> 12, d |-> 31])
          [] phrase = "last_year"    -> Span([year EXCEPT !.y = @ - 1], [y |-> today.y - 1, m |-> 12, d |-> 31])
          [] phrase = "ytd"          -> Span(year, today)
          [] phrase = "last_7_days"  -> Span(MinusDays(today, 6), today)
          [] phrase = "last_30_days" -> Span(MinusDays(today, 29), today)
          [] phrase = "all_time"     -> Span(None, None)

-----------------------------------------------------------------------------
(* summary_rows and reconcile_summary over a sequence of invoice rows       *)
(* [date, docType, status, isInvoice, base, category, vendor].              *)

\* Wrong variant of InPeriod: the last day is left out.
InPeriodOpen(row, p) ==
    /\ p.from # None => row.date # None /\ Iso(row.date) >= Iso(p.from)
    /\ p.to # None => row.date # None /\ Iso(row.date) < Iso(p.to)

\* A comparison with a missing date is not true: an undated row is in no bounded period.
InPeriod(row, p) ==
    /\ p.from # None => row.date # None /\ Iso(row.date) >= Iso(p.from)
    /\ p.to # None => row.date # None /\ Iso(row.date) <= Iso(p.to)

\* Rows come in no order: they stay under the keys they have.
SummaryRows(rows, p) == Restrict(rows, {i \in DOMAIN rows : InPeriod(rows[i], p)})

SumOf(values, I) == MapThenSumSet(LAMBDA i : values[i], I)

Magnitude(n) == IF n < 0 THEN -n ELSE n
Amount(v) == IF v = None THEN 0 ELSE v

Skipped(row) == row.status = "superseded" \/ row.docType = "non_invoice" \/ ~row.isInvoice

\* Where a row that is not skipped goes by its status alone.
ByStatus(status) ==
    CASE status \in {"needs_review", "failed"} -> "pending"
      [] status \in {"clean", "stored"} -> "spend"
      [] OTHER -> "none"

\* The kind of figure a row goes into.
Bucket(row) ==
    IF Skipped(row) THEN "skipped" ELSE IF row.docType = "credit_note" THEN "credit" ELSE ByStatus(row.status)

Category(row) == IF row.category = None THEN "Uncategorized" ELSE row.category
Vendor(row) == IF row.vendor = None THEN "Unknown" ELSE row.vendor

Summary(rows) ==
    LET of(bucket) == {i \in DOMAIN rows : Bucket(rows[i]) = bucket}
        base == [i \in DOMAIN rows |-> Amount(rows[i].base)]
        credits == SumOf([i \in DOMAIN rows |-> Magnitude(base[i])], of("credit"))
        by(Key(_)) == [k \in {Key(rows[i]) : i \in of("spend")} |->
                          SumOf(base, {i \in of("spend") : Key(rows[i]) = k})]
    IN  [spend |-> SumOf(base, of("spend")) - credits,
         counted |-> Cardinality(of("spend")),
         credits |-> credits,
         pending |-> SumOf(base, of("pending")),
         review |-> Cardinality({i \in of("pending") : rows[i].status = "needs_review"}),
         byCategory |-> by(Category),
         byVendor |-> by(Vendor)]

-----------------------------------------------------------------------------
(* build_activity_rows.  An event is [type, ts, branch, email]: branch and  *)
(* email are what its detail holds, None when absent.                       *)

FirstEvent(evs, type) ==
    IF \E i \in DOMAIN evs : evs[i].type = type
    THEN evs[Min({i \in DOMAIN evs : evs[i].type = type})] ELSE None

Or(a, b) == IF a # None THEN a ELSE b

\* Wrong variant of Duration: up to the last event.
DurationToLast(evs) ==
    IF FirstEvent(evs, "received") = None THEN None ELSE evs[Len(evs)].ts - FirstEvent(evs, "received").ts

\* _duration_ms: from received to stored; missing or negative gives none.
Duration(evs) ==
    LET received == FirstEvent(evs, "received")
        stored == FirstEvent(evs, "stored")
    IN  IF None \in {received, stored} \/ stored.ts < received.ts THEN None
        ELSE stored.ts - received.ts

DocTypeBranch(t) == CASE t = "credit_note" -> "credit_note" [] t = "non_invoice" -> "non_invoice" [] OTHER -> "new"

InvoiceRow(inv, evs) ==
    LET received == FirstEvent(evs, "received")
        resolved == FirstEvent(evs, "resolved")
        arrival == IF received = None THEN inv.date ELSE Or(Or(received.email, received.ts), inv.date)
    IN  [entry |-> inv.id,
         branch |-> Or(IF resolved = None THEN None ELSE resolved.branch, DocTypeBranch(inv.docType)),
         arrival |-> arrival,
         duration |-> Duration(evs),
         ts |-> IF evs = << >> THEN arrival ELSE evs[Len(evs)].ts]

DeadRow(dl) == [entry |-> dl.id, branch |-> "dead_letter", arrival |-> None, duration |-> None, ts |-> dl.ts]

\* _sort_dt: what has no time sorts last.
SortKey(row) == Or(row.ts, 0)

FeedRows(invoices, events, deadLetter) ==
    [i \in DOMAIN invoices |-> InvoiceRow(invoices[i], events[invoices[i].id])]
        \o [i \in DOMAIN deadLetter |-> DeadRow(deadLetter[i])]

\* The positions that come no later than i once a feed is sorted: equal keys stay as they were.
NotAfter(feed, i) ==
    {j \in DOMAIN feed : \/ SortKey(feed[j]) > SortKey(feed[i])
                         \/ (SortKey(feed[j]) = SortKey(feed[i]) /\ j <= i)}

NewestFirst(feed) == [k \in DOMAIN feed |-> feed[CHOOSE i \in DOMAIN feed : Cardinality(NotAfter(feed, i)) = k]]

ActivityFeed(invoices, events, deadLetter) == NewestFirst(FeedRows(invoices, events, deadLetter))
=============================================================================
