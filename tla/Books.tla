--------------------------------- MODULE Books ---------------------------------
(***************************************************************************)
(* The reports over a ledger that grows while days pass: an invoice is      *)
(* stored, the audit trail of the first one is written on, the clock goes   *)
(* to the next day.  It gives Reports its inputs.                           *)
(***************************************************************************)
EXTENDS Reports

CONSTANTS
    Days,       \* the days the clock may show
    Offered,    \* day -> the rows that may be stored on it
    FeedLimit,  \* ACTIVITY_FEED_LIMIT
    MaxSteps    \* bound: rows stored and events logged

Date == {d \in [y : Int, m : 1 .. 12, d : 1 .. 31] : IsDate(d)}

EventTypes == {"received", "resolved", "stored", "review"}

Events == [type : EventTypes, ts : Nat, branch : {"revision", None}, email : {None}]

Event(type, ts) == [type |-> type, ts |-> ts, branch |-> IF type = "resolved" THEN "revision" ELSE None, email |-> None]

\* The date and the amount of a row, as the pipeline saves it.
Booked(row) == row.date \in Date \cup {None} /\ row.base \in Int \cup {None}

ASSUME BooksAssumption ==
    /\ Days \subseteq Date /\ FeedLimit \in Nat
    /\ \A day \in Days : \A row \in Offered[day] : Booked(row)
    /\ None \notin Int \cup Date \cup Events \cup {"revision"}

VARIABLES
    today,
    rows,       \* invoices in the order of created_at, each with its position as its id
    log         \* events of the first invoice

vars == <<today, rows, log>>

Init == today \in Days /\ rows = << >> /\ log = << >>

DayAfter(d) ==
    IF d.d < MonthLength(d.y, d.m) THEN [d EXCEPT !.d = @ + 1] ELSE PlusMonths(FirstOf(d.y, d.m), 1)

NextDay ==
    /\ today' = DayAfter(today) /\ today' \in Days
    /\ UNCHANGED <<rows, log>>

MoreSteps == Len(rows) + Len(log) < MaxSteps

Store ==
    /\ MoreSteps
    /\ \E row \in Offered[today] : rows' = Append(rows, row)
    /\ UNCHANGED <<today, log>>

Log ==
    /\ MoreSteps
    /\ rows # << >>
    /\ \E type \in EventTypes : log' = Append(log, Event(type, Len(log) + 1))
    /\ UNCHANGED <<today, rows>>

Next == NextDay \/ Store \/ Log

Spec == Init /\ [][Next]_vars

-----------------------------------------------------------------------------
(* Properties.                                                              *)

PeriodOf(phrase) == Resolved(phrase, today)

\* A period and the one of its kind before it.
Adjacent == {<<"last_month", "this_month">>, <<"last_quarter", "this_quarter">>, <<"last_year", "this_year">>}

\* The days back to the first of a period, from today.
DaysSince(first, most) == {k \in 0 .. most : Iso(MinusDays(today, k)) >= Iso(first)}

\* daterange.py:33-69: on every day, this month, quarter and year hold today; the last ones end on
\* the day before they begin and begin where a period of that kind does; and the rolling periods
\* have as many days as their name says.
PeriodsTile ==
    /\ \A p \in Phrases \ {"all_time"} : IsDate(PeriodOf(p).from) /\ IsDate(PeriodOf(p).to) /\ Iso(PeriodOf(p).from) <= Iso(PeriodOf(p).to)
    /\ \A pair \in Adjacent :
         LET last == PeriodOf(pair[1])
             this == PeriodOf(pair[2])
         IN  /\ DayAfter(last.to) = this.from
             /\ Iso(this.from) <= Iso(today) /\ Iso(today) <= Iso(this.to)
             /\ last = Resolved(pair[2], last.from)
    /\ Cardinality(DaysSince(PeriodOf("last_7_days").from, 40)) = 7
    /\ Cardinality(DaysSince(PeriodOf("last_30_days").from, 40)) = 30

Of(p) == Summary(SummaryRows(rows, p))

Total(by) == SumOf(by, DOMAIN by)

\* summary.py:33-63 with store.py:551-573: the breakdowns and the credits add up to the headline,
\* and two adjacent periods to the period they make up, so that no invoice dated on a boundary is
\* counted in both or in neither; what only the overview counts has no date.
SummaryAdds ==
    /\ \A s \in {Of(PeriodOf(p)) : p \in Phrases} :
         s.spend = Total(s.byCategory) - s.credits /\ Total(s.byVendor) = Total(s.byCategory)
    /\ \A pair \in Adjacent :
         LET last == PeriodOf(pair[1])
             this == PeriodOf(pair[2])
             both == Of(Span(last.from, this.to))
             before == Of(Span(None, last.to))
             since == Of(Span(this.from, None))
         IN  /\ both.spend = Of(last).spend + Of(this).spend
             /\ both.credits = Of(last).credits + Of(this).credits
             /\ both.counted = Of(last).counted + Of(this).counted
             /\ both.pending = Of(last).pending + Of(this).pending
             /\ Of(Span(None, None)).counted - (before.counted + since.counted)
                  = Cardinality({i \in DOMAIN rows : rows[i].date = None /\ Bucket(rows[i]) = "spend"})

\* Wrong variant of Newest: ORDER BY created_at, without DESC.
Oldest(k) == k

\* ORDER BY created_at DESC: the k-th row of the query.
Newest(k) == Len(rows) + 1 - k

\* LIMIT: how many rows the query fetches.
Fetched == Min({FeedLimit, Len(rows)})

\* activity_feed: the rows stored last, their events, and every dead letter.
Feed ==
    ActivityFeed([k \in 1 .. Fetched |-> LET i == Newest(k) IN
                    [id |-> i, docType |-> rows[i].docType, date |-> IF rows[i].date = None THEN None ELSE 0]],
                 [i \in DOMAIN rows |-> IF i = 1 THEN log ELSE << >>],
                 <<[id |-> 0, ts |-> 2]>>)

\* The feed is the live tail of the ledger: it holds each of the documents stored last once, as
\* many as its limit lets through, and no older one whatever was logged for it since, with every
\* dead letter once, newest first; a superseding document keeps its branch whatever is logged after
\* it was resolved (store.py:74-76,118-173,373-399, store_pg.py:178-193).
FeedIsTail ==
    LET shown == {i \in DOMAIN rows : i > Len(rows) - FeedLimit} IN
    /\ Len(Feed) = Cardinality(shown) + 1
    /\ {Feed[k].entry : k \in DOMAIN Feed} = shown \cup {0}
    /\ \A k \in 1 .. Len(Feed) - 1 : SortKey(Feed[k]) >= SortKey(Feed[k + 1])
    /\ \A k \in DOMAIN Feed : Feed[k].entry = 1 /\ FirstEvent(log, "resolved") # None => Feed[k].branch = "revision"

\* store.py:103-105: what is logged after a document was stored cannot change its processing time.
DurationIsFinal == [][FirstEvent(log, "stored") # None => Duration(log') = Duration(log)]_vars
=============================================================================
