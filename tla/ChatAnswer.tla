------------------------------ MODULE ChatAnswer ------------------------------
(***************************************************************************)
(* What a chat answer is made of: the history the model is given, the       *)
(* results of the read-only tools (backend/chat_tools.py) and the checks    *)
(* run_chat puts an answer through (backend/chat.py).  Pure functions over  *)
(* one reading of the ledger.                                               *)
(*                                                                         *)
(* A number is an integer in hundredths, so that fractions and percentages  *)
(* can be told apart; text is reduced to the number it spells or the years  *)
(* it mentions; names of vendors, and the UUIDs an audit trail links rows   *)
(* by, mention neither.  A result is the set of its leaves, each with the   *)
(* keys of the dictionaries it lies under.  A call has, besides its         *)
(* arguments, its words: what its query says.                               *)
(***************************************************************************)
EXTENDS Reports

CONSTANTS
    View,         \* the ledger as the tools see it: [rows, vendors, aliases, dead, runs], the last two as the fields
                  \* shown; so are a row's other columns and its lines, taxes and events
    Today,        \* the server's date
    Statuses,     \* STATUS_ENUM
    Budget,       \* chat_history_token_budget
    MaxHistory,   \* _MAX_HISTORY_TURNS
    DefaultLimit, \* _DEFAULT_LIMIT
    MaxLimit      \* _MAX_LIMIT

\* The columns of the lists of runs and of failed documents.
RunFields == {"id", "started_at", "finished_at", "processed", "skipped", "failed"}

DeadFields == {"id", "source_ref", "error", "tries", "last_try"}

ASSUME AnswerAssumption ==
    /\ View.rows \in Seq(ToSet(View.rows)) /\ View.dead \in Seq(ToSet(View.dead)) /\ View.runs \in Seq(ToSet(View.runs))
    /\ \A row \in ToSet(View.rows) : \A part \in {row.lines, row.taxes, row.events} : part \in Seq(ToSet(part))
    /\ IsFiniteSet(View.vendors) /\ IsFiniteSet(Statuses)
    /\ \A v \in View.vendors : View.aliases[v] \in 0 .. 1
    /\ {Budget, MaxHistory, DefaultLimit, MaxLimit} \subseteq Nat
    /\ \A entry \in ToSet(View.dead) : DeadFields \subseteq DOMAIN entry
    /\ \A entry \in ToSet(View.runs) : RunFields \subseteq DOMAIN entry

Unit == 100

-----------------------------------------------------------------------------
(* _trim over messages [text, cost]: from the newest back, while they fit.  *)

NonEmpty(history) == Only(history, {i \in DOMAIN history : history[i].text # None})

Cost(history) == SumOf([i \in DOMAIN history |-> history[i].cost], DOMAIN history)

LastOf(history, n) == SubSeq(history, Len(history) - n + 1, Len(history))

\* Wrong variant of Trim: from the oldest on.
TrimOldest(history) ==
    LET told == NonEmpty(history)
        fits == {n \in 1 .. Len(told) : Cost(SubSeq(told, 1, n)) <= Budget}
    IN  SubSeq(told, 1, Max(fits \cup {IF told = << >> THEN 0 ELSE 1}))

Trim(history) ==
    LET told == NonEmpty(history)
        fits == {n \in 1 .. Len(told) : Cost(LastOf(told, n)) <= Budget}
    IN  LastOf(told, Max(fits \cup {IF told = << >> THEN 0 ELSE 1}))

\* chat_endpoint hands over at most so many turns of what the client sent.
Handed(history, question) ==
    LastOf(history, Min({MaxHistory, Len(history)})) \o <<question>>

-----------------------------------------------------------------------------
(* Tool results, each with its source.                                     *)

Leaf(n, years) == [keys |-> {}, n |-> n, years |-> years]

Num(n) == {Leaf(n, {})}
NumOrNull(n) == IF n = None THEN {} ELSE Num(n)
Text(number, years) == {Leaf(number, years)}
Words == Text(None, {})
Flag == {}

Under(key, leaves) == {[keys |-> leaf.keys \cup {key}, n |-> leaf.n, years |-> leaf.years] : leaf \in leaves}

Dict(fields) == UNION {Under(k, fields[k]) : k \in DOMAIN fields}

\* A list tells its length as well.
List(items) == Num(Len(items) * Unit) \cup UNION {items[i] : i \in DOMAIN items}

DateText(d) == IF d = None THEN {} ELSE Text(None, {d.y})

Answered(src, leaves) == [src |-> src, failed |-> FALSE, period |-> None, value |-> leaves]

Result(src, fields) == Answered(src, Dict(fields))

Error(src, fields) == [Result(src, fields) EXCEPT !.failed = TRUE]

Failed(src) == Error(src, [error |-> Words])

\* An error, with the values that were allowed.
Refused(src, allowed) ==
    Error(src, [error |-> Words, allowed |-> List([i \in 1 .. Cardinality(allowed) |-> Words])])

\* _clamp
Clamp(limit, default, cap) ==
    IF limit = None THEN Max({1, Min({default, cap})}) ELSE Max({1, Min({limit, cap})})

\* _date_error: malformed dates and inverted ranges.
DateError(p) ==
    \/ \E d \in {p.from, p.to} : d # None /\ ~IsDate(d)
    \/ None \notin {p.from, p.to} /\ Iso(p.from) > Iso(p.to)

\* The columns of a row that lists show a choice of.
Fields(row) ==
    [id |-> Text(row.id, {}), invoice_number |-> Text(row.number, {}), invoice_date |-> DateText(row.date),
     total |-> NumOrNull(row.total), base_total |-> NumOrNull(row.base),
     confidence_overall |-> NumOrNull(row.confidence), status |-> Words]

Lean(rows, keys) == List([i \in DOMAIN rows |-> Dict([k \in keys \cup {"id", "invoice_number", "total", "status"} |-> Fields(rows[i])[k]])])

Page(rows, limit) == SubSeq(rows, 1, Min({limit, Len(rows)}))

Count(s) == Num(Len(s) * Unit)

\* The rows of the ledger that satisfy Test, in order.
Where(Test(_)) == Only(View.rows, {i \in DOMAIN View.rows : Test(View.rows[i])})

RowOf(id) == Where(LAMBDA row : row.id = id)

Pending == Where(LAMBDA row : row.status \in {"needs_review", "failed"})

Amounts(by) == Dict([k \in DOMAIN by |-> Num(by[k])])

ExpenseSummary(p) ==
    LET s == Summary(SummaryRows(View.rows, p)) IN
    [Result("summary",
        [total_spend |-> Num(s.spend), invoices_counted |-> Num(s.counted * Unit),
         credits_total |-> Num(s.credits), pending_review_excluded |-> Num(s.pending),
         needs_review_count |-> Num(s.review * Unit),
         by_category |-> Amounts(s.byCategory), by_vendor |-> Amounts(s.byVendor),
         date_from |-> DateText(p.from), date_to |-> DateText(p.to)])
     EXCEPT !.period = IF p.from = None THEN None ELSE p]

\* Rows of list_dead_letter or list_runs, with the keys a tool shows.
Entries(entries, keys) == List([i \in DOMAIN entries |-> Dict([k \in keys |-> entries[i][k]])])

\* What a row has besides its columns, each with all that it holds.
All(part) == List([i \in DOMAIN part |-> Dict(part[i])])

\* get_invoice, but for its files
Detail(row) ==
    Dict(Fields(row)) \cup Dict(row.columns)
        \cup Dict([line_items |-> All(row.lines), tax_lines |-> All(row.taxes), events |-> All(row.events)])

\* list_vendors: a vendor has the name it was first read under as an alias, where that is another.
Vendors ==
    Num(Cardinality(View.vendors) * Unit)
        \cup UNION {Dict([aliases |-> List([i \in 1 .. View.aliases[v] |-> Words])]) : v \in View.vendors}

\* The first of a list of rows, with their number.
Invoices(rows, limit, keys) ==
    [invoices |-> Lean(Page(rows, limit), keys), count |-> Count(Page(rows, limit)), truncated |-> Flag]

Tools == {"resolve_date_range", "get_expense_summary", "list_invoices", "get_invoice", "explain_invoice",
          "search_invoices_by_vendor", "get_review_queue", "get_review_counts", "list_vendors", "list_runs",
          "get_dead_letter"}

\* The tool's result, tagged with its source.  A list query does not tell its period.
Execute(call) ==
    LET p == Span(call.from, call.to)
        limit == Clamp(call.limit, DefaultLimit, MaxLimit)
        of(status) == Where(LAMBDA row : (status = None \/ row.status = status) /\ InPeriod(row, p))
        row == RowOf(call.id)
    IN  CASE call.tool = "resolve_date_range" ->
               IF call.phrase \notin Phrases THEN Refused("daterange", Phrases)
               ELSE LET r == Resolved(call.phrase, Today) IN
                    [Result("daterange", [date_from |-> DateText(r.from), date_to |-> DateText(r.to)])
                     EXCEPT !.period = r]
          [] call.tool = "get_expense_summary" ->
               IF DateError(p) THEN Failed("summary") ELSE ExpenseSummary(p)
          [] call.tool = "list_invoices" ->
               IF call.status # None /\ call.status \notin Statuses THEN Refused("list_invoices", Statuses)
               ELSE IF DateError(p) THEN Failed("list_invoices")
               ELSE Result("list_invoices", Invoices(of(call.status), limit, {"invoice_date", "base_total"}))
          [] call.tool = "get_invoice" ->
               IF row = << >> THEN Failed("invoice") ELSE Answered("invoice", Detail(row[1]))
          [] call.tool = "explain_invoice" ->
               IF row = << >> THEN Failed("events")
               ELSE Result("events", [invoice_id |-> Text(call.id, {}), status |-> Words,
                                      confidence_overall |-> NumOrNull(row[1].confidence), events |-> All(row[1].events)])
          [] call.tool = "search_invoices_by_vendor" ->
               IF call.vendor = None THEN Failed("vendor")
               ELSE IF call.vendor \notin View.vendors THEN
                    Result("vendor", [matched |-> Flag, query |-> call.words, known_vendors |->
                                          List([i \in 1 .. Min({8, Cardinality(View.vendors)}) |-> Words])])
               ELSE LET page == Invoices(Where(LAMBDA r : r.vendor = call.vendor), limit, {"invoice_date"}) IN
                    Result("vendor:", [vendor |-> Dict([score |-> Num(100 * Unit)]),
                                       invoices |-> page.invoices, count |-> page.count, truncated |-> Flag])
          [] call.tool = "get_review_queue" ->
               Result("review_queue", [needs_review |-> Lean(Pending, {"confidence_overall"}),
                                       needs_review_count |-> Count(Pending),
                                       dead_letter |-> Entries(View.dead, {"id", "source_ref", "error"})])
          [] call.tool = "get_review_counts" ->
               Result("review_counts", [needs_review |-> Count(Pending), dead_letter |-> Count(View.dead),
                                        total |-> Count(Pending \o View.dead)])
          [] call.tool = "list_vendors" ->
               Result("vendors", [vendors |-> Vendors])
          [] call.tool = "list_runs" ->
               Result("runs", [runs |-> Entries(Page(View.runs, Clamp(call.limit, 10, 20)), RunFields)])
          [] call.tool = "get_dead_letter" ->
               Result("dead_letter", [dead_letter |-> Entries(View.dead, DeadFields), count |-> Count(View.dead)])
          [] OTHER -> Error(call.tool, [error |-> Words, name |-> call.words])

\* execute: it never raises; a tool that does has failed.
Returns(call) == {Execute(call)} \cup (IF call.tool \in Tools THEN {Failed(call.tool)} ELSE {})

-----------------------------------------------------------------------------
(* Grounding: every number of an answer must come from a quantity.          *)

DenyKeys == {"id", "invoice_id", "vendor_id", "supersedes_id", "credit_of_id", "file_hash", "source",
             "source_ref", "invoice_number", "referenced_invoice_number", "conversation_id", "tool_call_id"}

\* _add_value: a fraction may be stated as a percentage.
AddValue(n) == {n} \cup (IF 0 < n /\ n <= Unit THEN {n * 100} ELSE {})

\* What a leaf tells: a number, or the years in a text.
Told(leaf) == IF leaf.n # None THEN AddValue(leaf.n) ELSE {y * Unit : y \in leaf.years}

\* Wrong variant of Collect: identifiers are quantities too.
CollectAll(leaves) == UNION {Told(leaf) : leaf \in leaves}

\* _collect: what lies under no identifier's key
Collect(leaves) == UNION {Told(leaf) : leaf \in {l \in leaves : l.keys \cap DenyKeys = {}}}

Allowed(results) == UNION {Collect(results[i].value) : i \in DOMAIN results}

\* A token of the answer is [n, percent].
Candidates(tok) == {tok.n} \cup (IF tok.percent /\ tok.n % 100 = 0 THEN {tok.n \div 100} ELSE {})

Grounded(tokens, results) == \A tok \in tokens : Candidates(tok) \cap Allowed(results) # {}

\* _build_result: the last result that can be rendered makes the card.
Renderable(r) == ~r.failed /\ r.src \in {"summary", "invoice", "list_invoices", "vendor:", "review_queue"}

Card(results) ==
    LET can == {i \in DOMAIN results : Renderable(results[i])}
    IN  IF can = {} THEN None ELSE results[Max(can)]

\* The first resolved period a summary was asked for.
ResolvedRange(results) ==
    LET applied == {results[i].period : i \in {j \in DOMAIN results : results[j].src = "summary"}} \ {None}
        named == {i \in DOMAIN results : results[i].src = "daterange" /\ results[i].period \in applied}
    IN  IF named = {} THEN None ELSE results[Min(named)].period

\* _finish
Finish(tokens, results) ==
    LET ok == Grounded(tokens, results)
    IN  [tokens |-> IF ok THEN tokens ELSE {}, grounded |-> ok,
         card |-> IF ok THEN Card(results) ELSE None, range |-> ResolvedRange(results)]

=============================================================================
