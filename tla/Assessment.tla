------------------------------ MODULE Assessment ------------------------------
(***************************************************************************)
(* The deterministic judgement of an extraction: dates and currencies       *)
(* (backend/normalize.py), reconciliation, confidence and status            *)
(* (backend/validate.py) and conversion (backend/fx.py).  Pure functions.   *)
(*                                                                         *)
(* Amounts are in hundredths; confidences in hundredths of one.             *)
(***************************************************************************)
EXTENDS Reports

CONSTANTS
    TolAbs, TolPct,  \* totals_tolerance_abs, and totals_tolerance_pct in percent
    Threshold,       \* confidence_review_threshold
    BaseCurrency,    \* base_currency
    MonthFirst       \* _MONTH_FIRST_CURRENCIES

-----------------------------------------------------------------------------
(* Dates.  What the model read is None, [form |-> "iso"], [form |-> "numeric"] *)
(* with its three numbers, or [form |-> "words"] with what the date library *)
(* makes of it in either order.                                             *)

SafeDate(y, m, d) ==
    LET date == [y |-> y, m |-> m, d |-> d]
    IN  IF IsDate(date) THEN [date |-> date, ambiguous |-> FALSE] ELSE [date |-> None, ambiguous |-> TRUE]

Flagged(dated) == [dated EXCEPT !.ambiguous = TRUE]

\* _day_first_hint: "yes", "no", or None when there is no currency to go by; three numbers are then
\* read day first, a date with words month first.
DayFirst(currency) == IF currency = None THEN None ELSE IF currency \in MonthFirst THEN "no" ELSE "yes"

\* Wrong variant of Numeric: the currency's convention is taken to settle the order.
NumericUnflagged(a, b, year, dayFirst) ==
    CASE a > 12 /\ b > 12                    -> [date |-> None, ambiguous |-> TRUE]
      [] a <= 12 /\ b > 12                   -> SafeDate(year, a, b)
      [] b <= 12 /\ (a > 12 \/ a = b)        -> SafeDate(year, b, a)
      [] OTHER                               -> IF dayFirst # "no" THEN SafeDate(year, b, a) ELSE SafeDate(year, a, b)

\* A date of three numbers that ends in its year.
Numeric(a, b, year, dayFirst) ==
    CASE a > 12 /\ b > 12                    -> [date |-> None, ambiguous |-> TRUE]
      [] a <= 12 /\ b > 12                   -> SafeDate(year, a, b)
      [] b <= 12 /\ (a > 12 \/ a = b)        -> SafeDate(year, b, a)
      [] OTHER                               -> Flagged(IF dayFirst # "no" THEN SafeDate(year, b, a) ELSE SafeDate(year, a, b))

\* normalize_date.  No date at all is not ambiguous.
NormalizeDate(raw, dayFirst) ==
    IF raw = None THEN [date |-> None, ambiguous |-> FALSE]
    ELSE CASE raw.form = "iso"      -> SafeDate(raw.a, raw.b, raw.c)
           [] raw.form = "numeric"  -> IF raw.a > 999 THEN SafeDate(raw.a, raw.b, raw.c)
                                       ELSE Numeric(raw.a, raw.b, IF raw.c > 99 THEN raw.c ELSE 2000 + raw.c, dayFirst)
           [] raw.form = "words"    -> LET read == raw.read[dayFirst = "yes"] IN [date |-> read, ambiguous |-> read = None]

-----------------------------------------------------------------------------
(* Currencies.  A text is a symbol, a word or three letters, each with the  *)
(* code it stands for, or else the symbols found in it.                     *)

\* _SYMBOLS, in order; "$" is found in "A$" and "C$" too.
SymbolCodes == <<"USD", "USD", "GBP", "EUR", "INR", "JPY", "CAD", "AUD", "KRW", "ILS">>

\* normalize_currency
NormalizeCurrency(raw) ==
    IF raw = None THEN None
    ELSE IF raw.code = None /\ raw.symbols # {} THEN SymbolCodes[Min(raw.symbols)]
    ELSE raw.code

\* quantize with ROUND_HALF_UP, from hundredths of the unit
HalfUp(n) == IF n < 0 THEN -((-n + 50) \div 100) ELSE (n + 50) \div 100

\* convert_to_base: [base, ok]; rate is None when there is none, in percent otherwise.
ConvertToBase(amount, currency, rate) ==
    IF amount = None \/ currency \in {None, BaseCurrency} THEN [base |-> amount, ok |-> TRUE]
    ELSE [base |-> IF rate = None THEN None ELSE HalfUp(amount * rate), ok |-> rate # None]

-----------------------------------------------------------------------------
(* Validation.  An extraction's line items and tax lines are their sums,    *)
(* None when there are none.                                                *)

\* _within
Within(diff, base) == 100 * Magnitude(diff) <= Max({100 * TolAbs, TolPct * Magnitude(Amount(base))})

\* The breakdowns a total may be explained by.
Breakdowns(e) ==
    LET extra == Amount(e.tax) + Amount(e.shipping)
    IN  (IF e.subtotal = None THEN {} ELSE {e.subtotal - Amount(e.discount) + extra + Amount(e.fees)})
        \cup (IF e.items = None THEN {} ELSE {e.items - Amount(e.discount) + extra, e.items + Amount(e.tax)})

ExplainedByItems(e) ==
    /\ e.total # None
    /\ \/ Within(e.items - Amount(e.discount) + Amount(e.tax) + Amount(e.shipping) - e.total, e.total)
       \/ Within(e.items + Amount(e.tax) - e.total, e.total)

\* reconcile
Reconcile(e) ==
    [totals |-> e.total = None \/ Breakdowns(e) = {} \/ \E c \in Breakdowns(e) : Within(c - e.total, e.total),
     taxes |-> None \in {e.taxLines, e.tax} \/ Within(e.taxLines - e.tax, e.tax),
     lines |-> None \in {e.items, e.subtotal} \/ Within(e.items - e.subtotal, e.subtotal) \/ ExplainedByItems(e)]

Clamped(x, top) == Max({0, Min({top, x})})

Less(doubt, points) == IF doubt THEN points ELSE 0

\* Wrong variant of Confidence: a missing total is worth no more doubt than a missing name.
ConfidenceLenient(e, v, ambiguous) ==
    LET det == Clamped(100 - Less(~v.totals, 40) - Less(~v.taxes, 15) - Less(~v.lines, 15) - Less(ambiguous, 20)
                           - Less(e.number = None, 10) - Less(e.total = None, 10) - Less(e.vendor = None, 10), 100)
    IN  Clamped(80 * det + 20 * (IF e.self = None THEN 70 ELSE e.self), 10000)

\* compute_confidence, in hundredths of a percent; the pipeline knows no handwriting.
Confidence(e, v, ambiguous) ==
    LET det == Clamped(100 - Less(~v.totals, 40) - Less(~v.taxes, 15) - Less(~v.lines, 15) - Less(ambiguous, 20)
                           - Less(e.number = None, 10) - Less(e.total = None, 40) - Less(e.vendor = None, 10), 100)
    IN  Clamped(80 * det + 20 * (IF e.self = None THEN 70 ELSE e.self), 10000)

\* decide_status over reconcile and compute_confidence
Assess(e, ambiguous) ==
    LET v == Reconcile(e)
    IN  IF v.totals /\ v.taxes /\ v.lines /\ ~ambiguous /\ Confidence(e, v, ambiguous) >= 100 * Threshold
        THEN "clean" ELSE "needs_review"
=============================================================================
