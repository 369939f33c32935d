------------------------------- MODULE MCIntake -------------------------------
(***************************************************************************)
(* A small instance of Intake for TLC: five files that split, chunk, mix    *)
(* text with scans, cannot be read or need no model, and eight extractions. *)
(***************************************************************************)
EXTENDS Intake

CONSTANTS bundle, scan, mixed, broken, logo, n1, n2, acme

Sheet(number, digital) == [number |-> number, digital |-> digital]
Pdf(pages) == [kind |-> "pdf", readable |-> TRUE, junk |-> FALSE, pages |-> pages]

MCContents ==
    (bundle :> Pdf(<<Sheet(None, TRUE), Sheet(n1, TRUE), Sheet(None, TRUE), Sheet(n2, TRUE)>>))
    @@ (scan :> Pdf(<<Sheet(None, FALSE), Sheet(None, FALSE), Sheet(None, FALSE)>>))
    @@ (mixed :> Pdf(<<Sheet(n1, TRUE), Sheet(None, FALSE)>>))
    @@ (broken :> [Pdf(<<Sheet(None, FALSE)>>) EXCEPT !.readable = FALSE])
    @@ (logo :> [kind |-> "image", readable |-> TRUE, junk |-> TRUE, pages |-> <<Sheet(None, FALSE)>>])

MCSelections == {<<bundle>>, <<scan, broken>>, <<mixed, logo>>}

Currency(code) == [code |-> code, symbols |-> {}]
Iso3(y, m, d) == [form |-> "iso", a |-> y, b |-> m, c |-> d]
Slashed(a, b, c) == [form |-> "numeric", a |-> a, b |-> b, c |-> c]

\* 100.00 net, 20.00 tax
Plain ==
    [vendor |-> acme, number |-> n1, currency |-> Currency("GBP"), date |-> Iso3(2024, 2, 29), subtotal |-> 10000,
     discount |-> None, tax |-> 2000, shipping |-> None, fees |-> None, taxLines |-> 2000, items |-> 10000,
     total |-> 12000, self |-> 95]

MCExtractions ==
    {Plain,
     [Plain EXCEPT !.total = None, !.currency = None],
     [Plain EXCEPT !.total = None, !.self = 9500, !.vendor = None],
     [Plain EXCEPT !.total = 12120, !.items = None, !.currency = Currency("USD"), !.date = Slashed(3, 4, 24)],
     [Plain EXCEPT !.total = 12121, !.currency = [code |-> None, symbols |-> {1, 8}], !.date = Slashed(31, 4, 2024)],
     [Plain EXCEPT !.number = None, !.self = 40, !.date = Slashed(31, 12, 2024)],
     [Plain EXCEPT !.fees = 500, !.total = 12500, !.taxLines = None, !.subtotal = None, !.currency = Currency("EUR"),
                   !.date = [form |-> "words", read |-> [dayFirst \in BOOLEAN |-> [y |-> 2024, m |-> 5, d |-> 1]]]],
     [Plain EXCEPT !.self = None, !.date = Slashed(2024, 5, 1), !.discount = 100, !.subtotal = 10100, !.items = 12000,
                   !.tax = None, !.currency = Currency("EUR")]}
=============================================================================
