------------------------------ MODULE MCReports ------------------------------
(***************************************************************************)
(* A small instance of Books for TLC: three days around each of the end of  *)
(* a year, a leap day, the start of a quarter and the end of a February,    *)
(* and rows dated on the boundaries of their periods.                       *)
(***************************************************************************)
EXTENDS Books

CONSTANTS acme, other, cloud

Day(y, m, d) == [y |-> y, m |-> m, d |-> d]

From(day) == {day, DayAfter(day), DayAfter(DayAfter(day))}

MCDays == UNION {From(day) : day \in {Day(2023, 12, 30), Day(2024, 2, 28), Day(2024, 3, 31), Day(2025, 2, 27)}}

Dates == {d \in [y : 2022 .. 2025, m : 1 .. 12, d : 1 .. 31] : IsDate(d)}

\* The day before, told by the days that come after.
Eve(day) == CHOOSE d \in Dates : DayAfter(d) = day

Row(date, docType, status, base, vendor) ==
    [date |-> date, docType |-> docType, status |-> status, isInvoice |-> docType # "non_invoice",
     base |-> base, vendor |-> vendor, category |-> IF vendor = acme THEN cloud ELSE None]

MCOffered ==
    [day \in MCDays |->
        {Row(day, "invoice", "stored", 5, acme), Row(day, "invoice", "clean", 3, None),
         Row(day, "invoice", "superseded", 7, acme), Row(day, "invoice", "needs_review", 2, other),
         Row(Eve(day), "invoice", "stored", 4, other), Row(FirstOf(day.y, day.m), "receipt", "stored", 1, acme),
         Row(Eve(FirstOf(day.y, day.m)), "credit_note", "needs_review", 6, acme),
         Row(day, "credit_note", "superseded", 8, acme),
         Row(None, "invoice", "stored", 9, acme), Row(day, "non_invoice", "stored", None, None)}]
=============================================================================
