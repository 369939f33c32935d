----------------------------- MODULE MCTallyflow -----------------------------
(***************************************************************************)
(* Small instances of Tallyflow and Claims for TLC: one vendor, a handful  *)
(* of documents that are versions, copies and credits of one another.      *)
(***************************************************************************)
EXTENDS Claims, TLC

CONSTANTS i1, i2, i3, i4, i5, i6, acme,
          first,    \* invoice INV-1
          copy,     \* the same invoice exported again, its number in lower case
          revised,  \* INV-1 with a later date and another total
          amended,  \* INV-1 of the same date with another total
          blurred,  \* a poor scan of INV-1, dated earlier, that needs review
          credit,   \* credit note CN-1 on INV-1
          receipt,  \* an undated document without a number, of INV-1's total
          undated,  \* INV-1 without a date, of another total
          junk      \* not an invoice

MCIds5 == {i1, i2, i3, i4, i5}
MCIds6 == {i1, i2, i3, i4, i5, i6}
MCVendors == {acme}
MCNumbers == {"", "INV-1", "inv-1", "CN-1"}
MCCanon == [n \in MCNumbers |-> IF n = "inv-1" THEN "INV-1" ELSE n]

AReading(type, number, date, total, ref, assessed) ==
    [cls |-> type, docType |-> type, vendor |-> acme, number |-> number, date |-> date,
     total |-> total, ref |-> ref, assessed |-> assessed, base |-> total]

MCReading ==
    (first   :> AReading("invoice", "INV-1", 2, 100, None, "clean")) @@
    (copy    :> AReading("invoice", "inv-1", 2, 100, None, "clean")) @@
    (revised :> AReading("invoice", "INV-1", 3, 120, None, "clean")) @@
    (amended :> AReading("invoice", "INV-1", 2, 120, None, "clean")) @@
    (blurred :> AReading("invoice", "INV-1", 1, 90, None, "needs_review")) @@
    (credit  :> AReading("credit_note", "CN-1", 3, 30, "inv-1", "clean")) @@
    (receipt :> AReading("invoice", None, None, 100, None, "clean")) @@
    (undated :> AReading("invoice", "INV-1", None, 110, None, "clean")) @@
    (junk    :> AReading("non_invoice", None, None, None, None, "clean"))

MCReadings == [d \in Docs |-> {MCReading[d]}]

DocsOne == {first}
DocsCopy == {first, copy}
DocsVersions == {first, copy, revised}
DocsMixed == {first, revised, credit, junk}
DocsAll == {first, copy, revised, amended, blurred, credit, receipt, undated, junk}

CONSTANTS w1, w2
MCWorkers1 == {w1}
MCWorkers2 == {w1, w2}
MCHosts == {"server", "runner"}
MCOneHost == [w \in Workers |-> "server"]
=============================================================================
