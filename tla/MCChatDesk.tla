------------------------------ MODULE MCChatDesk ------------------------------
(***************************************************************************)
(* A small instance of ChatDesk for TLC: a ledger of three rows, the last a *)
(* credit note to the second, fifteen tool calls and six figures, among     *)
(* them two invoice numbers, one of which the credit note refers to, a      *)
(* share and the words of a search.                                         *)
(***************************************************************************)
EXTENDS ChatDesk

CONSTANTS short, long,    \* a question, and one that takes up the whole budget
          acme, nobody,   \* a vendor, and a name that matches none
          cloud           \* a category

Day(y, m, d) == [y |-> y, m |-> m, d |-> d]

MCToday == Day(2024, 3, 15)

MCEvent(type, detail) == [id |-> Words, ts |-> DateText(MCToday), type |-> type, detail |-> Dict(detail)]

Received == MCEvent(Words, [file_hash |-> Text(90500, {}), pages |-> Num(Unit)])

MCRow(id, number, date, docType, status, base, confidence, resolved) ==
    [id |-> id, number |-> number, date |-> date, docType |-> docType, status |-> status, isInvoice |-> TRUE,
     total |-> base, base |-> base, confidence |-> confidence, vendor |-> acme, category |-> cloud,
     columns |-> [vendor_id |-> Text(90600, {}), subtotal |-> Num(base), tax_total |-> {}, fx_rate |-> Num(Unit),
                  version |-> Num(Unit), due_date |-> DateText(date)],
     lines |-> <<[id |-> Words, description |-> Words, quantity |-> Num(2 * Unit), amount |-> Num(base)]>>,
     taxes |-> << >>,
     events |-> <<Received, MCEvent(Words, resolved)>>]

New == [branch |-> Words]

MCView ==
    [rows |-> <<MCRow(90100, 77700, Day(2024, 2, 29), "invoice", "stored", 12000, 61, New),
                MCRow(90200, 77800, Day(2024, 3, 1), "invoice", "needs_review", 4000, 40, New),
                MCRow(90300, 77900, Day(2024, 3, 10), "credit_note", "stored", 1500, 95,
                      [branch |-> Words, credit_of |-> Words, ref |-> Text(77800, {})])>>,
     vendors |-> {acme},
     aliases |-> (acme :> 1),
     dead |-> <<[id |-> Text(90400, {}), source_ref |-> Words, error |-> Text(None, {2023}), tries |-> Num(3 * Unit),
                 last_try |-> DateText(MCToday)]>>,
     runs |-> <<[id |-> Words, started_at |-> DateText(MCToday), finished_at |-> {}, processed |-> Num(2 * Unit),
                 skipped |-> Num(0), failed |-> Num(Unit)]>>]

MCStatuses == {"received", "processing", "extracted", "needs_review", "clean", "stored", "superseded",
               "credited", "failed"}

NoArgs == [tool |-> "", phrase |-> None, from |-> None, to |-> None, status |-> None, limit |-> None,
           id |-> None, vendor |-> None, words |-> Words]

Call(tool) == [NoArgs EXCEPT !.tool = tool]

MCCalls ==
    {[Call("resolve_date_range") EXCEPT !.phrase = "last_month"],
     [Call("get_expense_summary") EXCEPT !.from = Day(2024, 2, 1), !.to = Day(2024, 2, 29)],
     [Call("get_expense_summary") EXCEPT !.from = Day(2024, 3, 15), !.to = Day(2024, 3, 1)],
     Call("get_expense_summary"),
     [Call("list_invoices") EXCEPT !.status = "stored", !.limit = 1],
     [Call("get_invoice") EXCEPT !.id = 90100],
     [Call("search_invoices_by_vendor") EXCEPT !.vendor = acme],
     [Call("search_invoices_by_vendor") EXCEPT !.vendor = nobody, !.words = Text(4500, {})],
     Call("get_review_queue"),
     Call("get_review_counts"),
     Call("list_vendors"),
     Call("list_runs"),
     Call("get_dead_letter"),
     [Call("explain_invoice") EXCEPT !.id = 90300],
     [Call("delete_invoice") EXCEPT !.id = 90100]}

MCCostOf == (short :> 1) @@ (long :> 3)

Figure(n) == [n |-> n, percent |-> FALSE]

MCAnswers == {{Figure(12000)}, {Figure(77700)}, {Figure(77800), Figure(4500)}, {[n |-> 6100, percent |-> TRUE], Figure(10500)}}
=============================================================================
