-------------------------------- MODULE Intake --------------------------------
(***************************************************************************)
(* A file's way through an upload: the browser's upload store               *)
(* (dashboard/src/uploadStore.ts), /api/ingest (backend/main.py), and       *)
(* run_file up to the row it stores: splitting (backend/preprocess.py),     *)
(* classification, extraction in chunks (backend/classify.py, extract.py)   *)
(* and judgement, each document under with_retry and run_safely             *)
(* (backend/retry.py).  The handler never awaits once it has the file, so   *)
(* the server is in one upload at a time; what the store holds already is   *)
(* Pipeline's concern.                                                      *)
(***************************************************************************)
EXTENDS Assessment

CONSTANTS
    Texts,        \* invoice numbers that are found on pages
    Contents,     \* file -> [kind, readable, junk, pages], a page being [number, digital]
    Selections,   \* what a user may drop or pick: sequences of files
    Extractions,  \* what the model may make of a document read in one call
    Rates,        \* rates to the base currency, None when the source has none
    ChunkSize,    \* GROQ_MAX_IMAGES_PER_REQUEST
    MaxAttempts,  \* calls to get one parsable extraction
    MaxTries,     \* retry_max_tries
    MaxIngests    \* bound: selections made

Files == DOMAIN Contents
Page == [number : Texts \cup {None}, digital : BOOLEAN]
Content == [kind : {"pdf", "image", "text"}, readable : BOOLEAN, junk : BOOLEAN, pages : Seq(Page) \ {<< >>}]

\* What is read of a date: nothing, three numbers, or words with what a library makes of them.
RawDate ==
    {None} \cup [form : {"iso", "numeric"}, a : Nat, b : Nat, c : Nat]
           \cup [form : {"words"}, read : [BOOLEAN -> {None} \cup [y : Int, m : Int, d : Int]]]

Figure == Int \cup {None}

ASSUME IntakeAssumption ==
    /\ ChunkSize \in Nat \ {0} /\ MaxAttempts \in Nat \ {0} /\ MaxTries \in Nat \ {0}
    /\ \A f \in Files : Contents[f] \in Content
    /\ Selections \subseteq Seq(Files)
    /\ None \notin Int
    /\ \A e \in Extractions :
          /\ {e.subtotal, e.discount, e.tax, e.shipping, e.fees, e.taxLines, e.items, e.total, e.self} \subseteq Figure
          /\ e.date \in RawDate
    /\ Rates \subseteq Figure

VARIABLES
    items,        \* the upload store's items, newest selection first
    busy,         \* its flag
    loops,        \* ingest calls begun: their files, the ids of their items, the position reached
    server        \* the ingestion under way, None when there is none

vars == <<items, busy, loops, server>>

Init ==
    /\ items = << >> /\ busy = FALSE /\ loops = << >>
    /\ server = None

-----------------------------------------------------------------------------
(* Splitting a file: page numbers are grouped into documents.               *)

Numbers(f) == [i \in DOMAIN Contents[f].pages |-> Contents[f].pages[i].number]

\* The number of the document that page k belongs to, as far as read up to k: the last one seen.
Known(numbers) ==
    LET told(k) == {j \in 1 .. k : numbers[j] # None}
    IN  [k \in DOMAIN numbers |-> IF told(k) = {} THEN None ELSE numbers[Max(told(k))]]

\* Wrong variant of Starts: a page without a number starts a document of its own.
StartsUnnumbered(numbers) == {k \in DOMAIN numbers : k = 1 \/ Known(numbers)[k - 1] # numbers[k]}

\* Pages that start a document: the first, and those with a number that differs from it.
Starts(numbers) ==
    {k \in DOMAIN numbers : k = 1 \/ (None \notin {numbers[k], Known(numbers)[k - 1]}
                                       /\ numbers[k] # Known(numbers)[k - 1])}

\* split_pdf_by_invoice: each document as the sequence of its pages
Groups(numbers) ==
    LET starts == Starts(numbers)
        end(g) == IF g = Cardinality(starts) THEN Len(numbers) ELSE Nth(starts, g + 1) - 1
    IN  [g \in 1 .. Cardinality(starts) |->
            [i \in 1 .. end(g) - Nth(starts, g) + 1 |-> Nth(starts, g) + i - 1]]

\* split_documents: what is no PDF, or cannot be read as one, stays whole.
Split(f) ==
    LET c == Contents[f]
        whole == <<[i \in DOMAIN c.pages |-> i]>>
    IN  IF c.kind = "pdf" /\ c.readable THEN Groups(Numbers(f)) ELSE whole

-----------------------------------------------------------------------------
(* Reading a document.                                                      *)

\* A PDF goes as text only if every page of it has some.
IsText(f, pages) ==
    \/ Contents[f].kind = "text"
    \/ Contents[f].kind = "pdf" /\ \A i \in DOMAIN pages : Contents[f].pages[pages[i]].digital

\* Wrong variant of Chunks: the last page of a chunk is the first of the next.
ChunksOverlap(pages) ==
    [n \in 1 .. (Len(pages) + ChunkSize - 1) \div ChunkSize |->
        SubSeq(pages, (n - 1) * ChunkSize + 1, Min({n * ChunkSize + 1, Len(pages)}))]

\* chunk_images
Chunks(pages) ==
    [n \in 1 .. (Len(pages) + ChunkSize - 1) \div ChunkSize |->
        SubSeq(pages, (n - 1) * ChunkSize + 1, Min({n * ChunkSize, Len(pages)}))]

FirstOfAll(values) ==
    LET told == {i \in DOMAIN values : values[i] # None} IN IF told = {} THEN None ELSE values[Min(told)]

\* What one call reads from some pages: their line items, in order, and the first number.
ReadPages(f, pages) ==
    [items |-> pages, number |-> FirstOfAll([i \in DOMAIN pages |-> Numbers(f)[pages[i]]])]

\* merge_extractions: items concatenated, the first number that is not null.
Merge(parts) ==
    [items |-> FlattenSeq([i \in DOMAIN parts |-> parts[i].items]),
     number |-> FirstOfAll([i \in DOMAIN parts |-> parts[i].number])]

-----------------------------------------------------------------------------
(* The browser.                                                             *)

Item(l, n, f) == [id |-> <<l, n>>, file |-> f, status |-> "processing", result |-> None]

\* uploadStore.ingest, up to its first await
Ingest(files) ==
    LET l == Len(loops) + 1 IN
    /\ files # << >> /\ l <= MaxIngests
    /\ items' = [n \in DOMAIN files |-> Item(l, n, files[n])] \o items
    /\ busy' = TRUE
    /\ loops' = Append(loops, [files |-> files, at |-> 1])
    /\ UNCHANGED server

Clear ==
    /\ ~busy /\ items # << >>
    /\ items' = << >>
    /\ UNCHANGED <<busy, loops, server>>

\* Wrong variant of PatchItem: goes by the position the file had in its selection.
PatchItemAt(id, status, result) ==
    [i \in DOMAIN items |-> IF i = id[2] THEN [items[i] EXCEPT !.status = status, !.result = result] ELSE items[i]]

PatchItem(id, status, result) ==
    [i \in DOMAIN items |-> IF items[i].id = id THEN [items[i] EXCEPT !.status = status, !.result = result] ELSE items[i]]

Waiting(l) == loops[l].at <= Len(loops[l].files)

Request(l) == <<l, loops[l].at>>

\* Wrong variant of MoveOn: an error leaves the loop.
MoveOnOrStop(l, status, result) ==
    /\ items' = PatchItem(Request(l), status, result)
    /\ loops' = [loops EXCEPT ![l].at = IF status = "error" THEN Len(loops[l].files) + 1 ELSE @ + 1]
    /\ busy' = (busy /\ loops'[l].at <= Len(loops[l].files))

\* The loop's await is over: its item gets its outcome, and the next file is sent.
MoveOn(l, status, result) ==
    /\ items' = PatchItem(Request(l), status, result)
    /\ loops' = [loops EXCEPT ![l].at = @ + 1]
    /\ busy' = (busy /\ loops[l].at < Len(loops[l].files))

\* The connection breaks, or never comes about; a server that has the request does not notice.
ConnectionFails(l) ==
    /\ Waiting(l)
    /\ MoveOn(l, "error", None)
    /\ UNCHANGED server

-----------------------------------------------------------------------------
(* The server.                                                              *)

Fresh(tries) == [stage |-> "open", tries |-> tries, attempts |-> 0, parts |-> << >>, row |-> None]

File == Contents[server.file]

Pages == server.documents[Len(server.results) + 1]

\* run_file: the file is split and its documents are run in turn.
Begin(l) ==
    /\ server = None /\ Waiting(l)
    /\ LET f == loops[l].files[loops[l].at] IN
       server' = [request |-> Request(l), file |-> f, documents |-> Split(f), results |-> << >>, doc |-> Fresh(1)]
    /\ UNCHANGED <<items, busy, loops>>

Running(stage) ==
    /\ server # None /\ Len(server.results) < Len(server.documents)
    /\ server.doc.stage = stage
    /\ UNCHANGED <<items, busy, loops>>

Doc(doc) == server' = [server EXCEPT !.doc = doc]

\* Wrong variant of Concluded: what fails ends the file.
ConcludedOrEnded(branch) ==
    server' = [server EXCEPT !.results = Append(@, branch), !.doc = Fresh(1),
                             !.documents = IF branch = "dead_letter" THEN SubSeq(@, 1, Len(server.results) + 1) ELSE @]

\* run_safely has a result for the document; the next one begins.
Concluded(branch) ==
    server' = [server EXCEPT !.results = Append(@, branch), !.doc = Fresh(1)]

DeadLettered == Concluded("dead_letter")

\* Type detection; what cannot be opened is dead-lettered, junk skipped when its row can be stored.
Open ==
    /\ Running("open")
    /\ IF File.kind = "image" /\ File.junk THEN Concluded("non_invoice") \/ DeadLettered
       ELSE IF File.kind # "text" /\ ~File.readable THEN DeadLettered
       ELSE Doc([server.doc EXCEPT !.stage = "classify"])

\* classify_document is asked once, with all images of the document; what cannot be parsed
\* is an error that nobody retries.
Classify ==
    /\ Running("classify")
    /\ \/ Concluded("non_invoice")
       \/ Doc([server.doc EXCEPT !.stage = "extract"])
       \/ DeadLettered

ChunksOf(pages) == IF IsText(server.file, pages) THEN <<pages>> ELSE Chunks(pages)

\* _call_and_parse on the next chunk, with a repair.
Extract ==
    /\ Running("extract")
    /\ LET parts == Append(server.doc.parts, ReadPages(server.file, ChunksOf(Pages)[Len(server.doc.parts) + 1]))
       IN  Doc([server.doc EXCEPT !.parts = parts, !.attempts = 0,
                                  !.stage = IF Len(parts) = Len(ChunksOf(Pages)) THEN "merged" ELSE "extract"])

\* Wrong variant of Malformed: repairs are not counted.
MalformedAgain == Running("extract") /\ Doc([server.doc EXCEPT !.attempts = @ + 1])

Malformed ==
    /\ Running("extract")
    /\ IF server.doc.attempts + 1 < MaxAttempts
         THEN Doc([server.doc EXCEPT !.attempts = @ + 1])
         ELSE DeadLettered

\* An LLMError that is transient: with_retry runs the document again, from the beginning.
TransientFailure ==
    /\ Running("classify") \/ Running("extract")
    /\ IF server.doc.tries < MaxTries THEN Doc(Fresh(server.doc.tries + 1)) ELSE DeadLettered

PermanentFailure == (Running("classify") \/ Running("extract")) /\ DeadLettered

\* normalize, assess and convert: the row of an invoice that resolve() finds new.
Row(e, rate) ==
    LET currency == NormalizeCurrency(e.currency)
        dated == NormalizeDate(e.date, DayFirst(currency))
        converted == ConvertToBase(e.total, currency, rate)
    IN  [read |-> e, date |-> dated.date, base |-> converted.base,
         status |-> IF converted.ok THEN Assess(e, dated.ambiguous) ELSE "needs_review"]

\* Setting the merged doc_type leaves a bare string where process_document expects the
\* enumeration, and it raises: only what was read in one call is judged.
Judge ==
    /\ Running("merged")
    /\ IF Len(server.doc.parts) > 1 THEN DeadLettered
       ELSE \E e \in Extractions, rate \in Rates :
              Doc([server.doc EXCEPT !.stage = "judged", !.row = Row(e, rate)])

\* save_invoice, or what it raises.
Save ==
    /\ Running("judged")
    /\ Concluded("new") \/ DeadLettered

\* The browser still waits for the response.
Heard == LET l == server.request[1] IN Waiting(l) /\ Request(l) = server.request

Respond ==
    /\ server # None /\ Len(server.results) = Len(server.documents)
    /\ server' = None
    /\ IF Heard THEN MoveOn(server.request[1], "done", [file |-> server.file, results |-> server.results])
       ELSE UNCHANGED <<items, busy, loops>>

\* The instance is stopped inside an ingestion, or dead-lettering raises (a 500).
ServerStops ==
    /\ server # None
    /\ server' = None
    /\ IF Heard THEN MoveOn(server.request[1], "error", None) ELSE UNCHANGED <<items, busy, loops>>

ServerStep ==
    \/ Open \/ Classify \/ Extract \/ Malformed \/ TransientFailure \/ PermanentFailure
    \/ Judge \/ Save \/ Respond

Next ==
    \/ \E files \in Selections : Ingest(files)
    \/ Clear
    \/ \E l \in DOMAIN loops : ConnectionFails(l) \/ Begin(l)
    \/ ServerStep \/ ServerStops

Spec == Init /\ [][Next]_vars

\* A call to the model ends, and the server goes on to the requests that wait.
FairSpec == Spec /\ WF_vars(ServerStep) /\ WF_vars(\E l \in DOMAIN loops : Begin(l))

-----------------------------------------------------------------------------
(* Properties.                                                              *)

Stages == {"open", "classify", "extract", "merged", "judged"}

Branches == {"new", "non_invoice", "dead_letter"}

Shown == [id : Nat \X Nat, file : Files, status : {"processing", "done", "error"},
          result : {None} \cup [file : Files, results : Seq(Branches)]]

Loop == [files : Selections, at : Nat]

Part == [items : Seq(Nat), number : Texts \cup {None}]

Rows == {None} \cup {Row(e, rate) : e \in Extractions, rate \in Rates}

Documents == [stage : Stages, tries : 1 .. MaxTries, attempts : 0 .. MaxAttempts - 1, parts : Seq(Part), row : Rows]

Ingestion == [request : Nat \X Nat, file : Files, documents : Seq(Seq(Nat)), results : Seq(Branches), doc : Documents]

\* The upload store's items and the server's locals hold what their types declare, and a loop is at
\* one of its files or past the last (uploadStore.ts:5-12, preprocess.py, extract.py, retry.py).
TypeOK ==
    /\ items \in Seq(Shown) /\ busy \in BOOLEAN
    /\ loops \in Seq(Loop)
    /\ \A l \in DOMAIN loops : loops[l].at \in 1 .. Len(loops[l].files) + 1
    /\ server \in {None} \cup Ingestion

\* The numbers found on the pages of a document.
NumbersOf(numbers, d) == {numbers[d[i]] : i \in DOMAIN d} \ {None}

\* preprocess.py:99-126: the documents of a file hold each of its pages once, in order; no document
\* mixes the pages of two numbers, and two that follow each other differ in theirs.
PagesCovered ==
    server # None =>
        LET docs == server.documents
            numbers == Numbers(server.file)
        IN  /\ FlattenSeq(docs) = [i \in DOMAIN File.pages |-> i]
            /\ \A g \in DOMAIN docs : File.kind = "pdf" /\ File.readable => Cardinality(NumbersOf(numbers, docs[g])) <= 1
            /\ \A g \in 2 .. Len(docs) : /\ NumbersOf(numbers, docs[g]) # NumbersOf(numbers, docs[g - 1])
                                         /\ numbers[docs[g][1]] # None

\* extract.py:86-128: however often a chunk was repaired and a document retried, what is merged has
\* the line items of each of its pages once, in order, and its number.
ReadingComplete ==
    server # None /\ server.doc.stage = "merged" =>
        Merge(server.doc.parts) = ReadPages(server.file, Pages)

\* retry.py:82-86: a response has one result for each document of its file, stored or dead-lettered,
\* whatever became of the ones before it.
EveryDocumentAnswered ==
    \A i \in DOMAIN items : items[i].status = "done" => Len(items[i].result.results) = Len(Split(items[i].file))

\* An outcome is shown at the file it belongs to, whatever was dropped since (uploadStore.ts:28-29,41).
OutcomesAreTheirOwn ==
    \A i \in DOMAIN items : items[i].result # None => items[i].result.file = items[i].file

\* A row that counts as spend has a figure in the base currency, so that the summary never counts
\* an unread total or a failed conversion as nothing; a self-reported confidence beyond one, which
\* compute_confidence does not bound, is the exception (validate.py:99-133, pipeline.py:222-229).
CleanHasFigure ==
    server # None /\ server.doc.stage = "judged" =>
        LET row == server.doc.row IN
        row.status = "clean" /\ row.read.self \in 0 .. 100 \cup {None} => row.base # None

\* A clean row's date of numbers does not depend on the order day and month were taken in
\* (normalize.py:42-49, validate.py:129).
CleanDateIsCertain ==
    server # None /\ server.doc.stage = "judged" =>
        LET row == server.doc.row IN
        row.status = "clean" /\ row.read.date # None /\ row.read.date.form # "words" =>
            \A dayFirst \in {"yes", "no"} : NormalizeDate(row.read.date, dayFirst).date = row.date

\* Every file shown as processing gets its outcome, or the user clears the page.
EveryUploadSettles ==
    \A l \in 1 .. MaxIngests : LET pending == \E i \in DOMAIN items : items[i].id[1] = l /\ items[i].status = "processing"
                               IN  pending ~> ~pending

\* extract.py:88, '>5 images are chunked then merged', and AUTOMATION_BUILD_DOC.md:60: a document of
\* more pages than fit one request is not dead-lettered once every chunk of it has been read.
ManyPagesAreKept ==
    [][server # None /\ server.doc.stage = "merged" /\ server' # None
          /\ Len(server'.results) > Len(server.results)
        => server'.results[Len(server'.results)] # "dead_letter"]_vars
=============================================================================
