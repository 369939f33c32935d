------------------------------ MODULE MCMailbox ------------------------------
(***************************************************************************)
(* Small instances of Mailbox for TLC: one auto-poll loop and one thread   *)
(* that serves /api/run, a window of two messages.                         *)
(***************************************************************************)
EXTENDS Mailbox, TLC

CONSTANTS loop, runner,
          invoice,  \* a message with a document, a logo and another document
          again,    \* the same message delivered a second time
          bare,     \* a message without Message-ID whose text is the invoice
          offer,    \* a promotion
          broken,   \* a message whose attachment fails and cannot be kept
          id1, id2, id3,
          d1, d2, d3, d4, logo

MCMessageIds == {id1, id2, id3}
MCDocs == {d1, d2, d3, d4, logo}

MCHeader == [m \in Mail |-> CASE m \in {invoice, again} -> id1
                              [] m = bare -> None
                              [] m = offer -> id2
                              [] m = broken -> id3]

MCAttachments == [m \in Mail |-> CASE m \in {invoice, again} -> <<d1, logo, d2>>
                                   [] m = broken -> <<d4>>
                                   [] OTHER -> << >>]

MCBody == [m \in Mail |-> CASE m = bare -> d3 [] m = offer -> d4 [] OTHER -> None]
=============================================================================
