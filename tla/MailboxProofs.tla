----------------------------- MODULE MailboxProofs -----------------------------
(***************************************************************************)
(* Theorems about Mailbox for every mailbox, set of pollers and window:    *)
(* what is marked is on record, nothing is stepped over, and what was      *)
(* marked before a poll began is not run by it.                            *)
(***************************************************************************)
EXTENDS Mailbox, SequenceTheorems, TLAPS

Folder == inbox \in Seq(Mail)
Tables ==
    /\ seen \subseteq MessageIds \cup Mail /\ recorded \subseteq Docs
    /\ runs \in Seq({"started", "finished"}) /\ faults \in Nat

\* Where a poll c stands in the folder ib.
Placed(c, ib) ==
    /\ c.last <= Len(ib) /\ c.num <= c.last + 1
    /\ c.pc \in {"peek", "fetch", "documents", "finish"} => c.first >= 1
    /\ c.pc \in {"peek", "fetch", "documents"} => c.num >= 1
    /\ c.pc \in {"fetch", "documents"} => c.num <= c.last

\* What it passed is marked.
Passed(c, ib, sn) ==
    c.pc \in {"peek", "fetch", "documents", "finish"} =>
        \A k \in c.first .. c.num - 1 : Key(ib[k]) \in sn

\* What was marked when it began is marked still, and is not the message at hand.
Informed(c, ib, sn) ==
    /\ c.known \subseteq sn
    /\ c.pc = "fetch" /\ Header[ib[c.num]] # None => Key(ib[c.num]) \notin c.known
    /\ c.pc = "documents" => Key(ib[c.num]) \notin c.known

\* The documents of the message at hand that are not left to run are on record.
Working(c, ib, rc) ==
    c.pc = "documents" =>
        /\ c.left \subseteq Wanted(ib[c.num])
        /\ \A i \in Wanted(ib[c.num]) : i \in c.left \/ Document(ib[c.num], i) \in rc

PollOK(c, ib, sn, rc) ==
    Placed(c, ib) /\ Passed(c, ib, sn) /\ Informed(c, ib, sn) /\ Working(c, ib, rc)

PollsOK == \A p \in Pollers : PollOK(poll[p], inbox, seen, recorded)

\* The invariants are inductive only together: a mark is right because of what its
\* poll did since it fetched the message.
IInv == Folder /\ Tables /\ poll \in [Pollers -> Poll] /\ PollsOK /\ MarkedIsRecorded

-----------------------------------------------------------------------------
\* Keys are what processed_emails holds (ingest_email.py:215-227).
LEMMA KeyType == \A m \in Mail : Key(m) \in MessageIds \cup Mail
  BY MailboxAssumption DEF Key

\* A document a poll runs is one (ingest_email.py:131-161).
LEMMA DocumentType == \A m \in Mail : \A i \in Wanted(m) : i \in Nat /\ Document(m, i) \in Docs
  <1> SUFFICES ASSUME NEW m \in Mail, NEW i \in Wanted(m)
               PROVE  i \in Nat /\ Document(m, i) \in Docs
    OBVIOUS
  <1>1. CASE Attachments[m] # << >>
    <2>1. Attachments[m] \in Seq(Docs) /\ i \in 1 .. Len(Attachments[m])
      BY <1>1, MailboxAssumption DEF Wanted
    <2> QED BY <2>1 DEF Document
  <1>2. CASE Attachments[m] = << >>
    BY <1>2, MailboxAssumption DEF Wanted, Document
  <1> QED BY <1>1, <1>2

-----------------------------------------------------------------------------
\* New mail, marks and records do not disturb a poll.
LEMMA PollFrame ==
    ASSUME NEW c \in Poll, NEW ib \in Seq(Mail), NEW ib2 \in Seq(Mail),
           NEW sn, NEW sn2, NEW rc, NEW rc2,
           Len(ib) <= Len(ib2), \A k \in 1 .. Len(ib) : ib2[k] = ib[k],
           sn \subseteq sn2, rc \subseteq rc2, PollOK(c, ib, sn, rc)
    PROVE  PollOK(c, ib2, sn2, rc2)
  <1>1. /\ c.first \in Nat /\ c.num \in Nat /\ c.last \in Nat
        /\ Len(ib) \in Nat /\ Len(ib2) \in Nat
    BY DEF Poll
  <1>2. Placed(c, ib) /\ Placed(c, ib2)
    BY <1>1 DEF PollOK, Placed
  <1>3. Passed(c, ib2, sn2)
    <2> SUFFICES ASSUME c.pc \in {"peek", "fetch", "documents", "finish"},
                        NEW k \in c.first .. c.num - 1
                 PROVE  Key(ib2[k]) \in sn2
      BY DEF Passed
    <2>1. k \in 1 .. Len(ib)
      BY <1>1, <1>2 DEF Placed
    <2>2. Key(ib[k]) \in sn
      BY DEF PollOK, Passed
    <2> QED BY <2>1, <2>2
  <1>4. c.pc \in {"fetch", "documents"} => ib2[c.num] = ib[c.num]
    BY <1>1, <1>2 DEF Placed
  <1>5. Informed(c, ib2, sn2)
    BY <1>4 DEF PollOK, Informed
  <1>6. Working(c, ib2, rc2)
    BY <1>4 DEF PollOK, Working
  <1> QED BY <1>2, <1>3, <1>5, <1>6 DEF PollOK

\* A step of p leaves every other poll in order.
LEMMA PollsStep ==
    ASSUME Folder, Folder', poll \in [Pollers -> Poll], PollsOK,
           NEW p \in Pollers, NEW c \in Poll, poll' = [poll EXCEPT ![p] = c],
           Len(inbox) <= Len(inbox'), \A k \in 1 .. Len(inbox) : inbox'[k] = inbox[k],
           seen \subseteq seen', recorded \subseteq recorded',
           PollOK(c, inbox', seen', recorded')
    PROVE  poll' \in [Pollers -> Poll] /\ PollsOK'
  <1>1. poll' \in [Pollers -> Poll]
    OBVIOUS
  <1>2. ASSUME NEW q \in Pollers PROVE PollOK(poll'[q], inbox', seen', recorded')
    <2>1. CASE q = p
      BY <2>1
    <2>2. CASE q # p
      <3>1. poll'[q] = poll[q] /\ poll[q] \in Poll
        BY <2>2
      <3>2. PollOK(poll[q], inbox, seen, recorded)
        BY DEF PollsOK
      <3> QED BY <3>1, <3>2, PollFrame DEF Folder
    <2> QED BY <2>1, <2>2
  <1> QED BY <1>1, <1>2 DEF PollsOK

\* The record of a poller that is not polling.
LEMMA IdleOK == ASSUME Folder PROVE Idle \in Poll /\ PollOK(Idle, inbox, seen, recorded)
  BY DEF Idle, Poll, PollOK, Placed, Passed, Informed, Working, Folder

\* Marks stay right while the folder and the records grow.
LEMMA MarksFrame ==
    ASSUME Folder, Folder', MarkedIsRecorded, seen' = seen,
           Len(inbox) <= Len(inbox'), \A k \in 1 .. Len(inbox) : inbox'[k] = inbox[k],
           recorded \subseteq recorded'
    PROVE  MarkedIsRecorded'
  <1> SUFFICES ASSUME NEW key \in seen
               PROVE  \E k \in DOMAIN inbox' :
                        Key(inbox'[k]) = key /\ DocumentsOf(inbox'[k]) \subseteq recorded'
    BY DEF MarkedIsRecorded
  <1>1. PICK k \in DOMAIN inbox : Key(inbox[k]) = key /\ DocumentsOf(inbox[k]) \subseteq recorded
    BY DEF MarkedIsRecorded
  <1>2. k \in DOMAIN inbox' /\ inbox'[k] = inbox[k]
    BY DEF Folder
  <1> QED BY <1>1, <1>2

-----------------------------------------------------------------------------
\* The poll c has a message at hand.
AtMessage(c) == \/ c.pc \in {"fetch", "documents"}
                \/ c.pc = "peek" /\ c.num <= c.last

\* The message a poll is at is one of the folder, and a listed one.
LEMMA MessageType ==
    ASSUME IInv, NEW p \in Pollers, AtMessage(poll[p])
    PROVE  /\ poll[p] \in Poll /\ PollOK(poll[p], inbox, seen, recorded)
           /\ poll[p].num \in DOMAIN inbox /\ Message(p) = inbox[poll[p].num]
           /\ Message(p) \in Mail
           /\ poll[p].num \in Nat /\ poll[p].first \in Nat /\ poll[p].last \in Nat
           /\ poll[p].num <= poll[p].last
  <1>1. poll[p] \in Poll /\ PollOK(poll[p], inbox, seen, recorded) /\ Placed(poll[p], inbox)
    BY DEF IInv, PollsOK, PollOK
  <1>2. /\ poll[p].num \in Nat /\ poll[p].first \in Nat /\ poll[p].last \in Nat
        /\ Len(inbox) \in Nat
    BY <1>1 DEF Poll, IInv, Folder
  <1>3. poll[p].num \in 1 .. Len(inbox) /\ poll[p].num <= poll[p].last
    BY <1>1, <1>2 DEF Placed, AtMessage
  <1> QED BY <1>1, <1>2, <1>3 DEF IInv, Folder, Message

\* The poll c once it is past the message at hand.
Past(c) == [c EXCEPT !.pc = "peek", !.num = @ + 1, !.left = {}]

LEMMA PastFields ==
    ASSUME NEW c \in Poll
    PROVE  /\ Past(c) \in Poll
           /\ Past(c).pc = "peek" /\ Past(c).num = c.num + 1 /\ Past(c).first = c.first
           /\ Past(c).last = c.last /\ Past(c).known = c.known
  <1>1. /\ Past(c).pc = "peek" /\ Past(c).num = c.num + 1 /\ Past(c).left = {}
        /\ Past(c).first = c.first /\ Past(c).last = c.last
        /\ Past(c).known = c.known /\ Past(c).run = c.run
    BY DEF Past, Poll
  <1>2. c.num \in Nat /\ c.num + 1 \in Nat
    BY DEF Poll
  <1>3. Past(c) \in Poll
    BY <1>2 DEF Past, Poll
  <1> QED BY <1>1, <1>3

\* Passing a message that is marked (by now).
LEMMA NextMessageOK ==
    ASSUME IInv, NEW p \in Pollers, NEW sn, AtMessage(poll[p]),
           seen \subseteq sn, Key(Message(p)) \in sn
    PROVE  Past(poll[p]) \in Poll /\ PollOK(Past(poll[p]), inbox, sn, recorded)
  <1> DEFINE c == Past(poll[p])
  <1>1. /\ poll[p] \in Poll /\ PollOK(poll[p], inbox, seen, recorded)
        /\ Len(inbox) \in Nat
    BY MessageType DEF IInv, Folder
  <1>2. /\ poll[p].num \in DOMAIN inbox /\ Message(p) = inbox[poll[p].num]
        /\ poll[p].num \in Nat /\ poll[p].first \in Nat /\ poll[p].last \in Nat
        /\ poll[p].num <= poll[p].last
    BY MessageType
  <1>3. c \in Poll
    BY <1>1, PastFields
  <1>4. /\ c.pc = "peek" /\ c.num = poll[p].num + 1 /\ c.first = poll[p].first
        /\ c.last = poll[p].last /\ c.known = poll[p].known
    BY <1>1, PastFields
  <1> HIDE DEF c
  <1>5. Placed(c, inbox)
    BY <1>1, <1>2, <1>4 DEF AtMessage, PollOK, Placed
  <1>6. Passed(c, inbox, sn)
    <2> SUFFICES ASSUME NEW k \in poll[p].first .. poll[p].num PROVE Key(inbox[k]) \in sn
      BY <1>2, <1>4 DEF Passed
    <2>1. CASE k = poll[p].num
      BY <2>1, <1>2
    <2>2. CASE k # poll[p].num
      <3>1. k \in poll[p].first .. poll[p].num - 1
        BY <2>2, <1>2
      <3> QED BY <3>1, <1>1 DEF AtMessage, PollOK, Passed
    <2> QED BY <2>1, <2>2
  <1>7. Informed(c, inbox, sn) /\ Working(c, inbox, recorded)
    BY <1>1, <1>4 DEF PollOK, Informed, Working
  <1>8. PollOK(c, inbox, sn, recorded)
    BY <1>5, <1>6, <1>7 DEF PollOK
  <1> QED BY <1>3, <1>8 DEF c

-----------------------------------------------------------------------------
LEMMA InitOK == Init => IInv
  <1> SUFFICES ASSUME Init PROVE IInv
    OBVIOUS
  <1>1. Folder /\ Tables /\ MarkedIsRecorded
    BY EmptySeq DEF Init, Folder, Tables, MarkedIsRecorded
  <1>2. Idle \in Poll /\ PollOK(Idle, inbox, seen, recorded)
    BY <1>1, IdleOK
  <1> QED BY <1>1, <1>2 DEF Init, IInv, PollsOK

LEMMA ArriveOK == ASSUME IInv, NEW m \in Mail, Arrive(m) PROVE IInv'
  <1>1. /\ Folder' /\ Len(inbox) <= Len(inbox')
        /\ \A k \in 1 .. Len(inbox) : inbox'[k] = inbox[k]
    BY AppendProperties DEF IInv, Folder, Arrive
  <1>2. Tables' /\ poll' = poll /\ seen' = seen /\ recorded' = recorded
    BY DEF IInv, Arrive, Tables
  <1>3. MarkedIsRecorded'
    BY <1>1, <1>2, MarksFrame DEF IInv
  <1>4. ASSUME NEW q \in Pollers PROVE PollOK(poll'[q], inbox', seen', recorded')
    <2>1. poll[q] \in Poll /\ PollOK(poll[q], inbox, seen, recorded)
      BY DEF IInv, PollsOK
    <2> QED BY <1>1, <1>2, <2>1, PollFrame DEF IInv, Folder
  <1> QED BY <1>1, <1>2, <1>3, <1>4 DEF IInv, PollsOK

\* A step that only moves the poll of p, to a record that is in order.
LEMMA MoveOK ==
    ASSUME IInv, NEW p \in Pollers, NEW c \in Poll, Update(p, c),
           PollOK(c, inbox, seen, recorded), Tables', UNCHANGED <<inbox, seen, recorded>>
    PROVE  IInv'
  <1>1. /\ Folder' /\ Len(inbox) <= Len(inbox')
        /\ \A k \in 1 .. Len(inbox) : inbox'[k] = inbox[k]
    BY DEF IInv, Folder
  <1>2. poll' \in [Pollers -> Poll] /\ PollsOK'
    BY <1>1, PollsStep DEF IInv, Update
  <1>3. MarkedIsRecorded'
    BY <1>1, MarksFrame DEF IInv
  <1> QED BY <1>1, <1>2, <1>3 DEF IInv

\* A poll that has not listed the folder yet.
LEMMA StartOK ==
    ASSUME IInv, NEW r \in Nat
    PROVE  NewPoll(r) \in Poll /\ PollOK(NewPoll(r), inbox, seen, recorded)
  <1>1. NewPoll(r) \in Poll
    BY DEF IInv, Tables, Poll, NewPoll
  <1>2. Len(inbox) \in Nat
    BY DEF IInv, Folder
  <1> QED BY <1>1, <1>2 DEF PollOK, Placed, Passed, Informed, Working, NewPoll

LEMMA BeginOK == ASSUME IInv, NEW p \in Pollers, Begin(p) PROVE IInv'
  <1>1. CASE p \in Loops /\ Update(p, NewPoll(0)) /\ UNCHANGED runs
    <2>1. Tables' /\ UNCHANGED <<inbox, seen, recorded>>
      BY <1>1 DEF IInv, Tables, Begin
    <2> QED BY <1>1, <2>1, StartOK, MoveOK
  <1>2. CASE runs' = Append(runs, "started") /\ Update(p, NewPoll(Len(runs) + 1))
    <2>1. Len(runs) + 1 \in Nat
      BY DEF IInv, Tables
    <2>2. runs' \in Seq({"started", "finished"})
      BY <1>2, AppendProperties DEF IInv, Tables
    <2>3. Tables' /\ UNCHANGED <<inbox, seen, recorded>>
      BY <2>2 DEF IInv, Tables, Begin
    <2> QED BY <1>2, <2>1, <2>3, StartOK, MoveOK
  <1> QED BY <1>1, <1>2 DEF Begin

LEMMA ListOK == ASSUME IInv, NEW p \in Pollers, List(p) PROVE IInv'
  <1> DEFINE c == [poll[p] EXCEPT !.pc = "peek", !.num = FirstListed,
                          !.first = FirstListed, !.last = Len(inbox)]
  <1>1. /\ Len(inbox) \in Nat /\ FirstListed \in Nat
        /\ FirstListed >= 1 /\ FirstListed <= Len(inbox) + 1
    BY MailboxAssumption DEF IInv, Folder, FirstListed
  <1>2. poll[p] \in Poll /\ PollOK(poll[p], inbox, seen, recorded)
    BY DEF IInv, PollsOK
  <1>3. c \in Poll
    BY <1>1, <1>2 DEF Poll
  <1>4. PollOK(c, inbox, seen, recorded)
    BY <1>1, <1>2 DEF Poll, PollOK, Placed, Passed, Informed, Working
  <1>5. Tables' /\ UNCHANGED <<inbox, seen, recorded>> /\ Update(p, c)
    BY DEF IInv, Tables, List
  <1> QED BY <1>3, <1>4, <1>5, MoveOK

\* A poll goes on with the message it looked up and did not find.
LEMMA PeekOK == ASSUME IInv, NEW p \in Pollers, Peek(p) PROVE IInv'
  <1>1. Tables' /\ UNCHANGED <<inbox, seen, recorded>>
    BY DEF IInv, Tables, Peek
  <1>2. /\ poll[p] \in Poll /\ PollOK(poll[p], inbox, seen, recorded)
        /\ poll[p].pc = "peek" /\ poll[p].num <= poll[p].last
        /\ AtMessage(poll[p]) /\ Message(p) = inbox[poll[p].num]
    <2>1. AtMessage(poll[p])
      BY DEF Peek, AtMessage
    <2> QED BY <2>1, MessageType DEF Peek
  <1>3. CASE Header[Message(p)] # None /\ Header[Message(p)] \in seen
    <2>1. Key(Message(p)) \in seen
      BY <1>3 DEF Key
    <2>2. Past(poll[p]) \in Poll /\ PollOK(Past(poll[p]), inbox, seen, recorded)
      BY <1>2, <2>1, NextMessageOK
    <2>3. Update(p, Past(poll[p]))
      BY <1>3 DEF Peek, NextMessage, Past
    <2> QED BY <1>1, <2>2, <2>3, MoveOK
  <1>4. CASE ~(Header[Message(p)] # None /\ Header[Message(p)] \in seen)
    <2> DEFINE c == [poll[p] EXCEPT !.pc = "fetch"]
    <2>1. c \in Poll
      BY <1>2 DEF Poll
    <2>2. /\ c.pc = "fetch" /\ c.first = poll[p].first /\ c.last = poll[p].last
          /\ c.num = poll[p].num /\ c.known = poll[p].known
      BY <1>2 DEF Poll
    <2> HIDE DEF c
    <2>3. Placed(c, inbox) /\ Passed(c, inbox, seen) /\ Working(c, inbox, recorded)
      BY <1>2, <2>2 DEF PollOK, Placed, Passed, Working
    <2>4. Informed(c, inbox, seen)
      BY <1>2, <1>4, <2>2 DEF PollOK, Informed, Key
    <2>5. Update(p, c)
      BY <1>4 DEF Peek, c
    <2> QED BY <1>1, <2>1, <2>3, <2>4, <2>5, MoveOK DEF PollOK
  <1> QED BY <1>3, <1>4

LEMMA FetchOK == ASSUME IInv, NEW p \in Pollers, Fetch(p) PROVE IInv'
  <1>1. Tables' /\ UNCHANGED <<inbox, seen, recorded>>
    BY DEF IInv, Tables, Fetch
  <1>2. /\ poll[p] \in Poll /\ PollOK(poll[p], inbox, seen, recorded)
        /\ poll[p].pc = "fetch" /\ AtMessage(poll[p]) /\ Message(p) = inbox[poll[p].num] /\ Message(p) \in Mail
    <2>1. AtMessage(poll[p])
      BY DEF Fetch, AtMessage
    <2> QED BY <2>1, MessageType DEF Fetch
  <1>3. CASE Header[Message(p)] = None /\ Key(Message(p)) \in seen
    <2>1. Past(poll[p]) \in Poll /\ PollOK(Past(poll[p]), inbox, seen, recorded)
      BY <1>2, <1>3, NextMessageOK
    <2>2. Update(p, Past(poll[p]))
      BY <1>3 DEF Fetch, NextMessage, Past
    <2> QED BY <1>1, <2>1, <2>2, MoveOK
  <1>4. CASE ~(Header[Message(p)] = None /\ Key(Message(p)) \in seen)
    <2> DEFINE c == [poll[p] EXCEPT !.pc = "documents", !.left = Wanted(Message(p))]
    <2>1. Wanted(Message(p)) \in SUBSET Nat
      BY <1>2, DocumentType
    <2>2. c \in Poll
      BY <1>2, <2>1 DEF Poll
    <2>3. /\ c.pc = "documents" /\ c.first = poll[p].first /\ c.last = poll[p].last
          /\ c.num = poll[p].num /\ c.known = poll[p].known /\ c.left = Wanted(Message(p))
      BY <1>2 DEF Poll
    <2> HIDE DEF c
    <2>4. Placed(c, inbox) /\ Passed(c, inbox, seen)
      BY <1>2, <2>3 DEF PollOK, Placed, Passed
    <2>5. Working(c, inbox, recorded)
      BY <1>2, <2>3 DEF Working
    <2>6. Informed(c, inbox, seen)
      BY <1>2, <1>4, <2>3 DEF PollOK, Informed
    <2>7. Update(p, c)
      BY <1>4 DEF Fetch, c
    <2> QED BY <1>1, <2>2, <2>4, <2>5, <2>6, <2>7, MoveOK DEF PollOK
  <1> QED BY <1>3, <1>4

\* A poll that ends, for whatever reason, leaves nothing to keep in order.
LEMMA StopOK ==
    ASSUME IInv, NEW p \in Pollers, Update(p, Idle), Tables', UNCHANGED <<inbox, seen, recorded>>
    PROVE  IInv'
  BY IdleOK, MoveOK DEF IInv

LEMMA RunDocumentOK == ASSUME IInv, NEW p \in Pollers, RunDocument(p) PROVE IInv'
  <1>1. /\ poll[p] \in Poll /\ PollOK(poll[p], inbox, seen, recorded)
        /\ poll[p].pc = "documents" /\ Message(p) = inbox[poll[p].num] /\ Message(p) \in Mail
    <2>1. AtMessage(poll[p])
      BY DEF RunDocument, AtMessage
    <2> QED BY <2>1, MessageType DEF RunDocument
  <1>2. PICK i \in poll[p].left :
            \/ Update(p, Idle) /\ UNCHANGED recorded
            \/ /\ recorded' = recorded \cup {Document(Message(p), i)}
               /\ Update(p, [poll[p] EXCEPT !.left = @ \ {i}])
    BY DEF RunDocument
  <1>3. UNCHANGED <<inbox, seen, runs, faults>>
    BY DEF RunDocument
  <1>4. CASE Update(p, Idle) /\ UNCHANGED recorded
    BY <1>3, <1>4, StopOK DEF IInv, Tables
  <1>5. CASE /\ recorded' = recorded \cup {Document(Message(p), i)}
             /\ Update(p, [poll[p] EXCEPT !.left = @ \ {i}])
    <2> DEFINE c == [poll[p] EXCEPT !.left = @ \ {i}]
    <2>1. i \in Wanted(Message(p))
      BY <1>1 DEF PollOK, Working
    <2>2. Document(Message(p), i) \in Docs
      BY <1>1, <2>1, DocumentType
    <2>3. Tables' /\ recorded \subseteq recorded'
      BY <1>3, <1>5, <2>2 DEF IInv, Tables
    <2>4. c \in Poll
      BY <1>1 DEF Poll
    <2>5. /\ c.pc = "documents" /\ c.first = poll[p].first /\ c.last = poll[p].last
          /\ c.num = poll[p].num /\ c.known = poll[p].known /\ c.left = poll[p].left \ {i}
      BY <1>1 DEF Poll
    <2>6. poll' = [poll EXCEPT ![p] = c]
      BY <1>5 DEF Update
    <2> HIDE DEF c
    <2>7. Placed(c, inbox) /\ Passed(c, inbox, seen) /\ Informed(c, inbox, seen)
      BY <1>1, <2>5 DEF PollOK, Placed, Passed, Informed
    <2>8. Working(c, inbox, recorded')
      BY <1>1, <1>5, <2>5 DEF PollOK, Working
    <2>9. PollOK(c, inbox', seen', recorded')
      BY <1>3, <2>7, <2>8 DEF PollOK
    <2>10. /\ Folder' /\ Len(inbox) <= Len(inbox')
           /\ \A k \in 1 .. Len(inbox) : inbox'[k] = inbox[k]
      BY <1>3 DEF IInv, Folder
    <2>11. poll' \in [Pollers -> Poll] /\ PollsOK'
      BY <1>3, <2>3, <2>4, <2>6, <2>9, <2>10, PollsStep DEF IInv
    <2>12. MarkedIsRecorded'
      BY <1>3, <2>3, <2>10, MarksFrame DEF IInv
    <2> QED BY <2>3, <2>10, <2>11, <2>12 DEF IInv
  <1> QED BY <1>2, <1>4, <1>5

LEMMA MarkOK == ASSUME IInv, NEW p \in Pollers, Mark(p) PROVE IInv'
  <1>1. /\ poll[p] \in Poll /\ PollOK(poll[p], inbox, seen, recorded)
        /\ poll[p].pc = "documents" /\ poll[p].left = {}
        /\ AtMessage(poll[p]) /\ poll[p].num \in DOMAIN inbox
        /\ Message(p) = inbox[poll[p].num] /\ Message(p) \in Mail
    <2>1. AtMessage(poll[p])
      BY DEF Mark, AtMessage
    <2> QED BY <2>1, MessageType DEF Mark
  <1>2. /\ UNCHANGED <<inbox, recorded, runs, faults>>
        /\ seen' = seen \cup {Key(Message(p))} /\ poll' = [poll EXCEPT ![p] = Past(poll[p])]
    BY DEF Mark, NextMessage, Update, Past
  <1>3. Tables' /\ seen \subseteq seen'
    BY <1>1, <1>2, KeyType DEF IInv, Tables
  <1>4. Past(poll[p]) \in Poll /\ PollOK(Past(poll[p]), inbox, seen', recorded)
    BY <1>1, <1>2, NextMessageOK
  <1>5. /\ Folder' /\ Len(inbox) <= Len(inbox')
        /\ \A k \in 1 .. Len(inbox) : inbox'[k] = inbox[k]
    BY <1>2 DEF IInv, Folder
  <1>6. PollOK(Past(poll[p]), inbox', seen', recorded')
    BY <1>2, <1>4
  <1>7. poll' \in [Pollers -> Poll] /\ PollsOK'
    BY <1>2, <1>3, <1>4, <1>5, <1>6, PollsStep DEF IInv
  <1>8. DocumentsOf(Message(p)) \subseteq recorded
    BY <1>1 DEF PollOK, Working, DocumentsOf
  <1>9. MarkedIsRecorded'
    <2> SUFFICES ASSUME NEW key \in seen'
                 PROVE  \E k \in DOMAIN inbox :
                          Key(inbox[k]) = key /\ DocumentsOf(inbox[k]) \subseteq recorded
      BY <1>2 DEF MarkedIsRecorded
    <2>1. CASE key = Key(Message(p))
      BY <2>1, <1>1, <1>8
    <2>2. CASE key \in seen
      BY <2>2 DEF IInv, MarkedIsRecorded
    <2> QED BY <1>2, <2>1, <2>2
  <1> QED BY <1>3, <1>5, <1>7, <1>9 DEF IInv

LEMMA ReturnOK == ASSUME IInv, NEW p \in Pollers, Return(p) PROVE IInv'
  <1>1. Tables' /\ UNCHANGED <<inbox, seen, recorded>>
    BY DEF IInv, Tables, Return
  <1>2. poll[p] \in Poll /\ PollOK(poll[p], inbox, seen, recorded) /\ poll[p].pc = "peek"
    BY DEF IInv, PollsOK, Return
  <1>3. CASE Update(p, Idle)
    BY <1>1, <1>3, StopOK
  <1>4. CASE Update(p, [poll[p] EXCEPT !.pc = "finish"])
    <2> DEFINE c == [poll[p] EXCEPT !.pc = "finish"]
    <2>1. c \in Poll
      BY <1>2 DEF Poll
    <2>2. /\ c.pc = "finish" /\ c.first = poll[p].first /\ c.last = poll[p].last
          /\ c.num = poll[p].num /\ c.known = poll[p].known
      BY <1>2 DEF Poll
    <2>3. Update(p, c)
      BY <1>4
    <2> HIDE DEF c
    <2>4. PollOK(c, inbox, seen, recorded)
      BY <1>2, <2>2 DEF PollOK, Placed, Passed, Informed, Working
    <2> QED BY <1>1, <2>1, <2>3, <2>4, MoveOK
  <1> QED BY <1>3, <1>4 DEF Return

LEMMA FinishRunOK == ASSUME IInv, NEW p \in Pollers, FinishRun(p) PROVE IInv'
  <1>1. runs' \in Seq({"started", "finished"})
    <2>1. runs \in Seq({"started", "finished"}) /\ runs' = [runs EXCEPT ![poll[p].run] = "finished"]
      BY DEF IInv, Tables, FinishRun
    <2>2. CASE poll[p].run \in 1 .. Len(runs)
      BY <2>1, <2>2, ExceptSeq
    <2>3. CASE poll[p].run \notin 1 .. Len(runs)
      <3>1. runs = [x \in 1 .. Len(runs) |-> runs[x]]
        BY <2>1
      <3>2. runs' = [x \in 1 .. Len(runs) |-> runs[x]]
        BY <2>1, <2>3, <3>1, Zenon
      <3> QED BY <2>1, <3>1, <3>2
    <2> QED BY <2>2, <2>3
  <1>2. Tables' /\ UNCHANGED <<inbox, seen, recorded>> /\ Update(p, Idle)
    BY <1>1 DEF IInv, Tables, FinishRun
  <1> QED BY <1>2, StopOK

LEMMA PollStopsOK == ASSUME IInv, NEW p \in Pollers, PollStops(p) PROVE IInv'
  <1>1. Tables' /\ UNCHANGED <<inbox, seen, recorded>> /\ Update(p, Idle)
    BY DEF IInv, Tables, PollStops
  <1> QED BY <1>1, StopOK

LEMMA StutterOK == ASSUME IInv, UNCHANGED vars PROVE IInv'
  BY DEF vars, IInv, Folder, Tables, PollsOK, MarkedIsRecorded

\* Every step of a poller and every arrival keeps the invariant.
LEMMA StepOK == IInv /\ [Next]_vars => IInv'
  <1> SUFFICES ASSUME IInv, [Next]_vars PROVE IInv'
    OBVIOUS
  <1>1. ASSUME NEW m \in Mail, Arrive(m) PROVE IInv'
    BY <1>1, ArriveOK
  <1>2. ASSUME NEW p \in Pollers, Begin(p) PROVE IInv'
    BY <1>2, BeginOK
  <1>3. ASSUME NEW p \in Pollers, PollStep(p) PROVE IInv'
    BY <1>3, ListOK, PeekOK, FetchOK, RunDocumentOK, MarkOK, ReturnOK, FinishRunOK DEF PollStep
  <1>4. ASSUME NEW p \in Pollers, PollStops(p) PROVE IInv'
    BY <1>4, PollStopsOK
  <1>5. CASE UNCHANGED vars
    BY <1>5, StutterOK
  <1> QED BY <1>1, <1>2, <1>3, <1>4, <1>5 DEF Next

\* The inductive invariant holds of every behaviour of the pollers.
THEOREM Inductive == Spec => []IInv
  BY InitOK, StepOK, PTL DEF Spec

-----------------------------------------------------------------------------
\* Tables, folder and polls hold values of their domains, for every mailbox, window
\* and number of pollers (ingest_email.py:192-235, schema.sql:110-126).
THEOREM TypeCorrect == Spec => []TypeOK
  <1>1. IInv => TypeOK
    BY DEF IInv, Folder, Tables, PollsOK, PollOK, Placed, TypeOK
  <1> QED BY <1>1, Inductive, PTL

\* However polls overlap, raise or stop, a message that is marked is on record
\* (ingest_email.py:226-227).
THEOREM MarkedIsSafe == Spec => []MarkedIsRecorded
  <1>1. IInv => MarkedIsRecorded
    BY DEF IInv
  <1> QED BY <1>1, Inductive, PTL

\* Every message a poll has passed is marked (ingest_email.py:212-229).
THEOREM NoneSteppedOver == Spec => []NothingSteppedOver
  <1>1. IInv => NothingSteppedOver
    BY DEF IInv, PollsOK, PollOK, Passed, NothingSteppedOver
  <1> QED BY <1>1, Inductive, PTL

\* A poll runs no message that was marked when it began (ingest_email.py:193-227).
THEOREM NoneRunAgain == Spec => []MarkedIsNotRunAgain
  <1>1. IInv => MarkedIsNotRunAgain
    BY DEF IInv, PollsOK, PollOK, Informed, Message, MarkedIsNotRunAgain
  <1> QED BY <1>1, Inductive, PTL
=============================================================================
