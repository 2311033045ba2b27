----------------------------- MODULE PrintQueue -----------------------------
(***************************************************************************)
(* The print protocol of the GateKeeper: the three parallel queues of a    *)
(* PrintTask (auth_net_server/printtask.cpp), how do_docReady4print fills  *)
(* them, how checkCurrentFile and sendFileToDemon drain them, and the      *)
(* conversation that drives the draining: the wizard's print requests, the *)
(* modal questions put to the user, and the answers of the print daemon.   *)
(*                                                                         *)
(* One client (one uuid, one PrintTask) is modelled.  Every handler of the *)
(* GateKeeper runs to completion on its single event loop, so a handler is *)
(* one action; what interleaves are the four channels between the parties. *)
(* Messages that change no state at the other end (Ans_CreateFormatedDoc   *)
(* for this protocol, and Err_Message, which Engine::parseMessage drops)   *)
(* are left out.                                                           *)
(***************************************************************************)
EXTENDS Integers, Sequences, FiniteSets

CONSTANTS
  Docs,       \* the documents the pipeline may hand over: each a function
              \* from its copies 1..n to the pages prepared for that copy
  PageCount,  \* PrintTask::m_pageCount, the copies asked for a reverse side
  FileSize,   \* size in bytes of the file of each kind of page
  MaxPreps,   \* bound: how often a document is prepared for printing
  MaxClicks,  \* bound: how often the user presses "Print" on the preview
  Patient,    \* TRUE: the user presses it only when nothing is under way
  Faults      \* the faults that may happen, a subset of FaultKinds

(***************************************************************************)
(* The eight places of orderList, by their keys.  An entry of the queue is *)
(* named by its copy and its key: even keys are the markers 111, 222, 333  *)
(* and 444, key 7 is the label of the copy, which is no integer.           *)
(***************************************************************************)
Begin == 0
Face == 1
Flip == 2
Over == 3
CheckLast == 4
LastPage == 5
Mark == 6
Label == 7

Pages == {Face, Over, LastPage}
Markers == {Begin, Flip, CheckLast, Mark}
Copies == 1..5
Item == [copy : Copies, slot : 0..7]
FaultKinds == {"nospace", "printfail", "netlost", "clientgone"}

ASSUME PrintQueueAssumption ==
  /\ \A d \in Docs : \E n \in Copies : d \in [1..n -> SUBSET Pages]
  /\ PageCount \in Nat \ {0}
  /\ FileSize \in [Pages -> Nat \ {0}]
  /\ MaxPreps \in Nat
  /\ MaxClicks \in Nat
  /\ Patient \in BOOLEAN
  /\ Faults \subseteq FaultKinds

VARIABLES
  files,      \* PrintTask::m_queueFiles2Print
  copies,     \* PrintTask::m_PrintDocCopies
  sizes,      \* PrintTask::m_FileSizes
  toClient,   \* markers on their way to the wizard
  dialogs,    \* the wizard's open message boxes, the topmost last
  toGate,     \* what the wizard sent: "PRINT", "BRAK" or "CLEAR"
  toDaemon,   \* requests on the network channel
  fromDaemon, \* answers of the daemon
  online,     \* the client is connected to the GateKeeper
  netUp,      \* the GateKeeper is connected to the daemon
  preps,      \* documents prepared so far (bounded by MaxPreps)
  clicks,     \* presses of "Print" so far (bounded by MaxClicks)
  doc,        \* history: the document prepared last
  checked,    \* history: size named in the last Que_CheckFileSize
  sent,       \* history: files sent since the last preparation
  confirmed,  \* history: questions the user answered with "Print"
  saved,      \* history: verdicts that reached the daemon
  silent      \* history: the daemon took a request and gave no answer

queues == <<files, copies, sizes>>
channels == <<toClient, dialogs, toGate, toDaemon, fromDaemon>>
history == <<doc, checked, sent, confirmed, saved, silent>>
vars == <<queues, channels, online, netUp, preps, clicks, history>>

IsPage(it) == it.slot \in Pages

\* Mutant: a file that cannot be opened has size -1.
SizeOf_minusOne(it) == IF IsPage(it) THEN FileSize[it.slot] ELSE -1

SizeOf(it) == IF IsPage(it) THEN FileSize[it.slot] ELSE 0
CopiesOf(it) == IF it.slot = Over THEN PageCount ELSE 1

Request ==
  [type : {"CHECK"}, size : Nat]
    \cup [type : {"FILE"}, item : Item, copies : Nat]
    \cup [type : {"SAVE"}, verdict : {"BRAK", "CLEAR"}]

Answer == {"CheckOk", "CheckFail", "PrintOk", "PrintFail"}

TypeOK ==
  /\ files \in Seq(Item)
  /\ copies \in Seq(Nat)
  /\ sizes \in Seq(Nat)
  /\ toClient \in Seq(Item)
  /\ dialogs \in Seq(Item)
  /\ toGate \in Seq({"PRINT", "BRAK", "CLEAR"})
  /\ toDaemon \in Seq(Request)
  /\ fromDaemon \in Seq(Answer)
  /\ online \in BOOLEAN
  /\ netUp \in BOOLEAN
  /\ preps \in Nat
  /\ clicks \in Nat
  /\ doc \in Docs \cup {<<>>}
  /\ checked \in Nat
  /\ sent \in Seq([item : Item, size : Nat, copies : Nat])
  /\ confirmed \subseteq Item
  /\ saved \in Seq({"BRAK", "CLEAR"})
  /\ silent \in BOOLEAN

-----------------------------------------------------------------------------
(* What do_docReady4print puts in the queue.                               *)

\* The keys of orderList for a copy with these pages; the end-of-copy marker
\* and the label come with any page at all.
OrderKeys(pages) ==
  {Begin} \cup pages
    \cup {k - 1 : k \in pages \cap {Over, LastPage}}
    \cup (IF pages = {} THEN {} ELSE {Mark, Label})

\* The loop counts orderList's entries and looks the keys up by number, so an
\* entry whose key is not below the number of entries is not enqueued.
Entry(c, pages, l) ==
  IF l \in OrderKeys(pages) /\ l < Cardinality(OrderKeys(pages))
    THEN <<[copy |-> c, slot |-> l]>> ELSE <<>>

\* Mutants: the end-of-copy marker comes before the last page; the reverse
\* side comes before the face.
CopyOrder_markEarly(c, pages) ==
  Entry(c, pages, 0) \o Entry(c, pages, 1) \o Entry(c, pages, 2)
    \o Entry(c, pages, 3) \o Entry(c, pages, 6) \o Entry(c, pages, 7)
    \o Entry(c, pages, 4) \o Entry(c, pages, 5)
CopyOrder_overFirst(c, pages) ==
  Entry(c, pages, 0) \o Entry(c, pages, 2) \o Entry(c, pages, 3)
    \o Entry(c, pages, 1) \o Entry(c, pages, 4) \o Entry(c, pages, 5)
    \o Entry(c, pages, 6) \o Entry(c, pages, 7)

CopyOrder(c, pages) ==
  Entry(c, pages, 0) \o Entry(c, pages, 1) \o Entry(c, pages, 2)
    \o Entry(c, pages, 3) \o Entry(c, pages, 4) \o Entry(c, pages, 5)
    \o Entry(c, pages, 6) \o Entry(c, pages, 7)

CopyPart(d, c) == IF c \in DOMAIN d THEN CopyOrder(c, d[c]) ELSE <<>>

\* A document has one to five copies (the recipients of the document card).
DocOrder(d) ==
  CopyPart(d, 1) \o CopyPart(d, 2) \o CopyPart(d, 3)
    \o CopyPart(d, 4) \o CopyPart(d, 5)

-----------------------------------------------------------------------------
Init ==
  /\ files = <<>> /\ copies = <<>> /\ sizes = <<>>
  /\ toClient = <<>> /\ dialogs = <<>> /\ toGate = <<>>
  /\ toDaemon = <<>> /\ fromDaemon = <<>>
  /\ online = TRUE /\ netUp = TRUE
  /\ preps = 0 /\ clicks = 0 /\ doc = <<>> /\ checked = 0
  /\ sent = <<>> /\ confirmed = {} /\ saved = <<>> /\ silent = FALSE

\* clearQueue empties the queue of names only; every entry is then enqueued
\* in all three queues.
EnqueueAll_pageCopies(order) ==    \* mutant: markers get no copy number
  /\ files' = order
  /\ copies' = copies \o SelectSeq([k \in DOMAIN order |-> CopiesOf(order[k])],
                                   LAMBDA n : n > 1)
  /\ sizes' = sizes \o [k \in DOMAIN order |-> SizeOf(order[k])]
EnqueueAll(order) ==
  /\ files' = order
  /\ copies' = copies \o [k \in DOMAIN order |-> CopiesOf(order[k])]
  /\ sizes' = sizes \o [k \in DOMAIN order |-> SizeOf(order[k])]

DocReady4print(d) ==
  /\ online
  /\ preps < MaxPreps
  /\ preps' = preps + 1
  /\ EnqueueAll(DocOrder(d))
  /\ doc' = d
  /\ sent' = <<>>
  /\ confirmed' = {}
  /\ UNCHANGED <<channels, online, netUp, clicks, checked, saved, silent>>

\* net_plugin::sendMessage: without a connection the message is dropped.
NetSend(m) == toDaemon' = IF netUp THEN Append(toDaemon, m) ELSE toDaemon

Dequeue(q) == IF q = <<>> THEN q ELSE Tail(q)
HeadOr(q, default) == IF q = <<>> THEN default ELSE Head(q)

CurrentSize == HeadOr(sizes, 0)

-----------------------------------------------------------------------------
(* checkCurrentFile: the size at the head of its own queue decides what    *)
(* the name at the head of the other one is taken for.                     *)

\* Size zero and a name that is an integer: the marker goes to the wizard.
\* For 444 the label that follows is taken off the queue of names too.
SendMarker_keepsCopies ==    \* mutant: the copy number stays
  /\ CurrentSize = 0
  /\ Head(files).slot \in Markers
  /\ files' = IF Head(files).slot = Mark THEN Dequeue(Tail(files))
                                         ELSE Tail(files)
  /\ sizes' = Dequeue(sizes)
  /\ toClient' = Append(toClient, Head(files))
  /\ UNCHANGED <<copies, toDaemon, checked>>
SendMarker_takesTwo ==    \* mutant: every marker takes the next name along
  /\ CurrentSize = 0
  /\ Head(files).slot \in Markers
  /\ files' = Dequeue(Tail(files))
  /\ copies' = Dequeue(copies)
  /\ sizes' = Dequeue(sizes)
  /\ toClient' = Append(toClient, Head(files))
  /\ UNCHANGED <<toDaemon, checked>>
SendMarker ==
  /\ CurrentSize = 0
  /\ Head(files).slot \in Markers
  /\ files' = IF Head(files).slot = Mark THEN Dequeue(Tail(files))
                                         ELSE Tail(files)
  /\ copies' = Dequeue(copies)
  /\ sizes' = Dequeue(sizes)
  /\ toClient' = Append(toClient, Head(files))
  /\ UNCHANGED <<toDaemon, checked>>

\* Size zero and a name that is no integer: it is dequeued, nothing is sent.
DropName ==
  /\ CurrentSize = 0
  /\ Head(files).slot \notin Markers
  /\ files' = Tail(files)
  /\ sizes' = Dequeue(sizes)
  /\ UNCHANGED <<copies, toClient, toDaemon, checked>>

\* checkFreeSpaceInDemon: the name stays in the queue until the answer.
CheckFreeSpace ==
  /\ CurrentSize > 0
  /\ sizes' = Tail(sizes)
  /\ NetSend([type |-> "CHECK", size |-> Head(sizes)])
  /\ checked' = Head(sizes)
  /\ UNCHANGED <<files, copies, toClient>>

CheckCurrentFile ==
  \/ /\ files = <<>>
     /\ UNCHANGED <<queues, toClient, toDaemon, checked>>
  \/ /\ files # <<>>
     /\ SendMarker \/ DropName \/ CheckFreeSpace

\* sendFileToDemon: whatever name is at the head goes out as a file.
SendFileToDaemon ==
  \/ /\ files = <<>>
     /\ UNCHANGED <<files, copies, toDaemon, sent>>
  \/ /\ files # <<>>
     /\ files' = Tail(files)
     /\ copies' = Dequeue(copies)
     /\ NetSend([type |-> "FILE", item |-> Head(files),
                 copies |-> HeadOr(copies, 1)])
     /\ sent' = Append(sent, [item |-> Head(files), size |-> checked,
                              copies |-> HeadOr(copies, 1)])

-----------------------------------------------------------------------------
(* The GateKeeper's handlers.                                              *)

GateReceivesPrint ==
  /\ toGate # <<>> /\ Head(toGate) = "PRINT"
  /\ toGate' = Tail(toGate)
  /\ CheckCurrentFile
  /\ UNCHANGED <<dialogs, fromDaemon, online, netUp, preps, clicks,
                 doc, sent, confirmed, saved, silent>>

GateReceivesVerdict_dropped ==    \* mutant: the verdict is not passed on
  /\ toGate # <<>> /\ Head(toGate) # "PRINT"
  /\ toGate' = Tail(toGate)
  /\ UNCHANGED <<queues, toClient, dialogs, toDaemon, fromDaemon, online,
                 netUp, preps, clicks, history>>

GateReceivesVerdict ==
  /\ toGate # <<>> /\ Head(toGate) # "PRINT"
  /\ toGate' = Tail(toGate)
  /\ NetSend([type |-> "SAVE", verdict |-> Head(toGate)])
  /\ UNCHANGED <<queues, toClient, dialogs, fromDaemon, online, netUp,
                 preps, clicks, history>>

\* An answer for a client that has gone finds no socket and is dropped; the
\* two failures become an Err_Message, and the queues stay as they are.
GateReceivesAnswer ==
  /\ fromDaemon # <<>>
  /\ fromDaemon' = Tail(fromDaemon)
  /\ \/ /\ online /\ Head(fromDaemon) = "CheckOk"
        /\ SendFileToDaemon
        /\ UNCHANGED <<sizes, toClient, checked>>
     \/ /\ online /\ Head(fromDaemon) = "PrintOk"
        /\ CheckCurrentFile
        /\ UNCHANGED sent
     \/ /\ ~online \/ Head(fromDaemon) \in {"CheckFail", "PrintFail"}
        /\ UNCHANGED <<queues, toClient, toDaemon, checked, sent>>
  /\ UNCHANGED <<dialogs, toGate, online, netUp, preps, clicks, doc,
                 confirmed, saved, silent>>

-----------------------------------------------------------------------------
(* The wizard and its user.                                                *)

Idle ==
  /\ toGate = <<>> /\ toClient = <<>> /\ dialogs = <<>>
  /\ toDaemon = <<>> /\ fromDaemon = <<>>

\* PreViewPage::enableNext.  A message box is application modal: the wizard's
\* buttons are dead while one is open.
UserPrints ==
  /\ online
  /\ dialogs = <<>>
  /\ clicks < MaxClicks
  /\ Patient => Idle /\ files # <<>>
  /\ clicks' = clicks + 1
  /\ toGate' = Append(toGate, "PRINT")
  /\ UNCHANGED <<queues, toClient, dialogs, toDaemon, fromDaemon, online,
                 netUp, preps, history>>

\* Que_BeginPrintCopies is answered at once; the other markers open a box,
\* whose own event loop may let further messages in (module Framing).
ClientReceivesMarker_flipsAlone ==    \* mutant: 222 is answered like 111
  /\ toClient # <<>>
  /\ toClient' = Tail(toClient)
  /\ IF Head(toClient).slot \in {Begin, Flip}
       THEN /\ toGate' = Append(toGate, "PRINT")
            /\ UNCHANGED dialogs
       ELSE /\ dialogs' = Append(dialogs, Head(toClient))
            /\ UNCHANGED toGate
  /\ UNCHANGED <<queues, toDaemon, fromDaemon, online, netUp, preps,
                 clicks, history>>
ClientReceivesMarker ==
  /\ toClient # <<>>
  /\ toClient' = Tail(toClient)
  /\ IF Head(toClient).slot = Begin
       THEN /\ toGate' = Append(toGate, "PRINT")
            /\ UNCHANGED dialogs
       ELSE /\ dialogs' = Append(dialogs, Head(toClient))
            /\ UNCHANGED toGate
  /\ UNCHANGED <<queues, toDaemon, fromDaemon, online, netUp, preps,
                 clicks, history>>

TopDialog == dialogs[Len(dialogs)]

UserConfirms_boxStays ==    \* mutant: the box is not closed
  /\ dialogs # <<>>
  /\ TopDialog.slot # Mark
  /\ toGate' = Append(toGate, "PRINT")
  /\ confirmed' = confirmed \cup {TopDialog}
  /\ UNCHANGED <<queues, toClient, dialogs, toDaemon, fromDaemon, online,
                 netUp, preps, clicks, doc, checked, sent, saved,
                 silent>>

\* "Print" in the boxes do_UserNeedFlipPages and do_UserNeedCheckLastPage.
UserConfirms ==
  /\ dialogs # <<>>
  /\ TopDialog.slot # Mark
  /\ dialogs' = SubSeq(dialogs, 1, Len(dialogs) - 1)
  /\ toGate' = Append(toGate, "PRINT")
  /\ confirmed' = confirmed \cup {TopDialog}
  /\ UNCHANGED <<queues, toClient, toDaemon, fromDaemon, online, netUp,
                 preps, clicks, doc, checked, sent, saved, silent>>

\* "Cancel" in those boxes marks the copy as spoilt, as does "Brak" in the
\* box that asks for the verdict; only the latter can be answered "Clear".
UserJudges(verdict) ==
  /\ dialogs # <<>>
  /\ verdict = "CLEAR" => TopDialog.slot = Mark
  /\ dialogs' = SubSeq(dialogs, 1, Len(dialogs) - 1)
  /\ toGate' = Append(toGate, verdict)
  /\ UNCHANGED <<queues, toClient, toDaemon, fromDaemon, online, netUp,
                 preps, clicks, history>>

-----------------------------------------------------------------------------
(* The daemon and faults.  The GateKeeper expects the answers of handlers   *)
(* 317-334 in servergears.cpp; sptsd, the daemon of this repository, gives  *)
(* none to these requests: it prints a file without a word (sptsd.cpp       *)
(* 43-54) and leaves the others to its default branch (196).  So any        *)
(* request may go unanswered, and that is no fault.                         *)

DaemonReplies(ok, fail, fault) ==
  /\ \/ /\ fromDaemon' = Append(fromDaemon, ok)
        /\ UNCHANGED silent
     \/ /\ fault \in Faults
        /\ fromDaemon' = Append(fromDaemon, fail)
        /\ UNCHANGED silent
     \/ /\ silent' = TRUE
        /\ UNCHANGED fromDaemon
  /\ UNCHANGED saved

\* Nobody waits for an answer to a verdict.
DaemonHandles ==
  /\ toDaemon # <<>>
  /\ toDaemon' = Tail(toDaemon)
  /\ LET m == Head(toDaemon) IN
     \/ m.type = "CHECK" /\ DaemonReplies("CheckOk", "CheckFail", "nospace")
     \/ m.type = "FILE" /\ DaemonReplies("PrintOk", "PrintFail", "printfail")
     \/ /\ m.type = "SAVE"
        /\ saved' = Append(saved, m.verdict)
        /\ UNCHANGED <<fromDaemon, silent>>
  /\ UNCHANGED <<queues, toClient, dialogs, toGate, online, netUp, preps,
                 clicks, doc, checked, sent, confirmed>>

\* The connection to the daemon breaks; net_plugin never reconnects.
NetLost ==
  /\ "netlost" \in Faults
  /\ netUp
  /\ netUp' = FALSE
  /\ toDaemon' = <<>> /\ fromDaemon' = <<>>
  /\ UNCHANGED <<queues, toClient, dialogs, toGate, online, preps, clicks,
                 history>>

\* The client disconnects or dies; its PrintTask stays as it is.
ClientGone ==
  /\ "clientgone" \in Faults
  /\ online
  /\ online' = FALSE
  /\ toGate' = <<>> /\ toClient' = <<>> /\ dialogs' = <<>>
  /\ UNCHANGED <<queues, toDaemon, fromDaemon, netUp, preps, clicks, history>>

-----------------------------------------------------------------------------
System ==
  \/ GateReceivesPrint
  \/ GateReceivesVerdict
  \/ GateReceivesAnswer
  \/ ClientReceivesMarker
  \/ DaemonHandles

User ==
  \/ UserPrints
  \/ UserConfirms
  \/ \E verdict \in {"BRAK", "CLEAR"} : UserJudges(verdict)

Next ==
  \/ \E d \in Docs : DocReady4print(d)
  \/ System
  \/ User
  \/ NetLost
  \/ ClientGone

Spec == Init /\ [][Next]_vars

\* Event loops run, what is sent over a link reaches the daemon, and a user
\* faced with a modal box sooner or later closes it; nobody has to press
\* "Print", and the daemon does not have to answer.
Fairness ==
  /\ WF_vars(GateReceivesPrint)
  /\ WF_vars(GateReceivesVerdict)
  /\ WF_vars(GateReceivesAnswer)
  /\ WF_vars(ClientReceivesMarker)
  /\ WF_vars(DaemonHandles)
  /\ WF_vars(UserConfirms \/ \E v \in {"BRAK", "CLEAR"} : UserJudges(v))

FairSpec == Spec /\ Fairness

-----------------------------------------------------------------------------
(* Properties.                                                             *)

Before(a, b) ==
  \/ a.copy < b.copy
  \/ a.copy = b.copy /\ a.slot < b.slot

\* Whatever the user, the daemon and the network do, the files of a prepared
\* document go to the daemon in the order of the queue and none goes twice:
\* the name is dequeued before anything is sent (servergears.cpp 991-993).
SentInOrder ==
  \A i, j \in DOMAIN sent : i < j => Before(sent[i].item, sent[j].item)

\* The queue of copy numbers never runs out before the queue of names, not
\* even after repeated requests, refusals and a second preparation, so that
\* sendFileToDemon never falls back on getPagesInDocCount's default of 1.
CopiesNeverRunDry == Len(files) <= Len(copies)

Tokens ==
  Len(toGate) + Len(toClient) + Len(dialogs) + Len(toDaemon) + Len(fromDaemon)

\* A press of "Print" starts one chain of messages, which never forks: what
\* is in the channels and on the screen, together with the verdicts
\* that reached the daemon, is never more than the presses.
OneVerdictPerClick == Tokens + Len(saved) <= clicks

\* With one press, every file is sent after the daemon was asked for exactly
\* its size, with the number of copies meant for it, and no marker goes out
\* as a file: the three queues of the PrintTask stay aligned.
SentAsPrepared ==
  \A i \in DOMAIN sent :
    /\ IsPage(sent[i].item)
    /\ sent[i].size = SizeOf(sent[i].item)
    /\ sent[i].copies = CopiesOf(sent[i].item)

\* The reverse side and the last page are sent only after the user confirmed
\* that the sheets of this copy were turned, or the last sheet put in.
SidesConfirmed ==
  \A i \in DOMAIN sent :
    sent[i].item.slot \in {Over, LastPage} =>
      [sent[i].item EXCEPT !.slot = @ - 1] \in confirmed

\* The user is asked for the verdict on a copy only when every page prepared
\* for that copy has gone to the daemon.
VerdictAfterLastPage ==
  LET asked == toClient \o dialogs IN
  \A k \in DOMAIN asked :
    asked[k].slot = Mark =>
      \A p \in doc[asked[k].copy] :
        \E i \in DOMAIN sent :
          sent[i].item = [copy |-> asked[k].copy, slot |-> p]

\* A page leaves the queue only by being sent: checkCurrentFile never takes
\* "a file of more than 0 bytes" for a marker (servergears.cpp 1075).
PagesOnlyLeaveSent ==
  [][preps' = preps =>
       \A k \in DOMAIN files : IsPage(files[k]) =>
         \/ \E n \in DOMAIN files' : files'[n] = files[k]
         \/ \E i \in DOMAIN sent' : sent'[i].item = files[k]]_vars

Refused == \E k \in DOMAIN fromDaemon : fromDaemon[k] \in {"CheckFail", "PrintFail"}

\* Once the wizard was told that a copy is being printed, and the copy has its
\* marker 444 in the queue, the chain of messages does not get lost between
\* wizard and GateKeeper: sooner or later a verdict is sent to the daemon
\* (mytypes.h 420: the user must mark the copy), unless the daemon left a
\* request without an answer or refused one, or the link or the wizard is lost.
StartedIsJudged ==
  (\E k \in DOMAIN toClient, n \in DOMAIN files :
     toClient[k].slot = Begin /\ files[n] = [toClient[k] EXCEPT !.slot = Mark])
    ~> saved # <<>> \/ silent \/ Refused \/ ~netUp \/ ~online

=============================================================================
