-------------------------------- MODULE Sptsd --------------------------------
(***************************************************************************)
(* The print daemon: an object of class sptsd for the connection of a      *)
(* GateKeeper, which carries the requests of all its clients, and the      *)
(* object's own connection to SURD, the access control system.             *)
(*                                                                         *)
(* The object has one uid, one commandType and one surdCmd.  A request     *)
(* overwrites them whether or not the last one was answered; the answer of *)
(* SURD is parsed by the type and returned to the uid that are there when  *)
(* it comes, and the connection to SURD is closed.  Each call of           *)
(* readSocketData reads one packet, and with a packet that comes in two    *)
(* parts it reads the type before the uid.                                 *)
(***************************************************************************)
EXTENDS Integers, Sequences, FiniteSets

CONSTANTS
  Uids,     \* the clients of the GateKeeper
  None,     \* no client, no command
  Types,    \* the requests they make, a subset of AllTypes
  MaxAsks   \* bound: requests on one connection

\* The requests by what the code does with them.  Registration is answered at
\* once, a file printed without an answer, others ignored.  MANDAT_LIST,
\* AUTHOR_USER, SEC_LEVEL and GET_PRINTER_LIST make a command for SURD, and the
\* two MB requests send the one that is there.
Commands == {"MANDAT_LIST", "AUTHOR_USER", "SEC_LEVEL", "GET_PRINTER_LIST"}
ForSurd == Commands \cup {"IS_MB_EXIST", "RegisterDocInBase"}
AllTypes == ForSurd \cup {"RegisterGlobal", "PrintThisFile", "CheckFileSize"}

ASSUME SptsdAssumption ==
  /\ None \notin Uids
  /\ Types \subseteq AllTypes
  /\ MaxAsks \in Nat

VARIABLES
  wire,        \* requests on the way to the daemon
  sock,        \* requests in its socket, not read
  header,      \* size and type of Head(wire) were read, its data not
  uid, commandType,
  surdCmd,     \* the command for SURD
  surd,        \* the socket to SURD: idle, connecting or connected
  toSurd,      \* commands written to it
  fromSurd,    \* answers on the way back
  asked,       \* history: the requests made on this connection
  answers,     \* history: the answers given on it
  seen         \* history: what came in the way

conn == <<wire, sock, header>>
req == <<uid, commandType>>
vars == <<conn, req, surdCmd, surd, toSurd, fromSurd, asked, answers, seen>>

Request == [type : Types, uid : Uids]
\* A command, whose it is, and how often it was turned into EBCDIC.
Command == [type : Commands \cup {None}, of : Uids \cup {None},
            conv : Nat]
Reply == [type : {"RegisterGlobal", "MANDAT_LIST"}, uid : Uids,
          says : SUBSET Command]

TypeOK ==
  /\ wire \in Seq(Request) /\ sock \in Seq(Request)
  /\ header \in BOOLEAN
  /\ uid \in Uids \cup {None}
  /\ commandType \in Types \cup {None}
  /\ surdCmd \in Command
  /\ surd \in {"idle", "connecting", "connected"}
  /\ toSurd \in Seq(Command)
  /\ fromSurd \in Seq([to : Command, labels : BOOLEAN])
  /\ asked \in Seq(Request)
  /\ answers \in Seq(Reply)
  /\ seen \subseteq {"overlap", "split", "failed", "closed", "unable"}

NoCommand == [type |-> None, of |-> None, conv |-> 0]

\* The constructor; members that are not initialised are empty strings, and the
\* type is read before it is used.
Init ==
  /\ wire = <<>> /\ sock = <<>> /\ header = FALSE
  /\ uid = None /\ commandType = None
  /\ surdCmd = NoCommand /\ surd = "idle"
  /\ toSurd = <<>> /\ fromSurd = <<>>
  /\ asked = <<>> /\ answers = <<>>
  /\ seen = {}

\* A client asks.  The GateKeeper sends what comes; "overlap" says that the
\* daemon had not finished with the last request.
Ask(r) ==
  /\ Len(asked) < MaxAsks
  /\ wire' = Append(wire, r)
  /\ asked' = Append(asked, r)
  /\ seen' = IF wire = <<>> /\ sock = <<>> /\ ~header /\ surd = "idle"
               THEN seen ELSE seen \cup {"overlap"}
  /\ UNCHANGED <<sock, header, req, surdCmd, surd, toSurd, fromSurd, answers>>

-----------------------------------------------------------------------------
(* handleUserCommand.                                                      *)

\* surdSendRequest turns surdCmd itself into EBCDIC.  What is written to a
\* socket that is not connected yet is sent later or refused.
SendRequest(cmd) ==
  /\ surdCmd' = [cmd EXCEPT !.conv = @ + 1]
  /\ \/ toSurd' = Append(toSurd, surdCmd')
     \/ surd = "connecting" /\ surd' = surd /\ UNCHANGED toSurd

\* mutant: the MB requests name themselves to SURD
AskSurd_all(r) ==
  LET cmd == [type |-> r.type, of |-> r.uid, conv |-> 0]
  IN IF surd = "idle"
       THEN surd' = "connecting" /\ surdCmd' = cmd /\ UNCHANGED toSurd
       ELSE SendRequest(cmd) /\ UNCHANGED surd

\* SURD is connected first when it is not, and asked at once otherwise, also
\* while the connection is being made.
AskSurd(r) ==
  LET cmd == IF r.type \in Commands
               THEN [type |-> r.type, of |-> r.uid, conv |-> 0] ELSE surdCmd
  IN IF surd = "idle"
       THEN surd' = "connecting" /\ surdCmd' = cmd /\ UNCHANGED toSurd
       ELSE SendRequest(cmd) /\ UNCHANGED surd

\* mutant: the uid of the request before stays when it is for SURD
Handle_keepsUid(r) ==
  /\ uid' = IF r.type \in ForSurd /\ uid # None THEN uid ELSE r.uid
  /\ commandType' = r.type
  /\ IF r.type \in ForSurd
       THEN AskSurd(r) /\ UNCHANGED answers
       ELSE /\ answers' = IF r.type = "RegisterGlobal"
                            THEN Append(answers, [type |-> r.type, uid |-> r.uid,
                                                  says |-> {}])
                            ELSE answers
            /\ UNCHANGED <<surd, surdCmd, toSurd>>
  /\ UNCHANGED <<fromSurd, asked>>

Handle(r) ==
  /\ uid' = IF r.type = "PrintThisFile" THEN uid ELSE r.uid
  /\ commandType' = r.type
  /\ IF r.type \in ForSurd
       THEN AskSurd(r) /\ UNCHANGED answers
       ELSE /\ answers' = IF r.type = "RegisterGlobal"
                            THEN Append(answers, [type |-> r.type, uid |-> r.uid,
                                                  says |-> {}])
                            ELSE answers
            /\ UNCHANGED <<surd, surdCmd, toSurd>>
  /\ UNCHANGED <<fromSurd, asked>>

-----------------------------------------------------------------------------
(* readSocketData, called when data arrive.                                *)

First(s, k) == SubSeq(s, 1, k)
After(s, k) == SubSeq(s, k + 1, Len(s))

\* k packets arrive together; one is read, and the others wait for more data.
ArriveWhole(k) ==
  /\ ~header
  /\ wire' = After(wire, k)
  /\ LET all == sock \o First(wire, k)
     IN sock' = Tail(all) /\ Handle(Head(all))
  /\ UNCHANGED <<header, seen>>

\* Size and type of a packet arrive before the rest, and are read.
ArriveHeader ==
  /\ ~header /\ sock = <<>> /\ wire # <<>>
  /\ header' = TRUE
  /\ commandType' = Head(wire).type
  /\ seen' = seen \cup {"split"}
  /\ UNCHANGED <<wire, sock, uid, surdCmd, surd, toSurd, fromSurd, asked,
                 answers>>

ArriveRest(k) ==
  /\ header
  /\ header' = FALSE
  /\ wire' = After(wire, k)
  /\ sock' = Tail(First(wire, k))
  /\ Handle(Head(wire))
  /\ UNCHANGED seen

Arrive == ArriveHeader \/ \E k \in 1 .. Len(wire) : ArriveWhole(k) \/ ArriveRest(k)

-----------------------------------------------------------------------------
(* SURD.                                                                   *)

SurdConnected ==
  /\ surd = "connecting"
  /\ surd' = "connected"
  /\ SendRequest(surdCmd)
  /\ UNCHANGED <<conn, req, fromSurd, asked, answers, seen>>

\* SURD refuses or closes; no slot is connected to either.
SurdFails ==
  /\ surd # "idle"
  /\ surd' = "idle"
  /\ toSurd' = <<>> /\ fromSurd' = <<>>
  /\ seen' = seen \cup {"failed"}
  /\ UNCHANGED <<conn, req, surdCmd, asked, answers>>

\* It answers each command, with labels or with UNABLE TO LOCATE.
SurdAnswers(labels) ==
  /\ surd = "connected" /\ toSurd # <<>>
  /\ toSurd' = Tail(toSurd)
  /\ fromSurd' = Append(fromSurd, [to |-> Head(toSurd), labels |-> labels])
  /\ seen' = IF labels THEN seen ELSE seen \cup {"unable"}
  /\ UNCHANGED <<conn, req, surdCmd, surd, asked, answers>>

SurdReadyRead_staysOpen(k) ==    \* mutant: the connection is not closed
  /\ surd = "connected"
  /\ answers' =
       IF commandType = "MANDAT_LIST" /\ \E i \in 1 .. k : fromSurd[i].labels
         THEN Append(answers,
                     [type |-> commandType, uid |-> uid,
                      says |-> {fromSurd[i].to : i \in 1 .. k}])
         ELSE answers
  /\ fromSurd' = After(fromSurd, k)
  /\ UNCHANGED <<conn, req, surdCmd, surd, toSurd, asked, seen>>

SurdReadyRead_silent(k) ==    \* mutant: the answer is not returned
  /\ surd = "connected"
  /\ surd' = "idle"
  /\ toSurd' = <<>> /\ fromSurd' = <<>>
  /\ UNCHANGED <<conn, req, surdCmd, asked, answers, seen>>

\* What is there is parsed by the type of the request read last.  Only a list
\* of labels is returned, all other answers just logged; then the connection is
\* closed, and what was still to come is lost.
SurdReadyRead(k) ==
  /\ surd = "connected"
  /\ answers' =
       IF commandType = "MANDAT_LIST" /\ \E i \in 1 .. k : fromSurd[i].labels
         THEN Append(answers,
                     [type |-> commandType, uid |-> uid,
                      says |-> {fromSurd[i].to : i \in 1 .. k}])
         ELSE answers
  /\ surd' = "idle"
  /\ toSurd' = <<>> /\ fromSurd' = <<>>
  /\ UNCHANGED <<conn, req, surdCmd, asked, seen>>

SurdStep ==
  \/ SurdConnected
  \/ \E labels \in BOOLEAN : SurdAnswers(labels)
  \/ \E k \in 1 .. Len(fromSurd) : SurdReadyRead(k)

\* The GateKeeper's connection is closed and the object deleted; the next
\* connection has an object of its own.
ConnectionClosed ==
  /\ asked # <<>>
  /\ wire' = <<>> /\ sock' = <<>> /\ header' = FALSE
  /\ uid' = None /\ commandType' = None
  /\ surdCmd' = NoCommand /\ surd' = "idle"
  /\ toSurd' = <<>> /\ fromSurd' = <<>>
  /\ asked' = <<>> /\ answers' = <<>>
  /\ seen' = {"closed"}

Next ==
  \/ \E r \in Request : Ask(r)
  \/ Arrive \/ SurdStep \/ SurdFails \/ ConnectionClosed

Spec == Init /\ [][Next]_vars

\* Data arrive, SURD accepts and answers, the event loop runs.
FairSpec == Spec /\ WF_vars(Arrive \/ SurdStep)

-----------------------------------------------------------------------------
(* Properties.                                                             *)

Alone == "overlap" \notin seen

\* A client that is served alone gets the answer to its own question, which
\* reached SURD as a command converted once.
AnswersOwnQuestion ==
  Alone =>
    \A i \in DOMAIN answers :
      LET a == answers[i]
      IN a.type = "MANDAT_LIST" =>
           a.says = {[type |-> "MANDAT_LIST", of |-> a.uid, conv |-> 1]}

Count(s, t, u) == Cardinality({i \in DOMAIN s : s[i].type = t /\ s[i].uid = u})

\* No client gets more answers than it asked questions of that kind, however
\* the requests of all of them overlap and the packets join, unless a packet
\* comes in two parts.
NoMoreAnswersThanAsked ==
  "split" \notin seen =>
    \A u \in Uids, t \in {"RegisterGlobal", "MANDAT_LIST"} :
      Count(answers, t, u) <= Count(asked, t, u)

Answered(u) == Count(answers, "MANDAT_LIST", u) = Count(asked, "MANDAT_LIST", u)

\* A client that is served alone gets its list of mandates, when SURD has one,
\* also if the request comes in parts.
LoneQuestionIsAnswered ==
  \A u \in Uids : ~Answered(u) ~> Answered(u) \/ seen \ {"split", "closed"} # {}

=============================================================================
