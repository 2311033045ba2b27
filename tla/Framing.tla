------------------------------- MODULE Framing -------------------------------
(***************************************************************************)
(* How messages are cut out of a byte stream: Message::createPacket writes *)
(* the size of the rest, the type and the data, and a readyRead slot that  *)
(* three classes have in common (serverGears, mySocketClient, net_plugin)  *)
(* puts the packets together again, however the stream was split or        *)
(* joined on its way.  A stream is a sequence of units; the size field has *)
(* two of them, so that it may arrive in part.                             *)
(*                                                                         *)
(* The size read last is a member of the class: mySocketClient and         *)
(* net_plugin have one connection each, serverGears one for every client.  *)
(* Handling a message may open a message box, whose event loop delivers    *)
(* further data; the slot then runs again inside itself, or is not called  *)
(* again until it returns: both are allowed here, as platforms differ.     *)
(***************************************************************************)
EXTENDS Integers, Sequences, FiniteSets

CONSTANTS
  Conns,     \* the connections that share one packetSize
  Lengths,   \* the lengths of a packet after its size field, in units
  MaxSends,  \* bound: messages sent on a connection
  Modal,     \* TRUE: handling a message may run an event loop
  Drops      \* TRUE: a connection may close

ASSUME FramingAssumption ==
  /\ Lengths \subseteq Nat \ {0}
  /\ MaxSends \in Nat
  /\ Modal \in BOOLEAN
  /\ Drops \in BOOLEAN

VARIABLES
  open,        \* the connections that are open
  wire,        \* units sent and not arrived, by connection
  sock,        \* units arrived and not read (bytesAvailable), by connection
  packetSize,  \* the member of that name, -1 between packets
  slots,       \* the running calls of readyRead, the innermost last
  sent,        \* number of messages sent, by connection
  handled      \* history: messages handled, by connection

vars == <<open, wire, sock, packetSize, slots, sent, handled>>

SizeUnits == 2
Numbers == 1..MaxSends
Torn == 0    \* what a packet read out of place is taken for
Unit == [nr : Nat \ {0}, len : Lengths, at : Nat \ {0}]
Slot == [conn : Conns, handling : BOOLEAN]

TypeOK ==
  /\ open \subseteq Conns
  /\ wire \in [Conns -> Seq(Unit)]
  /\ sock \in [Conns -> Seq(Unit)]
  /\ packetSize \in Nat \cup {-1}
  /\ slots \in Seq(Slot)
  /\ sent \in [Conns -> Nat]
  /\ handled \in [Conns -> Seq(Nat)]

-----------------------------------------------------------------------------
\* createPacket: the size field and the units it counts.
Packet(nr, len) ==
  [i \in 1..SizeUnits + len |-> [nr |-> nr, len |-> len, at |-> i]]

LastOf(u) == u.at = SizeUnits + u.len

\* The first n units of a stream, and what comes after them.
Front(s, n) == SubSeq(s, 1, n)
Rest(s, n) == SubSeq(s, n + 1, Len(s))

\* What two units are read as: the size of the packet they begin, or any size
\* when they are not the size field of a packet.
SizeField(s) == s[1].at = 1 /\ s[2].at = 2 /\ s[1].nr = s[2].nr

Declared_withoutType(s) ==    \* mutant: the type is not counted
  IF SizeField(s) THEN {s[1].len - 3} ELSE Lengths \cup {0}
Declared(s) ==
  IF SizeField(s) THEN {s[1].len} ELSE Lengths \cup {0}

\* Type and data are whole when the stream stands behind a size field and
\* nothing of the packet is missing; what is read otherwise is no message.
Whole(s) == s[1].at = SizeUnits + 1 /\ Len(s) >= s[1].len
Taken(s) == IF Whole(s) THEN {s[1].len} ELSE 1..Len(s)
ReadAs(s) == IF Whole(s) THEN s[1].nr ELSE Torn

-----------------------------------------------------------------------------
Init ==
  /\ open = Conns
  /\ wire = [c \in Conns |-> <<>>]
  /\ sock = [c \in Conns |-> <<>>]
  /\ packetSize = -1
  /\ slots = <<>>
  /\ sent = [c \in Conns |-> 0]
  /\ handled = [c \in Conns |-> <<>>]

\* sendMessage at the other end writes a packet.
Send(c, len) ==
  /\ c \in open
  /\ sent[c] < MaxSends
  /\ sent' = [sent EXCEPT ![c] = @ + 1]
  /\ wire' = [wire EXCEPT ![c] = @ \o Packet(sent[c] + 1, len)]
  /\ UNCHANGED <<open, sock, packetSize, slots, handled>>

Top == slots[Len(slots)]
Conn == Top.conn
Below == Front(slots, Len(slots) - 1)

\* An event loop runs when no slot does, or inside the handling of a message.
Dispatching == slots # <<>> => Modal /\ Top.handling

\* Some units arrive and readyRead is emitted.  It may not be emitted again
\* while a slot connected to it is running.
Arrive(c, n) ==
  /\ c \in open
  /\ Dispatching
  /\ sock' = [sock EXCEPT ![c] = @ \o Front(wire[c], n)]
  /\ wire' = [wire EXCEPT ![c] = Rest(@, n)]
  /\ \/ slots' = Append(slots, [conn |-> c, handling |-> FALSE])
     \/ (\E i \in DOMAIN slots : slots[i].conn = c) /\ UNCHANGED slots
  /\ UNCHANGED <<open, packetSize, sent, handled>>

\* The loop of readyRead, one step for each of its reads.
Reading == slots # <<>> /\ ~Top.handling
Available == Len(sock[Conn])

ReadSize_anyLength ==    \* mutant: part of the size field is enough
  /\ Reading
  /\ packetSize = -1
  /\ Available > 0
  /\ packetSize' \in IF Available >= SizeUnits THEN Declared(sock[Conn])
                                              ELSE Lengths
  /\ sock' = [sock EXCEPT ![Conn] = Rest(@, SizeUnits)]
  /\ UNCHANGED <<open, wire, slots, sent, handled>>

ReadSize ==
  /\ Reading
  /\ packetSize = -1
  /\ Available >= SizeUnits
  /\ packetSize' \in Declared(sock[Conn])
  /\ sock' = [sock EXCEPT ![Conn] = Rest(@, SizeUnits)]
  /\ UNCHANGED <<open, wire, slots, sent, handled>>

TakePacket_keepsSize ==    \* mutant: packetSize is not reset
  /\ Reading
  /\ packetSize # -1
  /\ Available > 0 /\ Available >= packetSize
  /\ \E n \in Taken(sock[Conn]) : sock' = [sock EXCEPT ![Conn] = Rest(@, n)]
  /\ handled' = [handled EXCEPT ![Conn] = Append(@, ReadAs(sock[Conn]))]
  /\ slots' = [slots EXCEPT ![Len(slots)].handling = TRUE]
  /\ UNCHANGED <<open, wire, packetSize, sent>>

\* The size is reset before the message is handled.
TakePacket ==
  /\ Reading
  /\ packetSize # -1
  /\ Available > 0 /\ Available >= packetSize
  /\ packetSize' = -1
  /\ \E n \in Taken(sock[Conn]) : sock' = [sock EXCEPT ![Conn] = Rest(@, n)]
  /\ handled' = [handled EXCEPT ![Conn] = Append(@, ReadAs(sock[Conn]))]
  /\ slots' = [slots EXCEPT ![Len(slots)].handling = TRUE]
  /\ UNCHANGED <<open, wire, sent>>

HandlerReturns_ends ==    \* mutant: one packet for each readyRead
  /\ slots # <<>> /\ Top.handling
  /\ slots' = Below
  /\ UNCHANGED <<open, wire, sock, packetSize, sent, handled>>

\* The message is dealt with, and the loop goes on.
HandlerReturns ==
  /\ slots # <<>> /\ Top.handling
  /\ slots' = [slots EXCEPT ![Len(slots)].handling = FALSE]
  /\ UNCHANGED <<open, wire, sock, packetSize, sent, handled>>

\* Nothing to read, or not enough of it.
SlotReturns ==
  /\ Reading
  /\ \/ Available = 0
     \/ packetSize = -1 /\ Available < SizeUnits
     \/ packetSize # -1 /\ Available < packetSize
  /\ slots' = Below
  /\ UNCHANGED <<open, wire, sock, packetSize, sent, handled>>

\* The other end has gone: what has not arrived is lost, and packetSize stays.
Disconnected(c) ==
  /\ Drops
  /\ c \in open
  /\ Dispatching
  /\ open' = open \ {c}
  /\ wire' = [wire EXCEPT ![c] = <<>>]
  /\ UNCHANGED <<sock, packetSize, slots, sent, handled>>

-----------------------------------------------------------------------------
Next ==
  \/ \E c \in Conns : \E len \in Lengths : Send(c, len)
  \/ \E c \in Conns : \E n \in 1..Len(wire[c]) : Arrive(c, n)
  \/ ReadSize
  \/ TakePacket
  \/ HandlerReturns
  \/ SlotReturns
  \/ \E c \in Conns : Disconnected(c)

Spec == Init /\ [][Next]_vars

\* What was sent arrives, event loops run, and handlers return (a user closes
\* the message box in front of him); nobody has to send anything.
Fairness ==
  /\ \A c \in Conns : WF_vars(\E n \in 1..Len(wire[c]) : Arrive(c, n))
  /\ WF_vars(ReadSize \/ TakePacket \/ SlotReturns)
  /\ WF_vars(HandlerReturns)

FairSpec == Spec /\ Fairness

-----------------------------------------------------------------------------
(* Properties.                                                             *)

\* Messages are handled whole, once each and in the order they were sent
\* (servergears.cpp 187: the whole packet has come, not scraps of it).
Intact == \A c \in Conns : \A i \in DOMAIN handled[c] : handled[c][i] = i

\* When no slot runs, no whole packet lies unread in the socket: nothing waits
\* for data that may never come.
NothingLeftBehind ==
  slots = <<>> =>
    \A c \in Conns : \A i \in DOMAIN sock[c] : ~LastOf(sock[c][i])

\* What is still to be read of a connection.
Stream(c) == sock[c] \o wire[c]

\* The places among the first n where a message ends, and the numbers of the
\* messages that end in a stream, in their order.
EndsUpTo(s, n) == {i \in 1..n : LastOf(s[i])}
EndNumbers(s) ==
  LET Ends == EndsUpTo(s, Len(s))
      Nth(k) == CHOOSE i \in Ends : Cardinality(EndsUpTo(s, i)) = k
  IN  [k \in 1..Cardinality(Ends) |-> s[Nth(k)].nr]

\* The messages whose last unit is still to be read.
Pending(c) == EndNumbers(Stream(c))

\* The framing implements the channels: a message leaves its channel, at the
\* head, in the step that handles it, and in the end it does.
Chan == INSTANCE Channel WITH
  Msgs <- Numbers, queue <- [c \in Conns |-> Pending(c)], got <- handled

ChannelSpec == Chan!Spec

=============================================================================
