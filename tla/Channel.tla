------------------------------- MODULE Channel -------------------------------
(***************************************************************************)
(* What the framing of messages promises on every connection of the        *)
(* system: messages are handled whole, once each and in the order they     *)
(* were sent; only messages not handled yet may be lost, and only when     *)
(* the connection is closed.                                               *)
(***************************************************************************)
EXTENDS Naturals, Sequences

CONSTANTS
  Conns,  \* the connections
  Msgs    \* the messages that may be sent

VARIABLES
  open,   \* the connections that are open
  queue,  \* messages sent and not handled, by connection
  got     \* messages handled, by connection

chan == <<open, queue, got>>

Init ==
  /\ open = Conns
  /\ queue = [c \in Conns |-> <<>>]
  /\ got = [c \in Conns |-> <<>>]

Send(c, m) ==
  /\ c \in open
  /\ queue' = [queue EXCEPT ![c] = Append(@, m)]
  /\ UNCHANGED <<open, got>>

Receive(c) ==
  /\ queue[c] # <<>>
  /\ queue' = [queue EXCEPT ![c] = Tail(@)]
  /\ got' = [got EXCEPT ![c] = Append(@, Head(queue[c]))]
  /\ UNCHANGED open

\* The connection closes; the last messages on their way are lost.
Close(c) ==
  /\ c \in open
  /\ open' = open \ {c}
  /\ \E n \in 0..Len(queue[c]) :
       queue' = [queue EXCEPT ![c] = SubSeq(@, 1, n)]
  /\ UNCHANGED got

Next ==
  \E c \in Conns : (\E m \in Msgs : Send(c, m)) \/ Receive(c) \/ Close(c)

Spec == Init /\ [][Next]_chan /\ \A c \in Conns : WF_chan(Receive(c))

=============================================================================
