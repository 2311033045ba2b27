---------------------------- MODULE Sptsd_proofs ----------------------------
(***************************************************************************)
(* Proofs about Sptsd: a client that is served alone gets the answer to    *)
(* its own question, for any number of clients, requests, split packets,   *)
(* failures and closed connections.                                        *)
(*                                                                         *)
(* That nothing overlaps is a property of the history; what it says of the *)
(* state (Lonely) is that a request waits only while nothing is under way, *)
(* and that all that is on its way to SURD and back belongs to the uid     *)
(* that is stored.                                                         *)
(*                                                                         *)
(* That nobody gets more answers than they asked for is counted: what is   *)
(* not read yet is a tail of what was asked (UnreadAsAsked), and each      *)
(* answer, with the one question SURD may still answer, is owed to a       *)
(* request that was read (Owed).                                           *)
(***************************************************************************)
EXTENDS Sptsd, SequenceTheorems, FiniteSetTheorems, TLAPS

Own(u) == [type |-> "MANDAT_LIST", of |-> u, conv |-> 1]

\* Only a request with a uid makes the object connect to SURD.
AskerKnown == surd # "idle" => uid \in Uids

OneRequest ==
  /\ sock = <<>> /\ Len(wire) <= 1
  /\ header => wire # <<>>
  /\ surd # "idle" => wire = <<>>

NothingAsked == surd # "connected" => toSurd = <<>> /\ fromSurd = <<>>

AsksOwn ==
  commandType = "MANDAT_LIST" =>
    /\ surd = "connecting" => surdCmd = [Own(uid) EXCEPT !.conv = 0]
    /\ surd = "connected" => /\ toSurd \in Seq({Own(uid)})
                             /\ fromSurd \in Seq([to : {Own(uid)}, labels : BOOLEAN])

Lonely == Alone => OneRequest /\ NothingAsked /\ AsksOwn

\* Requests are read in the order they were made; Read of them have been.
Read == Len(asked) - Len(sock) - Len(wire)
Matching(s, n, t, u) == {i \in 1 .. n : s[i].type = t /\ s[i].uid = u}

UnreadAsAsked ==
  /\ Read >= 0
  /\ \A i \in 1 .. Len(sock) : sock[i] = asked[Read + i]
  /\ \A i \in 1 .. Len(wire) : wire[i] = asked[Read + Len(sock) + i]

\* The question SURD may still answer, and no other: one at most.
Open(t, u) ==
  IF t = "MANDAT_LIST" /\ surd # "idle" /\ commandType = t /\ uid = u THEN 1 ELSE 0

\* Each answer, given or still possible, goes back to a request that was read.
Owed ==
  \A u \in Uids, t \in {"RegisterGlobal", "MANDAT_LIST"} :
    Count(answers, t, u) + Open(t, u) <= Cardinality(Matching(asked, Read, t, u))

Counted == "split" \notin seen => ~header /\ UnreadAsAsked /\ Owed

Inv == TypeOK /\ AskerKnown /\ Lonely /\ AnswersOwnQuestion /\ Counted

-----------------------------------------------------------------------------
(* Types.                                                                  *)

LEMMA SubSeqTyped ==
  ASSUME NEW T, NEW s \in Seq(T), NEW k \in 1 .. Len(s)
  PROVE  /\ First(s, k) \in Seq(T) /\ Len(First(s, k)) = k
         /\ First(s, k) # <<>>
         /\ After(s, k) \in Seq(T) /\ Len(After(s, k)) = Len(s) - k
<1>1. Len(s) \in Nat /\ \A i \in 1 .. Len(s) : s[i] \in T
  BY LenProperties, ElementOfSeq
<1>2. First(s, k) \in Seq(T) /\ Len(First(s, k)) = k
  <2>1. \A i \in 1 .. k : s[i] \in T
    BY <1>1
  <2>2. /\ SubSeq(s, 1, k) \in Seq(T)
        /\ Len(SubSeq(s, 1, k)) = IF 1 <= k THEN k - 1 + 1 ELSE 0
    BY <1>1, <2>1, SubSeqProperties
  <2> QED  BY <1>1, <2>2 DEF First
<1>3. After(s, k) \in Seq(T) /\ Len(After(s, k)) = Len(s) - k
  <2> DEFINE m == k + 1
             l == Len(s)
             r == SubSeq(s, m, l)
  <2>1. \A i \in m .. l : s[i] \in T
    BY <1>1
  <2>2. r \in Seq(T) /\ Len(r) = IF m <= l THEN l - m + 1 ELSE 0
    BY <1>1, <2>1, SubSeqProperties
  <2>3. After(s, k) = r
    BY DEF After
  <2> HIDE DEF r
  <2> QED  BY <1>1, <2>2, <2>3
<1> QED  BY <1>1, <1>2, <1>3, EmptySeq

LEMMA CommandTyped ==
  ASSUME NEW cmd \in Command
  PROVE  [cmd EXCEPT !.conv = @ + 1] \in Command
  BY DEF Command

LEMMA SendRequestTyped ==
  ASSUME surd \in {"connecting", "connected"}, toSurd \in Seq(Command),
         NEW cmd \in Command, SendRequest(cmd)
  PROVE  surdCmd' \in Command /\ toSurd' \in Seq(Command)
<1>1. surdCmd' \in Command
  BY CommandTyped DEF SendRequest
<1>2. Append(toSurd, surdCmd') \in Seq(Command)
  BY <1>1, AppendProperties
<1> QED  BY <1>1, <1>2 DEF SendRequest

\* What handling a request leaves: types, the asker, and a command for SURD.
LEMMA HandleTyped ==
  ASSUME TypeOK, AskerKnown, NEW r \in Request, Handle(r)
  PROVE  /\ uid' \in Uids \cup {None} /\ commandType' \in Types \cup {None}
         /\ surdCmd' \in Command /\ surd' \in {"idle", "connecting", "connected"}
         /\ toSurd' \in Seq(Command) /\ answers' \in Seq(Reply)
         /\ AskerKnown'
         /\ fromSurd' = fromSurd /\ asked' = asked
<1> DEFINE cmd == IF r.type \in Commands
                    THEN [type |-> r.type, of |-> r.uid, conv |-> 0] ELSE surdCmd
<1>1. r.type \in Types /\ r.uid \in Uids
  BY DEF Request
<1>2. cmd \in Command
  BY <1>1 DEF Command, TypeOK
<1>3. /\ uid' = IF r.type = "PrintThisFile" THEN uid ELSE r.uid
      /\ commandType' = r.type /\ fromSurd' = fromSurd /\ asked' = asked
  BY DEF Handle
<1>4. CASE r.type \in ForSurd
  <2>1. AskSurd(r) /\ answers' = answers /\ uid' = r.uid
    BY <1>3, <1>4 DEF Handle, ForSurd, Commands
  <2> HIDE DEF cmd
  <2>2. CASE surd = "idle"
    BY <1>1, <1>2, <1>3, <2>1, <2>2 DEF AskSurd, cmd, TypeOK, AskerKnown
  <2>3. CASE surd # "idle"
    <3>1. SendRequest(cmd) /\ surd' = surd
      BY <2>1, <2>3 DEF AskSurd, cmd
    <3>2. surdCmd' \in Command /\ toSurd' \in Seq(Command)
      BY <1>2, <2>3, <3>1, SendRequestTyped DEF TypeOK
    <3> QED  BY <1>1, <1>3, <2>1, <3>1, <3>2 DEF TypeOK, AskerKnown
  <2> QED  BY <2>2, <2>3
<1>5. CASE r.type \notin ForSurd
  <2>1. /\ answers' = IF r.type = "RegisterGlobal"
                        THEN Append(answers, [type |-> r.type, uid |-> r.uid,
                                              says |-> {}])
                        ELSE answers
        /\ surd' = surd /\ surdCmd' = surdCmd /\ toSurd' = toSurd
    BY <1>5 DEF Handle
  <2>2. r.type = "RegisterGlobal" => [type |-> r.type, uid |-> r.uid, says |-> {}] \in Reply
    BY <1>1 DEF Reply
  <2>3. answers' \in Seq(Reply)
    BY <2>1, <2>2, AppendProperties DEF TypeOK
  <2> QED  BY <1>1, <1>3, <2>1, <2>3 DEF TypeOK, AskerKnown
<1> QED  BY <1>4, <1>5

\* The requests that a packet's arrival takes from the wire.
LEMMA ArriveWholeTakes ==
  ASSUME TypeOK, NEW k \in 1 .. Len(wire), ArriveWhole(k)
  PROVE  \E all \in Seq(Request) :
           /\ all # <<>> /\ Len(all) = Len(sock) + k
           /\ sock' = Tail(all) /\ Head(all) \in Request /\ Tail(all) \in Seq(Request)
           /\ Len(Tail(all)) = Len(all) - 1
           /\ Handle(Head(all))
           /\ wire' \in Seq(Request) /\ Len(wire') = Len(wire) - k
<1> DEFINE all == sock \o First(wire, k)
<1>1. /\ sock \in Seq(Request) /\ wire \in Seq(Request)
      /\ Len(sock) \in Nat /\ Len(wire) \in Nat
  BY LenProperties DEF TypeOK
<1>2. /\ First(wire, k) \in Seq(Request) /\ Len(First(wire, k)) = k
      /\ After(wire, k) \in Seq(Request) /\ Len(After(wire, k)) = Len(wire) - k
  BY <1>1, SubSeqTyped
<1>3. all \in Seq(Request) /\ Len(all) = Len(sock) + k
  BY <1>1, <1>2, ConcatProperties
<1>4. sock' = Tail(all) /\ Handle(Head(all)) /\ wire' = After(wire, k)
  BY DEF ArriveWhole
<1> HIDE DEF all
<1>5. all # <<>>
  BY <1>1, <1>3, EmptySeq
<1>6. Head(all) \in Request /\ Tail(all) \in Seq(Request) /\ Len(Tail(all)) = Len(all) - 1
  BY <1>3, <1>5, HeadTailProperties
<1> QED  BY <1>2, <1>3, <1>4, <1>5, <1>6

LEMMA ArriveRestTakes ==
  ASSUME TypeOK, NEW k \in 1 .. Len(wire), ArriveRest(k)
  PROVE  /\ Head(wire) \in Request /\ Handle(Head(wire))
         /\ wire' \in Seq(Request) /\ Len(wire') = Len(wire) - k
         /\ sock' \in Seq(Request) /\ Len(sock') = k - 1
         /\ header' = FALSE /\ seen' = seen
<1>1. wire \in Seq(Request) /\ Len(wire) \in Nat /\ wire # <<>>
  BY LenProperties, EmptySeq DEF TypeOK
<1>2. /\ First(wire, k) \in Seq(Request) /\ Len(First(wire, k)) = k
      /\ First(wire, k) # <<>>
      /\ After(wire, k) \in Seq(Request) /\ Len(After(wire, k)) = Len(wire) - k
  BY <1>1, SubSeqTyped
<1>3. Head(wire) \in Request
  BY <1>1, HeadTailProperties
<1>4. Tail(First(wire, k)) \in Seq(Request) /\ Len(Tail(First(wire, k))) = k - 1
  BY <1>2, HeadTailProperties
<1> QED  BY <1>2, <1>3, <1>4 DEF ArriveRest

\* Every step keeps the types, and answers go to clients.
LEMMA StepTyped ==
  ASSUME SptsdAssumption, TypeOK, AskerKnown, [Next]_vars
  PROVE  TypeOK' /\ AskerKnown'
<1> USE DEF TypeOK
<1>1. ASSUME NEW r \in Request, Ask(r)
      PROVE  TypeOK' /\ AskerKnown'
  <2>1. Append(wire, r) \in Seq(Request) /\ Append(asked, r) \in Seq(Request)
    BY AppendProperties
  <2> QED  BY <1>1, <2>1 DEF Ask, req, AskerKnown
<1>2. ASSUME NEW k \in 1 .. Len(wire), ArriveWhole(k)
      PROVE  TypeOK' /\ AskerKnown'
  <2>1. PICK all \in Seq(Request) :
          /\ sock' = Tail(all) /\ Head(all) \in Request /\ Tail(all) \in Seq(Request)
          /\ Handle(Head(all))
          /\ wire' \in Seq(Request)
    BY <1>2, ArriveWholeTakes
  <2>2. header' = header /\ seen' = seen
    BY <1>2 DEF ArriveWhole
  <2> QED  BY <2>1, <2>2, HandleTyped
<1>3. ASSUME NEW k \in 1 .. Len(wire), ArriveRest(k)
      PROVE  TypeOK' /\ AskerKnown'
  BY <1>3, ArriveRestTakes, HandleTyped
<1>4. CASE ArriveHeader
  <2>1. Head(wire) \in Request
    BY <1>4, HeadTailProperties DEF ArriveHeader
  <2> QED  BY <1>4, <2>1 DEF ArriveHeader, Request, AskerKnown
<1>5. CASE SurdConnected
  <2>1. surdCmd' \in Command /\ toSurd' \in Seq(Command)
    BY <1>5, SendRequestTyped DEF SurdConnected
  <2> QED  BY <1>5, <2>1 DEF SurdConnected, conn, req, AskerKnown
<1>6. CASE SurdFails
  BY <1>6 DEF SurdFails, conn, req, AskerKnown
<1>7. ASSUME NEW labels \in BOOLEAN, SurdAnswers(labels)
      PROVE  TypeOK' /\ AskerKnown'
  <2>1. Head(toSurd) \in Command /\ Tail(toSurd) \in Seq(Command)
    BY <1>7, HeadTailProperties DEF SurdAnswers
  <2>2. Append(fromSurd, [to |-> Head(toSurd), labels |-> labels])
          \in Seq([to : Command, labels : BOOLEAN])
    BY <2>1, AppendProperties
  <2> QED  BY <1>7, <2>1, <2>2 DEF SurdAnswers, conn, req, AskerKnown
<1>8. ASSUME NEW k \in 1 .. Len(fromSurd), SurdReadyRead(k)
      PROVE  TypeOK' /\ AskerKnown'
  <2> DEFINE a == [type |-> commandType, uid |-> uid,
                   says |-> {fromSurd[i].to : i \in 1 .. k}]
  <2>1. \A i \in 1 .. k : fromSurd[i].to \in Command
    <3> DEFINE Back == [to : Command, labels : BOOLEAN]
    <3>1. fromSurd \in Seq(Back)
      OBVIOUS
    <3> HIDE DEF TypeOK, Back
    <3>2. Len(fromSurd) \in Nat /\ \A i \in 1 .. Len(fromSurd) : fromSurd[i] \in Back
      BY <3>1, LenProperties, ElementOfSeq
    <3> QED  BY <3>2 DEF Back
  <2>2. commandType = "MANDAT_LIST" => a \in Reply
    <3>1. {fromSurd[i].to : i \in 1 .. k} \in SUBSET Command
      BY <2>1
    <3>2. uid \in Uids
      BY <1>8 DEF SurdReadyRead, AskerKnown
    <3> QED  BY <3>1, <3>2 DEF Reply
  <2>3. answers' \in Seq(Reply)
    BY <1>8, <2>2, AppendProperties DEF SurdReadyRead
  <2> QED  BY <1>8, <2>3 DEF SurdReadyRead, conn, req, AskerKnown
<1>9. CASE ConnectionClosed
  <2>1. NoCommand \in Command
    BY DEF NoCommand, Command
  <2> QED  BY <1>9, <2>1, EmptySeq DEF ConnectionClosed, AskerKnown
<1>10. CASE UNCHANGED vars
  BY <1>10 DEF vars, conn, req, AskerKnown
<1> QED
  BY <1>1, <1>2, <1>3, <1>4, <1>5, <1>6, <1>7, <1>8, <1>9, <1>10
  DEF Next, Arrive, SurdStep

-----------------------------------------------------------------------------
(* Served alone.                                                           *)

\* The request of a client that is served alone, once read, asks SURD for what
\* the client wants, or does nothing there.
LEMMA HandleAlone ==
  ASSUME TypeOK, AnswersOwnQuestion, Alone, NothingAsked, surd = "idle",
         NEW r \in Request, Handle(r), seen' = seen
  PROVE  NothingAsked' /\ AsksOwn' /\ AnswersOwnQuestion'
<1>1. /\ commandType' = r.type /\ fromSurd' = fromSurd
      /\ r.type = "MANDAT_LIST" => uid' = r.uid
  BY DEF Handle
<1>2. CASE r.type \in ForSurd
  <2>1. AskSurd(r) /\ answers' = answers
    BY <1>2 DEF Handle
  <2>2. surd' = "connecting" /\ toSurd' = toSurd
        /\ (r.type = "MANDAT_LIST" => surdCmd' = [Own(uid') EXCEPT !.conv = 0])
    BY <1>1, <2>1 DEF AskSurd, Commands, Own
  <2> QED  BY <1>1, <2>1, <2>2 DEF NothingAsked, AsksOwn, AnswersOwnQuestion, Alone
<1>3. CASE r.type \notin ForSurd
  <2> DEFINE a == [type |-> r.type, uid |-> r.uid, says |-> {}]
  <2>1. /\ answers' = IF r.type = "RegisterGlobal" THEN Append(answers, a) ELSE answers
        /\ surd' = surd /\ toSurd' = toSurd
    BY <1>3 DEF Handle
  <2>2. NothingAsked' /\ AsksOwn'
    BY <1>1, <2>1 DEF NothingAsked, AsksOwn
  <2> HIDE DEF a
  <2>3. CASE r.type # "RegisterGlobal"
    <3>1. answers' = answers
      BY <2>1, <2>3
    <3> QED  BY <2>2, <3>1 DEF AnswersOwnQuestion, Alone
  <2>4. CASE r.type = "RegisterGlobal"
    <3>1. answers \in Seq(Reply) /\ a \in Reply /\ answers' = Append(answers, a)
      BY <2>1, <2>4 DEF TypeOK, Reply, Request, a
    <3>2. /\ Len(answers) \in Nat /\ DOMAIN answers = 1 .. Len(answers)
          /\ DOMAIN answers' = 1 .. Len(answers) + 1
          /\ \A i \in 1 .. Len(answers) : answers'[i] = answers[i]
          /\ answers'[Len(answers) + 1] = a
      BY <3>1, AppendProperties, LenProperties
    <3>3. a.type # "MANDAT_LIST"
      BY <2>4 DEF a
    <3>4. AnswersOwnQuestion'
      BY <3>2, <3>3 DEF AnswersOwnQuestion, Alone
    <3> QED  BY <2>2, <3>4
  <2> QED  BY <2>3, <2>4
<1> QED  BY <1>2, <1>3

\* What arrives for a client that is served alone is its one request, whole.
LEMMA ArriveAlone ==
  ASSUME TypeOK, AnswersOwnQuestion, Alone, OneRequest, NothingAsked,
         NEW k \in 1 .. Len(wire), ArriveWhole(k) \/ ArriveRest(k)
  PROVE  OneRequest' /\ NothingAsked' /\ AsksOwn' /\ AnswersOwnQuestion'
<1>0. wire \in Seq(Request) /\ Len(wire) \in Nat
  BY LenProperties DEF TypeOK
<1>1. Len(wire) = 1 /\ k = 1 /\ wire # <<>> /\ sock = <<>>
  <2>1. Len(wire) <= 1 /\ sock = <<>>
    BY DEF OneRequest
  <2>2. Len(wire) = 1 /\ k = 1
    <3> DEFINE n == Len(wire)
    <3>1. n \in Nat /\ n <= 1 /\ k \in 1 .. n
      BY <1>0, <2>1
    <3> HIDE DEF n
    <3>2. n = 1 /\ k = 1
      BY <3>1
    <3> QED  BY <3>2 DEF n
  <2>3. wire # <<>>
    BY <1>0, <2>2, EmptySeq
  <2> QED  BY <2>1, <2>2, <2>3
<1>2. surd = "idle" /\ seen' = seen /\ header' = FALSE
  BY <1>1 DEF OneRequest, ArriveWhole, ArriveRest, TypeOK
<1>3. CASE ArriveWhole(k)
  <2>1. PICK all \in Seq(Request) :
          /\ Len(all) = Len(sock) + k
          /\ sock' = Tail(all) /\ Head(all) \in Request /\ Tail(all) \in Seq(Request)
          /\ Len(Tail(all)) = Len(all) - 1
          /\ Handle(Head(all))
          /\ wire' \in Seq(Request) /\ Len(wire') = Len(wire) - k
    BY <1>3, ArriveWholeTakes
  <2>2. sock' = <<>> /\ wire' = <<>>
    BY <1>1, <2>1, EmptySeq
  <2> QED  BY <1>2, <2>1, <2>2, HandleAlone DEF OneRequest
<1>4. CASE ArriveRest(k)
  <2>1. /\ Head(wire) \in Request /\ Handle(Head(wire))
        /\ wire' \in Seq(Request) /\ Len(wire') = Len(wire) - k
        /\ sock' \in Seq(Request) /\ Len(sock') = k - 1
    BY <1>4, ArriveRestTakes
  <2>2. sock' = <<>> /\ wire' = <<>>
    BY <1>1, <2>1, EmptySeq
  <2> QED  BY <1>2, <2>1, <2>2, HandleAlone DEF OneRequest
<1> QED  BY <1>3, <1>4

\* SURD answers the client's own command, and gets it converted once.
LEMMA SurdAlone ==
  ASSUME TypeOK, AskerKnown, AnswersOwnQuestion, Alone,
         OneRequest, NothingAsked, AsksOwn, SurdStep
  PROVE  OneRequest' /\ NothingAsked' /\ AsksOwn' /\ AnswersOwnQuestion'
<1> DEFINE O == {Own(uid)}
           Back == [to : O, labels : BOOLEAN]
<1>1. /\ uid' = uid /\ commandType' = commandType
      /\ wire' = wire /\ sock' = sock /\ header' = header /\ surd # "idle"
  BY DEF SurdStep, SurdConnected, SurdAnswers, SurdReadyRead, conn, req
<1>2. OneRequest'
  BY <1>1 DEF OneRequest
<1>3. CASE SurdConnected
  <2>1. /\ surd = "connecting" /\ surd' = "connected" /\ fromSurd' = <<>> /\ toSurd = <<>>
        /\ answers' = answers /\ seen' = seen
    BY <1>3 DEF SurdConnected, NothingAsked
  <2>2. /\ surdCmd' = [surdCmd EXCEPT !.conv = @ + 1]
        /\ toSurd' = Append(toSurd, surdCmd') \/ toSurd' = toSurd
    BY <1>3 DEF SurdConnected, SendRequest
  <2>3. ASSUME commandType = "MANDAT_LIST"
        PROVE  toSurd' \in Seq(O) /\ fromSurd' \in Seq(Back)
    <3>1. surdCmd = [Own(uid) EXCEPT !.conv = 0]
      BY <2>1, <2>3 DEF AsksOwn
    <3>2. surdCmd = [type |-> "MANDAT_LIST", of |-> uid, conv |-> 0]
      BY <3>1 DEF Own
    <3>3. surdCmd' = Own(uid)
      BY <2>2, <3>2 DEF Own
    <3>4. surdCmd' \in O
      BY <3>3
    <3> HIDE DEF O, Back
    <3>5. toSurd \in Seq(O) /\ fromSurd' \in Seq(Back)
      BY <2>1, EmptySeq
    <3>6. Append(toSurd, surdCmd') \in Seq(O)
      BY <3>4, <3>5, AppendProperties
    <3> QED  BY <2>2, <3>5, <3>6
  <2>4. AsksOwn' /\ NothingAsked'
    BY <1>1, <2>1, <2>3 DEF AsksOwn, NothingAsked
  <2> QED  BY <1>2, <2>1, <2>4 DEF AnswersOwnQuestion, Alone
<1>4. ASSUME NEW labels \in BOOLEAN, SurdAnswers(labels)
      PROVE  NothingAsked' /\ AsksOwn' /\ AnswersOwnQuestion'
  <2>1. /\ surd = "connected" /\ surd' = "connected" /\ toSurd # <<>>
        /\ toSurd' = Tail(toSurd) /\ answers' = answers
        /\ fromSurd' = Append(fromSurd, [to |-> Head(toSurd), labels |-> labels])
        /\ Alone' <=> Alone
    BY <1>4 DEF SurdAnswers, Alone
  <2>2. ASSUME commandType = "MANDAT_LIST"
        PROVE  toSurd' \in Seq(O) /\ fromSurd' \in Seq(Back)
    <3>1. toSurd \in Seq(O) /\ fromSurd \in Seq(Back)
      BY <2>1, <2>2 DEF AsksOwn
    <3> HIDE DEF O
    <3>2. Head(toSurd) \in O /\ Tail(toSurd) \in Seq(O)
      BY <2>1, <3>1, HeadTailProperties
    <3>3. [to |-> Head(toSurd), labels |-> labels] \in Back
      BY <3>2
    <3> HIDE DEF Back
    <3> QED  BY <2>1, <3>1, <3>2, <3>3, AppendProperties
  <2>3. AsksOwn' /\ NothingAsked'
    BY <1>1, <2>1, <2>2 DEF AsksOwn, NothingAsked
  <2> QED  BY <2>1, <2>3 DEF AnswersOwnQuestion
<1>5. ASSUME NEW k \in 1 .. Len(fromSurd), SurdReadyRead(k)
      PROVE  NothingAsked' /\ AsksOwn' /\ AnswersOwnQuestion'
  <2> DEFINE said == {fromSurd[i].to : i \in 1 .. k}
             a == [type |-> commandType, uid |-> uid, says |-> said]
  <2>1. /\ surd = "connected" /\ surd' = "idle" /\ toSurd' = <<>> /\ fromSurd' = <<>>
        /\ answers' = answers \/ (commandType = "MANDAT_LIST" /\ answers' = Append(answers, a))
    BY <1>5 DEF SurdReadyRead
  <2>2. NothingAsked' /\ AsksOwn'
    BY <1>1, <2>1 DEF NothingAsked, AsksOwn
  <2>3. CASE commandType = "MANDAT_LIST" /\ answers' = Append(answers, a)
    <3>1. fromSurd \in Seq(Back) /\ Len(fromSurd) \in Nat
      BY <2>1, <2>3, LenProperties DEF AsksOwn, TypeOK
    <3>2. \A i \in 1 .. Len(fromSurd) : fromSurd[i] \in Back
      <4> HIDE DEF Back
      <4> QED  BY <3>1, ElementOfSeq
    <3>3. \A i \in 1 .. k : fromSurd[i].to = Own(uid)
      BY <3>1, <3>2
    <3>4. said = {Own(uid)}
      BY <3>1, <3>3
    <3>5. a.type = "MANDAT_LIST" /\ a.uid = uid /\ a.says = {Own(uid)}
      BY <2>3, <3>4
    <3>6. answers \in Seq(Reply) /\ a \in Reply
      <4>1. Own(uid) \in Command /\ uid \in Uids
        BY <1>1 DEF AskerKnown, Own, Command, Commands
      <4> QED  BY <2>3, <3>4, <4>1 DEF TypeOK, Reply
    <3> HIDE DEF a, said
    <3>7. /\ Len(answers) \in Nat /\ DOMAIN answers = 1 .. Len(answers)
          /\ DOMAIN answers' = 1 .. Len(answers) + 1
          /\ \A i \in 1 .. Len(answers) : answers'[i] = answers[i]
          /\ answers'[Len(answers) + 1] = a
      BY <2>3, <3>6, AppendProperties, LenProperties
    <3>8. AnswersOwnQuestion'
      BY <3>5, <3>7 DEF AnswersOwnQuestion, Own
    <3> QED  BY <2>2, <3>8
  <2>4. CASE answers' = answers
    BY <2>2, <2>4 DEF AnswersOwnQuestion
  <2> QED  BY <2>1, <2>3, <2>4
<1> QED  BY <1>2, <1>3, <1>4, <1>5 DEF SurdStep

LEMMA StepLonely ==
  ASSUME SptsdAssumption, Inv, [Next]_vars
  PROVE  Lonely' /\ AnswersOwnQuestion'
<1>0. TypeOK /\ AskerKnown /\ Lonely /\ AnswersOwnQuestion
  BY DEF Inv
<1> DEFINE P == OneRequest /\ NothingAsked /\ AsksOwn
<1>1. SUFFICES ASSUME Alone' PROVE P' /\ AnswersOwnQuestion'
  BY <1>1 DEF Lonely, AnswersOwnQuestion
<1>2. ASSUME NEW r \in Request, Ask(r)
      PROVE  P' /\ AnswersOwnQuestion'
  <2>1. wire = <<>> /\ sock = <<>> /\ ~header /\ surd = "idle" /\ Alone
    BY <1>1, <1>2 DEF Ask, Alone
  <2>2. Len(wire') = 1
    <3>1. Len(wire) = 0 /\ wire' = Append(wire, r) /\ wire \in Seq(Request)
      BY <1>0, <1>2, <2>1, EmptySeq DEF Ask, TypeOK
    <3> QED  BY <3>1, AppendProperties
  <2>3. /\ sock' = <<>> /\ ~header' /\ surd' = "idle" /\ toSurd' = toSurd
        /\ fromSurd' = fromSurd /\ answers' = answers
    BY <1>2, <2>1 DEF Ask
  <2> QED
    BY <1>0, <2>1, <2>2, <2>3
    DEF Lonely, OneRequest, NothingAsked, AsksOwn, AnswersOwnQuestion
<1>3. ASSUME NEW k \in 1 .. Len(wire), ArriveWhole(k) \/ ArriveRest(k)
      PROVE  P' /\ AnswersOwnQuestion'
  <2>1. Alone
    BY <1>1, <1>3 DEF ArriveWhole, ArriveRest, Alone
  <2> QED  BY <1>0, <1>3, <2>1, ArriveAlone DEF Lonely
<1>4. CASE ArriveHeader
  <2>1. /\ Alone /\ wire # <<>> /\ wire' = wire /\ sock' = sock /\ surd' = surd
        /\ toSurd' = toSurd /\ fromSurd' = fromSurd /\ answers' = answers
    BY <1>1, <1>4 DEF ArriveHeader, Alone
  <2> QED
    BY <1>0, <2>1
    DEF Lonely, OneRequest, NothingAsked, AsksOwn, AnswersOwnQuestion
<1>5. CASE SurdStep
  <2>1. Alone
    BY <1>1, <1>5 DEF SurdStep, SurdConnected, SurdAnswers, SurdReadyRead, Alone
  <2> QED  BY <1>0, <1>5, <2>1, SurdAlone DEF Lonely
<1>6. CASE SurdFails
  <2>1. /\ Alone /\ wire' = wire /\ sock' = sock /\ header' = header
        /\ surd' = "idle" /\ toSurd' = <<>> /\ fromSurd' = <<>> /\ answers' = answers
    BY <1>1, <1>6 DEF SurdFails, Alone, conn
  <2> QED
    BY <1>0, <2>1
    DEF Lonely, OneRequest, NothingAsked, AsksOwn, AnswersOwnQuestion
<1>7. CASE ConnectionClosed
  <2>1. /\ wire' = <<>> /\ sock' = <<>> /\ ~header' /\ surd' = "idle"
        /\ toSurd' = <<>> /\ fromSurd' = <<>> /\ answers' = <<>>
    BY <1>7 DEF ConnectionClosed
  <2>2. Len(wire') = 0 /\ DOMAIN answers' = {}
    BY <2>1, EmptySeq, LenProperties
  <2> QED
    BY <2>1, <2>2 DEF OneRequest, NothingAsked, AsksOwn, AnswersOwnQuestion
<1>8. CASE UNCHANGED vars
  BY <1>0, <1>1, <1>8
  DEF vars, conn, req, Lonely, Alone, OneRequest, NothingAsked, AsksOwn,
      AnswersOwnQuestion
<1> QED
  BY <1>2, <1>3, <1>4, <1>5, <1>6, <1>7, <1>8, [Next]_vars DEF Inv, Next, Arrive

-----------------------------------------------------------------------------
(* No more answers than questions.                                         *)

LEMMA MatchingGrows ==
  ASSUME NEW s, NEW n \in Nat, NEW t, NEW u
  PROVE  /\ IsFiniteSet(Matching(s, n, t, u))
         /\ Cardinality(Matching(s, n, t, u)) \in Nat
         /\ Cardinality(Matching(s, n + 1, t, u)) = Cardinality(Matching(s, n, t, u))
              + (IF s[n + 1].type = t /\ s[n + 1].uid = u THEN 1 ELSE 0)
<1> DEFINE M == Matching(s, n, t, u)
           N == Matching(s, n + 1, t, u)
<1>1. IsFiniteSet(M) /\ Cardinality(M) \in Nat
  <2>1. IsFiniteSet(1 .. n)
    BY FS_Interval
  <2>2. M \in SUBSET (1 .. n)
    BY DEF Matching
  <2> HIDE DEF M
  <2> QED  BY <2>1, <2>2, FS_Subset, FS_CardinalityType
<1>2. n + 1 \notin M
  BY DEF Matching
<1>3. CASE s[n + 1].type = t /\ s[n + 1].uid = u
  <2>1. N = M \cup {n + 1}
    <3>1. \A i : i \in 1 .. n + 1 <=> i \in 1 .. n \/ i = n + 1
      OBVIOUS
    <3> QED  BY <1>3, <3>1 DEF Matching
  <2> HIDE DEF M, N
  <2>2. Cardinality(N) = Cardinality(M) + 1
    BY <1>1, <1>2, <2>1, FS_AddElement
  <2> QED  BY <1>1, <1>3, <2>2 DEF M, N
<1>4. CASE ~(s[n + 1].type = t /\ s[n + 1].uid = u)
  <2>1. N = M
    <3>1. \A i : i \in 1 .. n + 1 <=> i \in 1 .. n \/ i = n + 1
      OBVIOUS
    <3> QED  BY <1>4, <3>1 DEF Matching
  <2> HIDE DEF M, N
  <2> QED  BY <1>1, <1>4, <2>1 DEF M, N
<1> QED  BY <1>3, <1>4, <1>1

LEMMA CountMatches ==
  ASSUME NEW T, NEW s \in Seq(T), NEW t, NEW u
  PROVE  /\ Count(s, t, u) = Cardinality(Matching(s, Len(s), t, u))
         /\ Count(s, t, u) \in Nat
<1>1. Len(s) \in Nat /\ DOMAIN s = 1 .. Len(s)
  BY LenProperties
<1>2. Count(s, t, u) = Cardinality(Matching(s, Len(s), t, u))
  BY <1>1 DEF Count, Matching
<1> QED  BY <1>1, <1>2, MatchingGrows

LEMMA CountAppend ==
  ASSUME NEW T, NEW s \in Seq(T), NEW e \in T, NEW t, NEW u
  PROVE  Count(Append(s, e), t, u)
           = Count(s, t, u) + (IF e.type = t /\ e.uid = u THEN 1 ELSE 0)
<1> DEFINE a == Append(s, e)
           n == Len(s)
<1>1. /\ a \in Seq(T) /\ n \in Nat /\ Len(a) = n + 1
      /\ \A i \in 1 .. n : a[i] = s[i]
      /\ a[n + 1] = e
  BY AppendProperties, LenProperties
<1>2. Count(s, t, u) = Cardinality(Matching(s, n, t, u))
  BY CountMatches
<1> HIDE DEF a, n
<1>3. Count(a, t, u) = Cardinality(Matching(a, n + 1, t, u))
  <2>1. Count(a, t, u) = Cardinality(Matching(a, Len(a), t, u))
    BY <1>1, CountMatches
  <2> QED  BY <1>1, <2>1
<1>4. Matching(a, n, t, u) = Matching(s, n, t, u)
  BY <1>1 DEF Matching
<1>5. Cardinality(Matching(a, n + 1, t, u)) = Cardinality(Matching(a, n, t, u))
        + (IF a[n + 1].type = t /\ a[n + 1].uid = u THEN 1 ELSE 0)
  <2>1. n \in Nat
    BY <1>1
  <2> QED  BY ONLY <2>1, MatchingGrows
<1> QED  BY <1>1, <1>2, <1>3, <1>4, <1>5 DEF a

\* The request that is read next is counted, whatever it makes of the one before.
LEMMA HandleCounts ==
  ASSUME TypeOK, Owed, NEW r \in Request, Handle(r),
         Read \in Nat, Read' = Read + 1, r = asked[Read + 1]
  PROVE  Owed'
<1> SUFFICES ASSUME NEW u \in Uids, NEW t \in {"RegisterGlobal", "MANDAT_LIST"}
             PROVE  Count(answers, t, u)' + Open(t, u)'
                      <= Cardinality(Matching(asked, Read, t, u))'
  BY DEF Owed
<1> DEFINE m == IF r.type = t /\ r.uid = u THEN 1 ELSE 0
           c == Count(answers, t, u)
           d == Cardinality(Matching(asked, Read, t, u))
<1>1. c \in Nat /\ d \in Nat /\ c + Open(t, u) <= d /\ Open(t, u) \in {0, 1}
  BY CountMatches, MatchingGrows DEF Owed, Open, TypeOK
<1>2. Cardinality(Matching(asked, Read, t, u))' = d + m
  <2>1. asked' = asked
    BY DEF Handle
  <2>2. Cardinality(Matching(asked, Read, t, u))' = Cardinality(Matching(asked, Read + 1, t, u))
    BY <2>1
  <2> QED  BY <2>2, MatchingGrows
<1>3. Count(answers, t, u)' + Open(t, u)' <= c + m /\ Count(answers, t, u)' \in Nat
  <2>1. CASE r.type \in ForSurd
    <3>1. answers' = answers /\ commandType' = r.type /\ uid' = r.uid
      BY <2>1 DEF Handle, ForSurd, Commands
    <3>2. Open(t, u)' <= m /\ Open(t, u)' \in {0, 1}
      BY <3>1 DEF Open
    <3> QED  BY <1>1, <3>1, <3>2
  <2>2. CASE r.type = "RegisterGlobal"
    <3> DEFINE a == [type |-> r.type, uid |-> r.uid, says |-> {}]
    <3>1. answers' = Append(answers, a) /\ commandType' = r.type
      BY <2>2 DEF Handle, ForSurd, Commands
    <3>2. a \in Reply /\ answers \in Seq(Reply)
      BY <2>2 DEF Reply, Request, TypeOK
    <3>3. a.type = r.type /\ a.uid = r.uid
      OBVIOUS
    <3> HIDE DEF a
    <3>4. Count(answers', t, u) = c + m
      BY <3>1, <3>2, <3>3, CountAppend
    <3>5. Open(t, u)' = 0
      BY <2>2, <3>1 DEF Open
    <3> QED  BY <1>1, <3>4, <3>5
  <2>3. CASE r.type \notin ForSurd \cup {"RegisterGlobal"}
    <3>1. answers' = answers /\ commandType' = r.type /\ r.type # "MANDAT_LIST"
      BY <2>3 DEF Handle, ForSurd, Commands
    <3>2. Open(t, u)' = 0
      BY <3>1 DEF Open
    <3> QED  BY <1>1, <3>1, <3>2
  <2> QED  BY <2>1, <2>2, <2>3
<1>4. Open(t, u)' \in {0, 1}
  BY DEF Open
<1> HIDE DEF c, d
<1> QED  BY <1>1, <1>2, <1>3, <1>4

LEMMA SubSeqElements ==
  ASSUME NEW T, NEW s \in Seq(T), NEW k \in 1 .. Len(s)
  PROVE  /\ \A i \in 1 .. k : First(s, k)[i] = s[i]
         /\ \A i \in 1 .. Len(s) - k : After(s, k)[i] = s[k + i]
<1>1. Len(s) \in Nat /\ \A i \in 1 .. Len(s) : s[i] \in T
  BY LenProperties, ElementOfSeq
<1>2. \A i \in 1 .. k : First(s, k)[i] = s[i]
  <2>1. \A i \in 1 .. k : s[i] \in T
    BY <1>1
  <2>2. \A i \in 1 .. k - 1 + 1 : SubSeq(s, 1, k)[i] = s[1 + i - 1]
    BY <1>1, <2>1, SubSeqProperties
  <2> QED  BY <1>1, <2>2 DEF First
<1>3. \A i \in 1 .. Len(s) - k : After(s, k)[i] = s[k + i]
  <2> DEFINE b == k + 1
             l == Len(s)
             r == SubSeq(s, b, l)
  <2>1. \A i \in b .. l : s[i] \in T
    BY <1>1
  <2>2. \A i \in 1 .. l - b + 1 : r[i] = s[b + i - 1]
    BY <1>1, <2>1, SubSeqProperties
  <2>3. After(s, k) = r
    BY DEF After
  <2> HIDE DEF r
  <2> QED  BY <1>1, <2>2, <2>3
<1> QED  BY <1>2, <1>3

LEMMA HeadIsFirst ==
  ASSUME NEW s
  PROVE  Head(s) = s[1]
OBVIOUS

\* Packets that come joined are read in their order, one for each arrival.
LEMMA ArriveCounts ==
  ASSUME TypeOK, UnreadAsAsked, Owed, NEW k \in 1 .. Len(wire), ArriveWhole(k)
  PROVE  UnreadAsAsked' /\ Owed'
<1> DEFINE n == Len(sock)
           w == Len(wire)
           f == First(wire, k)
           all == sock \o f
           a == Len(asked)
<1>1. /\ sock \in Seq(Request) /\ wire \in Seq(Request) /\ asked \in Seq(Request)
      /\ n \in Nat /\ w \in Nat /\ a \in Nat
  BY LenProperties DEF TypeOK
<1>2. /\ f \in Seq(Request) /\ Len(f) = k
      /\ \A i \in 1 .. k : f[i] = wire[i]
      /\ After(wire, k) \in Seq(Request) /\ Len(After(wire, k)) = w - k
      /\ \A i \in 1 .. w - k : After(wire, k)[i] = wire[k + i]
  BY <1>1, SubSeqTyped, SubSeqElements
<1>3. sock' = Tail(all) /\ Handle(Head(all)) /\ wire' = After(wire, k) /\ asked' = asked
  BY DEF ArriveWhole, Handle
<1>4. /\ Read = a - n - w /\ Read >= 0
      /\ \A i \in 1 .. n : sock[i] = asked[Read + i]
      /\ \A i \in 1 .. w : wire[i] = asked[Read + n + i]
  BY DEF UnreadAsAsked, Read
<1>5. k \in 1 .. w
  OBVIOUS
<1> HIDE DEF f
<1>6. /\ all \in Seq(Request) /\ Len(all) = n + k
      /\ \A i \in 1 .. n + k : all[i] = IF i <= n THEN sock[i] ELSE f[i - n]
  <2>1. sock \in Seq(Request) /\ f \in Seq(Request) /\ Len(f) = k
    BY <1>1, <1>2
  <2>2. /\ sock \o f \in Seq(Request) /\ Len(sock \o f) = Len(sock) + Len(f)
        /\ \A i \in 1 .. Len(sock) + Len(f) :
             (sock \o f)[i] = IF i <= Len(sock) THEN sock[i] ELSE f[i - Len(sock)]
    BY ONLY <2>1, ConcatProperties
  <2> QED  BY <2>1, <2>2
<1> HIDE DEF all, n, w, a
<1>7. \A i \in 1 .. n + k : all[i] = asked[Read + i]
  <2> SUFFICES ASSUME NEW i \in 1 .. n + k PROVE all[i] = asked[Read + i]
    OBVIOUS
  <2>1. CASE i <= n
    <3>1. i \in 1 .. n
      BY <1>1, <2>1
    <3> QED  BY <1>4, <1>6, <2>1, <3>1
  <2>2. CASE ~(i <= n)
    <3>1. i - n \in 1 .. k /\ i - n \in 1 .. w /\ Read + n + (i - n) = Read + i
      BY <1>1, <1>4, <1>5, <2>2
    <3>2. all[i] = wire[i - n]
      BY <1>2, <1>6, <2>2, <3>1
    <3> QED  BY <1>4, <3>1, <3>2
  <2> QED  BY <2>1, <2>2
<1>8. all # <<>>
  BY <1>1, <1>5, <1>6, EmptySeq
<1>9. /\ Tail(all) \in Seq(Request) /\ Len(Tail(all)) = n + k - 1
      /\ \A i \in 1 .. n + k - 1 : Tail(all)[i] = all[i + 1]
      /\ Head(all) = all[1] /\ Head(all) \in Request
  <2>1. Head(all) = all[1]
    BY HeadIsFirst
  <2>2. /\ Head(all) \in Request /\ Tail(all) \in Seq(Request)
        /\ Len(Tail(all)) = Len(all) - 1
        /\ \A i \in 1 .. Len(Tail(all)) : Tail(all)[i] = all[i + 1]
    BY <1>6, <1>8, HeadTailProperties
  <2>3. Len(Tail(all)) = n + k - 1
    BY <1>1, <1>5, <1>6, <2>2
  <2> QED  BY <2>1, <2>2, <2>3
<1>10. Read' = Read + 1 /\ Read \in Nat
  <2>1. Read' = a - (n + k - 1) - (w - k)
    BY <1>2, <1>3, <1>9 DEF Read, a
  <2> QED  BY <1>1, <1>4, <1>5, <2>1
<1>11. UnreadAsAsked'
  <2>1. ASSUME NEW i \in 1 .. Len(sock')
        PROVE  sock'[i] = asked'[Read' + i]
    <3>1. i \in 1 .. n + k - 1
      BY <1>3, <1>9
    <3>2. i + 1 \in 1 .. n + k /\ Read + (i + 1) = Read' + i
      BY <1>1, <1>4, <1>5, <1>10, <3>1
    <3>3. sock'[i] = all[i + 1]
      BY <1>3, <1>9, <3>1
    <3> QED  BY <1>3, <1>7, <3>2, <3>3
  <2>2. ASSUME NEW i \in 1 .. Len(wire')
        PROVE  wire'[i] = asked'[Read' + Len(sock') + i]
    <3>1. i \in 1 .. w - k /\ Len(sock') = n + k - 1
      BY <1>2, <1>3, <1>9
    <3>2. k + i \in 1 .. w /\ Read + n + (k + i) = Read' + Len(sock') + i
      BY <1>1, <1>4, <1>5, <1>10, <3>1
    <3>3. wire'[i] = wire[k + i]
      BY <1>2, <1>3, <3>1
    <3> QED  BY <1>3, <1>4, <3>2, <3>3
  <2>3. Read' >= 0
    BY <1>10
  <2> QED  BY <2>1, <2>2, <2>3 DEF UnreadAsAsked
<1>12. Head(all) = asked[Read + 1]
  <2>1. 1 \in 1 .. n + k
    BY <1>1, <1>5
  <2> QED  BY <1>7, <1>9, <2>1
<1> QED  BY <1>3, <1>9, <1>10, <1>11, <1>12, HandleCounts

LEMMA NothingRead ==
  ASSUME Len(asked) = 0, Len(sock) = 0, Len(wire) = 0
  PROVE  Read = 0
  BY DEF Read

LEMMA NothingOwed ==
  ASSUME wire = <<>>, sock = <<>>, asked = <<>>, answers = <<>>, surd = "idle"
  PROVE  UnreadAsAsked /\ Owed
<1>1. Len(<<>>) = 0
  BY EmptySeq
<1>2. Read = 0
  <2>1. Len(asked) = 0 /\ Len(sock) = 0 /\ Len(wire) = 0
    BY <1>1, Zenon
  <2> QED  BY <2>1, NothingRead, Zenon
<1>3. UnreadAsAsked
  BY <1>1, <1>2 DEF UnreadAsAsked
<1>4. ASSUME NEW u \in Uids, NEW t \in {"RegisterGlobal", "MANDAT_LIST"}
      PROVE  Count(answers, t, u) = 0 /\ Open(t, u) = 0
             /\ Cardinality(Matching(asked, Read, t, u)) = 0
  <2>1. Cardinality({}) = 0
    BY FS_EmptySet
  <2>2. {i \in DOMAIN answers : answers[i].type = t /\ answers[i].uid = u} = {}
    BY <1>1
  <2>3. Matching(asked, Read, t, u) = {}
    BY <1>2 DEF Matching
  <2>4. Open(t, u) = 0
    BY DEF Open
  <2> QED  BY <2>1, <2>2, <2>3, <2>4 DEF Count
<1> QED  BY <1>3, <1>4 DEF Owed

\* A list that comes back takes the place of the question that was open.
LEMMA SurdCounts ==
  ASSUME TypeOK, AskerKnown, SurdStep \/ SurdFails,
         NEW u \in Uids, NEW t \in {"RegisterGlobal", "MANDAT_LIST"}
  PROVE  /\ Count(answers, t, u)' + Open(t, u)' <= Count(answers, t, u) + Open(t, u)
         /\ Count(answers, t, u)' \in Nat /\ Open(t, u)' \in {0, 1}
<1> DEFINE c == Count(answers, t, u)
<1>1. c \in Nat /\ Open(t, u) \in {0, 1} /\ Open(t, u)' \in {0, 1}
  BY CountMatches DEF Open, TypeOK
<1>2. ASSUME answers' = answers, Open(t, u)' <= Open(t, u)
      PROVE  c' + Open(t, u)' <= c + Open(t, u) /\ c' \in Nat
  <2>1. c' = c
    BY <1>2
  <2> HIDE DEF c
  <2> QED  BY <1>1, <1>2, <2>1
<1>3. CASE SurdFails
  <2>1. answers' = answers /\ Open(t, u)' = 0
    BY <1>3 DEF SurdFails, Open
  <2>2. Open(t, u)' <= Open(t, u)
    BY <1>1, <2>1
  <2> QED  BY <1>1, <1>2, <2>1, <2>2
<1>4. CASE SurdConnected
  <2>1. answers' = answers /\ Open(t, u)' = Open(t, u)
    BY <1>4 DEF SurdConnected, Open, req
  <2>2. Open(t, u)' <= Open(t, u)
    BY <1>1, <2>1
  <2> QED  BY <1>1, <1>2, <2>1, <2>2
<1>5. ASSUME NEW labels \in BOOLEAN, SurdAnswers(labels)
      PROVE  c' + Open(t, u)' <= c + Open(t, u) /\ c' \in Nat
  <2>1. answers' = answers /\ Open(t, u)' = Open(t, u)
    BY <1>5 DEF SurdAnswers, Open, req
  <2>2. Open(t, u)' <= Open(t, u)
    BY <1>1, <2>1
  <2> QED  BY <1>2, <2>1, <2>2
<1>6. ASSUME NEW k \in 1 .. Len(fromSurd), SurdReadyRead(k)
      PROVE  c' + Open(t, u)' <= c + Open(t, u) /\ c' \in Nat
  <2> DEFINE a == [type |-> commandType, uid |-> uid,
                   says |-> {fromSurd[i].to : i \in 1 .. k}]
             back == commandType = "MANDAT_LIST" /\ \E i \in 1 .. k : fromSurd[i].labels
  <2>1. answers' = IF back THEN Append(answers, a) ELSE answers
    BY <1>6 DEF SurdReadyRead
  <2>2. Open(t, u)' = 0 /\ surd = "connected"
    BY <1>6 DEF SurdReadyRead, Open
  <2>3. Open(t, u)' <= Open(t, u)
    BY <1>1, <2>2
  <2>4. CASE ~back
    BY <1>2, <2>1, <2>3, <2>4
  <2>5. CASE back
    <3>1. uid \in Uids /\ commandType = "MANDAT_LIST"
      BY <2>2, <2>5 DEF AskerKnown
    <3>2. a \in Reply
      <4>1. \A i \in 1 .. k : fromSurd[i].to \in Command
        <5>1. fromSurd \in Seq([to : Command, labels : BOOLEAN])
          BY DEF TypeOK
        <5>2. Len(fromSurd) \in Nat
          BY <5>1, LenProperties
        <5> DEFINE S == [to : Command, labels : BOOLEAN]
        <5>3. ASSUME NEW i \in 1 .. k
              PROVE  fromSurd[i] \in S
          <6>1. i \in 1 .. Len(fromSurd)
            BY <5>2
          <6> HIDE DEF S
          <6> QED  BY <5>1, <6>1, ElementOfSeq DEF S
        <5> QED  BY <5>3
      <4> QED  BY <3>1, <4>1 DEF Reply
    <3>3. a.type = commandType /\ a.uid = uid
      OBVIOUS
    <3>4. Count(answers', t, u) = c + (IF a.type = t /\ a.uid = u THEN 1 ELSE 0)
      <4> HIDE DEF a
      <4>1. answers \in Seq(Reply) /\ answers' = Append(answers, a)
        BY <2>1, <2>5 DEF TypeOK
      <4> QED  BY <3>2, <4>1, CountAppend
    <3>5. Count(answers', t, u) = c + Open(t, u)
      BY <2>2, <3>1, <3>3, <3>4 DEF Open
    <3> HIDE DEF c, a
    <3> QED  BY <1>1, <2>2, <3>5 DEF c
  <2> QED  BY <2>4, <2>5
<1> QED  BY <1>1, <1>3, <1>4, <1>5, <1>6 DEF SurdStep

LEMMA StepCounted ==
  ASSUME SptsdAssumption, Inv, [Next]_vars
  PROVE  Counted'
<1>0. TypeOK /\ AskerKnown /\ Counted
  BY DEF Inv
<1> DEFINE P == ~header /\ UnreadAsAsked /\ Owed
<1>1. SUFFICES ASSUME "split" \notin seen' PROVE P'
  BY <1>1 DEF Counted
<1>2. ASSUME NEW r \in Request, Ask(r)
      PROVE  P'
  <2>1. "split" \notin seen
    BY <1>1, <1>2 DEF Ask
  <2>2. P
    BY <1>0, <2>1 DEF Counted
  <2> DEFINE n == Len(sock)
             w == Len(wire)
             a == Len(asked)
  <2>3. n \in Nat /\ w \in Nat /\ a \in Nat
    BY <1>0, LenProperties DEF TypeOK
  <2>4. /\ Len(wire') = w + 1 /\ wire'[w + 1] = r
        /\ \A i \in 1 .. w : wire'[i] = wire[i]
        /\ Len(asked') = a + 1 /\ asked'[a + 1] = r
        /\ \A i \in 1 .. a : asked'[i] = asked[i]
    BY <1>0, <1>2, AppendProperties DEF Ask, TypeOK
  <2>5. /\ sock' = sock /\ header' = header /\ answers' = answers
        /\ surd' = surd /\ commandType' = commandType /\ uid' = uid
    BY <1>2 DEF Ask, req
  <2>6. Read = a - n - w /\ Read' = a + 1 - n - (w + 1) /\ Read >= 0
    BY <2>2, <2>4, <2>5 DEF Read, UnreadAsAsked
  <2> HIDE DEF n, w, a
  <2>7. Read' = Read /\ Read \in 0 .. a /\ Read + n + w = a
    BY <2>3, <2>6
  <2>8. UnreadAsAsked'
    <3>1. ASSUME NEW i \in 1 .. n
          PROVE  sock'[i] = asked'[Read' + i]
      <4>1. sock[i] = asked[Read + i]
        BY <2>2 DEF UnreadAsAsked, n
      <4>2. Read + i \in 1 .. a
        BY <2>3, <2>7
      <4> QED  BY <2>4, <2>5, <2>7, <4>1, <4>2
    <3>2. ASSUME NEW i \in 1 .. w + 1
          PROVE  wire'[i] = asked'[Read' + n + i]
      <4>1. CASE i = w + 1
        <5>1. Read' + n + i = a + 1
          BY <2>3, <2>7, <4>1
        <5> QED  BY <2>4, <4>1, <5>1
      <4>2. CASE i # w + 1
        <5>1. i \in 1 .. w /\ Read + n + i \in 1 .. a
          BY <2>3, <2>7, <4>2
        <5>2. wire[i] = asked[Read + n + i]
          BY <2>2, <5>1 DEF UnreadAsAsked, n, w
        <5> QED  BY <2>4, <2>7, <5>1, <5>2
      <4> QED  BY <4>1, <4>2
    <3>3. Read' >= 0 /\ Len(sock') = n
      BY <2>5, <2>7 DEF n
    <3> QED  BY <2>4, <3>1, <3>2, <3>3 DEF UnreadAsAsked
  <2>9. Owed'
    <3>1. ASSUME NEW u \in Uids, NEW t \in {"RegisterGlobal", "MANDAT_LIST"}
          PROVE  Count(answers', t, u) + Open(t, u)'
                   <= Cardinality(Matching(asked', Read', t, u))
      <4>1. Matching(asked', Read', t, u) = Matching(asked, Read, t, u)
        <5>1. \A i \in 1 .. Read : i \in 1 .. a
          BY <2>3, <2>7
        <5> QED  BY <2>4, <2>7, <5>1 DEF Matching
      <4>2. Open(t, u)' = Open(t, u)
        BY <2>5 DEF Open
      <4>3. Count(answers, t, u) + Open(t, u) <= Cardinality(Matching(asked, Read, t, u))
        BY <2>2 DEF Owed
      <4> QED  BY <2>5, <4>1, <4>2, <4>3
    <3> QED  BY <3>1 DEF Owed
  <2> QED  BY <2>2, <2>5, <2>8, <2>9
<1>3. ASSUME NEW k \in 1 .. Len(wire), ArriveWhole(k)
      PROVE  P'
  <2>1. "split" \notin seen /\ header' = header
    BY <1>1, <1>3 DEF ArriveWhole
  <2> QED  BY <1>0, <1>3, <2>1, ArriveCounts DEF Counted
<1>4. ASSUME NEW k \in 1 .. Len(wire), ArriveRest(k)
      PROVE  P'
  BY <1>0, <1>1, <1>4 DEF ArriveRest, Counted
<1>5. CASE ArriveHeader
  BY <1>1, <1>5 DEF ArriveHeader
<1>6. CASE SurdStep \/ SurdFails
  <2>1. /\ "split" \notin seen /\ header' = header /\ asked' = asked
        /\ sock' = sock /\ wire' = wire
    BY <1>1, <1>6 DEF SurdStep, SurdConnected, SurdAnswers, SurdReadyRead, SurdFails, conn
  <2>2. P
    BY <1>0, <2>1 DEF Counted
  <2>3. Read' = Read
    BY <2>1 DEF Read
  <2>4. UnreadAsAsked'
    BY <2>1, <2>2, <2>3 DEF UnreadAsAsked
  <2>5. Owed'
    <3>1. ASSUME NEW u \in Uids, NEW t \in {"RegisterGlobal", "MANDAT_LIST"}
          PROVE  Count(answers, t, u)' + Open(t, u)'
                   <= Cardinality(Matching(asked, Read, t, u))'
      <4> DEFINE c == Count(answers, t, u)
                 d == Cardinality(Matching(asked, Read, t, u))
      <4>1. /\ c' + Open(t, u)' <= c + Open(t, u)
            /\ c' \in Nat /\ Open(t, u)' \in {0, 1}
        BY <1>0, <1>6, SurdCounts
      <4>2. c + Open(t, u) <= d /\ c \in Nat /\ d \in Nat /\ Open(t, u) \in {0, 1}
        <5>1. Read \in Nat
          BY <1>0, <2>2, LenProperties DEF TypeOK, UnreadAsAsked, Read
        <5> QED
          BY <1>0, <2>2, <5>1, CountMatches, MatchingGrows DEF Owed, Open, TypeOK
      <4>3. d' = d
        BY <2>1, <2>3
      <4> HIDE DEF c, d
      <4> QED  BY <4>1, <4>2, <4>3 DEF c, d
    <3> QED  BY <3>1 DEF Owed
  <2> QED  BY <2>1, <2>2, <2>4, <2>5
<1>7. CASE ConnectionClosed
  <2>1. /\ wire' = <<>> /\ sock' = <<>> /\ ~header' /\ asked' = <<>>
        /\ answers' = <<>> /\ surd' = "idle"
    BY <1>7 DEF ConnectionClosed
  <2>2. Len(<<>>) = 0 /\ Cardinality({}) = 0
    BY EmptySeq, FS_EmptySet
  <2>3. Read' = 0
    <3>1. Len(asked') = 0 /\ Len(sock') = 0 /\ Len(wire') = 0
      BY <2>1, <2>2, Zenon
    <3> QED  BY <3>1 DEF Read
  <2>4. UnreadAsAsked'
    BY <2>1, <2>2, <2>3 DEF UnreadAsAsked
  <2>5. Owed'
    <3>1. ASSUME NEW u \in Uids, NEW t \in {"RegisterGlobal", "MANDAT_LIST"}
          PROVE  /\ Count(answers', t, u) = 0 /\ Open(t, u)' = 0
                 /\ Cardinality(Matching(asked', Read', t, u)) = 0
      <4>1. {i \in DOMAIN answers' : answers'[i].type = t /\ answers'[i].uid = u} = {}
        BY <2>1, <2>2
      <4>2. Matching(asked', Read', t, u) = {}
        BY <2>3 DEF Matching
      <4> QED  BY <2>1, <2>2, <4>1, <4>2 DEF Count, Open
    <3> QED  BY <3>1 DEF Owed
  <2> QED  BY <2>1, <2>4, <2>5
<1>8. CASE UNCHANGED vars
  <2>1. "split" \notin seen
    BY <1>1, <1>8 DEF vars
  <2>2. P
    BY <1>0, <2>1 DEF Counted
  <2> QED
    BY <1>8, <2>2 DEF vars, conn, req, UnreadAsAsked, Owed, Read, Open
<1> QED
  BY <1>2, <1>3, <1>4, <1>5, <1>6, <1>7, <1>8, [Next]_vars DEF Inv, Next, Arrive

-----------------------------------------------------------------------------
LEMMA Inductive == Spec => []Inv
<1>1. Init => Inv
  <2> SUFFICES ASSUME Init PROVE Inv
    OBVIOUS
  <2>1. NoCommand \in Command
    BY DEF NoCommand, Command
  <2>2. TypeOK /\ AskerKnown
    BY <2>1, EmptySeq DEF Init, TypeOK, AskerKnown
  <2>3. Len(wire) = 0 /\ DOMAIN answers = {}
    BY EmptySeq, LenProperties DEF Init
  <2>4. ~header /\ UnreadAsAsked /\ Owed
    BY NothingOwed DEF Init
  <2> QED
    BY <2>2, <2>3, <2>4
    DEF Init, Inv, Lonely, OneRequest, NothingAsked, AsksOwn, AnswersOwnQuestion,
        Counted
<1>2. Inv /\ [Next]_vars => Inv'
  BY SptsdAssumption, StepTyped, StepLonely, StepCounted DEF Inv
<1> QED  BY <1>1, <1>2, PTL DEF Spec

\* The state of the daemon is well typed, and its answers go to clients, for
\* all requests in every order, however their packets join and split.
THEOREM DaemonTyped == Spec => []TypeOK
<1>1. Inv => TypeOK
  BY DEF Inv
<1> QED  BY <1>1, Inductive, PTL

\* A list of mandates given to a client that is served alone answers its own
\* question and no other, however packets split and SURD fails.
THEOREM OwnAnswer == Spec => []AnswersOwnQuestion
<1>1. Inv => AnswersOwnQuestion
  BY DEF Inv
<1> QED  BY <1>1, Inductive, PTL

\* No client gets more answers of a kind than it asked questions of it, however
\* many clients share the object, their requests overlap, packets join, and
\* SURD answers late, fails or is asked again; packets that come in two parts
\* excepted, where a type that was read meets the uid of the request before.
THEOREM NoSpareAnswers == Spec => []NoMoreAnswersThanAsked
<1>1. Inv => NoMoreAnswersThanAsked
  <2> SUFFICES ASSUME TypeOK, Counted, "split" \notin seen,
                      NEW u \in Uids, NEW t \in {"RegisterGlobal", "MANDAT_LIST"}
               PROVE  Count(answers, t, u) <= Count(asked, t, u)
    BY DEF Inv, NoMoreAnswersThanAsked
  <2> DEFINE n == Len(asked)
             R == Matching(asked, Read, t, u)
             A == Matching(asked, n, t, u)
  <2>1. n \in Nat /\ Read \in Nat /\ Read <= n
    BY LenProperties DEF TypeOK, Counted, UnreadAsAsked, Read
  <2>2. Count(answers, t, u) + Open(t, u) <= Cardinality(R)
    BY DEF Counted, Owed
  <2>3. Cardinality(R) <= Cardinality(A)
    <3>1. IsFiniteSet(A)
      BY <2>1, MatchingGrows
    <3>2. R \subseteq A
      BY <2>1 DEF Matching
    <3> HIDE DEF R, A
    <3> QED  BY <3>1, <3>2, FS_Subset
  <2>4. /\ Count(answers, t, u) \in Nat /\ Open(t, u) \in {0, 1}
        /\ Cardinality(R) \in Nat /\ Cardinality(A) \in Nat
    BY <2>1, CountMatches, MatchingGrows DEF Open, TypeOK
  <2>5. Count(asked, t, u) = Cardinality(A)
    BY CountMatches DEF TypeOK
  <2> HIDE DEF R, A
  <2> QED  BY <2>2, <2>3, <2>4, <2>5
<1> QED  BY <1>1, Inductive, PTL
=============================================================================
