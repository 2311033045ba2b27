-------------------------- MODULE PrintQueue_proofs --------------------------
(***************************************************************************)
(* What holds of the print protocol for every set of documents and every   *)
(* fault: first for every number of preparations and of presses of         *)
(* "Print" (types, numbers of copies, verdicts, the order of the files),   *)
(* then for one document and one press, where the three queues of the      *)
(* PrintTask stay aligned to the end.                                      *)
(***************************************************************************)
EXTENDS PrintQueue, SequenceTheorems, FiniteSetTheorems, TLAPS

(***************************************************************************)
(* The order of the queue do_docReady4print builds.  An entry's rank is    *)
(* its place in a document that has every copy and every page.             *)
(***************************************************************************)
Rank(it) == 8 * it.copy + it.slot

Ordered(s, lo, hi) ==
  /\ s \in Seq(Item)
  /\ \A i \in 1..Len(s) : Rank(s[i]) \in lo..(hi - 1)
  /\ \A i, j \in 1..Len(s) : i < j => Rank(s[i]) < Rank(s[j])

\* Before is the order of the ranks.
LEMMA BeforeIsRank ==
  ASSUME NEW a \in Item, NEW b \in Item
  PROVE  Before(a, b) <=> Rank(a) < Rank(b)
BY DEF Before, Rank, Item, Copies

LEMMA RankInt ==
  ASSUME NEW it \in Item
  PROVE  Rank(it) \in Int
BY DEF Rank, Item, Copies

\* The empty sequence lies within any bounds.
LEMMA EmptyOrdered ==
  ASSUME NEW lo \in Int, NEW hi \in Int
  PROVE  Ordered(<<>>, lo, hi)
BY DEF Ordered

\* Two ordered stretches, one below the other, make one.
LEMMA ConcatOrdered ==
  ASSUME NEW s, NEW t, NEW lo \in Int, NEW mid \in Int, NEW hi \in Int,
         lo <= mid, mid <= hi, Ordered(s, lo, mid), Ordered(t, mid, hi)
  PROVE  Ordered(s \o t, lo, hi)
<1> DEFINE u == s \o t
<1>1. /\ s \in Seq(Item) /\ t \in Seq(Item)
      /\ Len(s) \in Nat /\ Len(t) \in Nat
  BY LenProperties DEF Ordered
<1>2. /\ u \in Seq(Item)
      /\ Len(u) = Len(s) + Len(t)
      /\ \A i \in 1..Len(u) : u[i] = IF i <= Len(s) THEN s[i] ELSE t[i - Len(s)]
  BY <1>1, ConcatProperties
<1> HIDE DEF u
<1>3. \A i \in 1..Len(u) : Rank(u[i]) \in Int
  BY <1>2, ElementOfSeq, RankInt
<1>4. ASSUME NEW i \in 1..Len(u)
      PROVE  /\ i <= Len(s) => i \in 1..Len(s) /\ Rank(u[i]) \in lo..(mid - 1)
             /\ i > Len(s) => /\ i - Len(s) \in 1..Len(t)
                              /\ Rank(u[i]) \in mid..(hi - 1)
  <2>1. CASE i <= Len(s)
    <3>1. i \in 1..Len(s) /\ u[i] = s[i]
      BY <2>1, <1>1, <1>2
    <3> QED  BY <2>1, <3>1 DEF Ordered
  <2>2. CASE i > Len(s)
    <3>1. i - Len(s) \in 1..Len(t) /\ u[i] = t[i - Len(s)]
      BY <2>2, <1>1, <1>2
    <3> QED  BY <2>2, <3>1, <1>1 DEF Ordered
  <2> QED  BY <2>1, <2>2, <1>1, <1>2
<1>5. ASSUME NEW i \in 1..Len(u), NEW j \in 1..Len(u), i < j
      PROVE  Rank(u[i]) < Rank(u[j])
  <2>1. CASE j <= Len(s)
    <3>1. /\ i \in 1..Len(s) /\ j \in 1..Len(s)
          /\ u[i] = s[i] /\ u[j] = s[j]
      BY <2>1, <1>1, <1>2, <1>5
    <3>2. Rank(s[i]) < Rank(s[j])
      BY <3>1, <1>5 DEF Ordered
    <3> QED  BY <3>1, <3>2
  <2>2. CASE i <= Len(s) /\ j > Len(s)
    BY <2>2, <1>1, <1>3, <1>4
  <2>3. CASE i > Len(s)
    <3>1. /\ i - Len(s) \in 1..Len(t) /\ j - Len(s) \in 1..Len(t)
          /\ i - Len(s) < j - Len(s)
      BY <2>3, <1>1, <1>2, <1>5
    <3>2. u[i] = t[i - Len(s)] /\ u[j] = t[j - Len(s)]
      BY <2>3, <1>1, <1>2, <1>5
    <3>3. Rank(t[i - Len(s)]) < Rank(t[j - Len(s)])
      BY <3>1 DEF Ordered
    <3> QED  BY <3>2, <3>3
  <2> QED  BY <2>1, <2>2, <2>3, <1>1, <1>2
<1>6. ASSUME NEW i \in 1..Len(u)
      PROVE  Rank(u[i]) \in lo..(hi - 1)
  <2>1. Rank(u[i]) \in lo..(mid - 1) \/ Rank(u[i]) \in mid..(hi - 1)
    BY <1>1, <1>2, <1>4
  <2> HIDE DEF Rank
  <2> QED  BY <2>1
<1> QED  BY <1>2, <1>5, <1>6 DEF Ordered, u

\* One place of one copy is a stretch of at most one entry.
LEMMA EntryOrdered ==
  ASSUME NEW c \in Copies, NEW pages, NEW l \in 0..7
  PROVE  Ordered(Entry(c, pages, l), 8 * c + l, 8 * c + l + 1)
<1> DEFINE it == [copy |-> c, slot |-> l]
<1>1. it \in Item /\ Rank(it) = 8 * c + l
  BY DEF Item, Rank, Copies
<1>2. Ordered(<<it>>, 8 * c + l, 8 * c + l + 1)
  <2>1. <<it>> \in Seq(Item) /\ Len(<<it>>) = 1 /\ <<it>>[1] = it
    BY <1>1
  <2> HIDE DEF it
  <2> QED  BY <1>1, <2>1 DEF Ordered, Copies
<1>3. Ordered(<<>>, 8 * c + l, 8 * c + l + 1)
  BY EmptyOrdered DEF Copies
<1> QED  BY <1>2, <1>3 DEF Entry

\* The part of one copy is ordered, within the ranks of that copy.
LEMMA CopyOrdered ==
  ASSUME NEW c \in Copies, NEW pages
  PROVE  Ordered(CopyOrder(c, pages), 8 * c, 8 * c + 8)
<1> DEFINE E(l) == Entry(c, pages, l)
           b == 8 * c
<1>0. b \in Int
  BY DEF Copies
<1>1. \A l \in 0..7 : Ordered(E(l), b + l, b + l + 1)
  BY EntryOrdered
<1>2. CopyOrder(c, pages) =
        E(0) \o E(1) \o E(2) \o E(3) \o E(4) \o E(5) \o E(6) \o E(7)
  BY DEF CopyOrder
<1> HIDE DEF E, b
<1>3. /\ Ordered(E(0), b, b + 1) /\ Ordered(E(1), b + 1, b + 2)
      /\ Ordered(E(2), b + 2, b + 3) /\ Ordered(E(3), b + 3, b + 4)
      /\ Ordered(E(4), b + 4, b + 5) /\ Ordered(E(5), b + 5, b + 6)
      /\ Ordered(E(6), b + 6, b + 7) /\ Ordered(E(7), b + 7, b + 8)
  BY <1>0, <1>1
<1>4. Ordered(E(0) \o E(1), b, b + 2)
  BY <1>0, <1>3, ConcatOrdered
<1>5. Ordered(E(0) \o E(1) \o E(2), b, b + 3)
  BY <1>0, <1>3, <1>4, ConcatOrdered
<1>6. Ordered(E(0) \o E(1) \o E(2) \o E(3), b, b + 4)
  BY <1>0, <1>3, <1>5, ConcatOrdered
<1>7. Ordered(E(0) \o E(1) \o E(2) \o E(3) \o E(4), b, b + 5)
  BY <1>0, <1>3, <1>6, ConcatOrdered
<1>8. Ordered(E(0) \o E(1) \o E(2) \o E(3) \o E(4) \o E(5), b, b + 6)
  BY <1>0, <1>3, <1>7, ConcatOrdered
<1>9. Ordered(E(0) \o E(1) \o E(2) \o E(3) \o E(4) \o E(5) \o E(6), b, b + 7)
  BY <1>0, <1>3, <1>8, ConcatOrdered
<1>10. Ordered(E(0) \o E(1) \o E(2) \o E(3) \o E(4) \o E(5) \o E(6) \o E(7),
               b, b + 8)
  BY <1>0, <1>3, <1>9, ConcatOrdered
<1> QED  BY <1>2, <1>10 DEF b

\* The queue of a whole document is ordered: every marker and every page has
\* its place, and none comes twice.
LEMMA DocOrdered ==
  ASSUME NEW d
  PROVE  Ordered(DocOrder(d), 8, 48)
<1>1. ASSUME NEW c \in Copies
      PROVE  Ordered(CopyPart(d, c), 8 * c, 8 * c + 8)
  BY CopyOrdered, EmptyOrdered DEF CopyPart, Copies
<1> DEFINE P(c) == CopyPart(d, c)
<1>2. DocOrder(d) = P(1) \o P(2) \o P(3) \o P(4) \o P(5)
  BY DEF DocOrder
<1>3. /\ Ordered(P(1), 8, 16) /\ Ordered(P(2), 16, 24) /\ Ordered(P(3), 24, 32)
      /\ Ordered(P(4), 32, 40) /\ Ordered(P(5), 40, 48)
  BY <1>1 DEF Copies
<1> HIDE DEF P
<1>4. Ordered(P(1) \o P(2), 8, 24)
  BY <1>3, ConcatOrdered
<1>5. Ordered(P(1) \o P(2) \o P(3), 8, 32)
  BY <1>3, <1>4, ConcatOrdered
<1>6. Ordered(P(1) \o P(2) \o P(3) \o P(4), 8, 40)
  BY <1>3, <1>5, ConcatOrdered
<1>7. Ordered(P(1) \o P(2) \o P(3) \o P(4) \o P(5), 8, 48)
  BY <1>3, <1>6, ConcatOrdered
<1> QED  BY <1>2, <1>7

-----------------------------------------------------------------------------
(* Type correctness.                                                       *)

LEMMA ConcatLen ==
  ASSUME NEW S, NEW s \in Seq(S), NEW t \in Seq(S)
  PROVE  Len(s \o t) = Len(s) + Len(t)
BY ConcatProperties

LEMMA DequeueType ==
  ASSUME NEW S, NEW q \in Seq(S)
  PROVE  /\ Dequeue(q) \in Seq(S)
         /\ Len(Dequeue(q)) \in Nat
         /\ Len(Dequeue(q)) <= Len(q) /\ Len(q) - 1 <= Len(Dequeue(q))
<1>1. Len(q) \in Nat
  BY LenProperties
<1>2. CASE q = <<>>
  BY <1>2 DEF Dequeue
<1>3. CASE q # <<>>
  <2>1. Dequeue(q) = Tail(q)
    BY <1>3 DEF Dequeue
  <2>2. Tail(q) \in Seq(S) /\ Len(Tail(q)) = Len(q) - 1
    BY <1>3, HeadTailProperties
  <2>3. Len(Tail(q)) \in Nat
    BY <2>2, LenProperties
  <2> QED  BY <2>1, <2>2, <2>3, <1>1
<1> QED  BY <1>2, <1>3

LEMMA HeadOrType ==
  ASSUME NEW S, NEW q \in Seq(S), NEW default \in S
  PROVE  HeadOr(q, default) \in S
BY HeadTailProperties DEF HeadOr

\* What is enqueued next to an order of n names: n numbers, all natural.
LEMMA EnqueuedType ==
  ASSUME PrintQueueAssumption, NEW order \in Seq(Item)
  PROVE  LET c == [k \in DOMAIN order |-> CopiesOf(order[k])]
             z == [k \in DOMAIN order |-> SizeOf(order[k])]
         IN  /\ c \in Seq(Nat) /\ Len(c) = Len(order)
             /\ z \in Seq(Nat) /\ Len(z) = Len(order)
<1>1. /\ Len(order) \in Nat /\ DOMAIN order = 1..Len(order)
      /\ \A k \in 1..Len(order) : order[k] \in Item
  BY LenProperties, ElementOfSeq
<1>2. \A it \in Item : CopiesOf(it) \in Nat /\ SizeOf(it) \in Nat
  BY DEF CopiesOf, SizeOf, IsPage, PrintQueueAssumption
<1>3. \A k \in 1..Len(order) :
        CopiesOf(order[k]) \in Nat /\ SizeOf(order[k]) \in Nat
  BY <1>1, <1>2
<1> QED  BY <1>1, <1>3

\* do_docReady4print keeps the queues well typed and as long as one another.
LEMMA EnqueueType ==
  ASSUME PrintQueueAssumption, copies \in Seq(Nat), sizes \in Seq(Nat),
         NEW d, EnqueueAll(DocOrder(d))
  PROVE  /\ files' \in Seq(Item) /\ copies' \in Seq(Nat) /\ sizes' \in Seq(Nat)
         /\ Len(files') <= Len(copies')
<1> DEFINE order == DocOrder(d)
           c == [k \in DOMAIN order |-> CopiesOf(order[k])]
           z == [k \in DOMAIN order |-> SizeOf(order[k])]
<1>1. order \in Seq(Item)
  BY DocOrdered DEF Ordered
<1>2. files' = order /\ copies' = copies \o c /\ sizes' = sizes \o z
  BY DEF EnqueueAll
<1> HIDE DEF order
<1>3. /\ c \in Seq(Nat) /\ Len(c) = Len(order)
      /\ z \in Seq(Nat) /\ Len(z) = Len(order)
  BY <1>1, EnqueuedType
<1> HIDE DEF c, z
<1>4. Len(copies') = Len(copies) + Len(c)
  <2>1. Len(copies \o c) = Len(copies) + Len(c)
    BY <1>3, ConcatLen
  <2> QED  BY <2>1, <1>2
<1>5. copies' \in Seq(Nat) /\ sizes' \in Seq(Nat)
  BY <1>2, <1>3, ConcatProperties
<1>6. Len(copies) \in Nat /\ Len(order) \in Nat
  BY <1>1, LenProperties
<1>7. Len(files') <= Len(copies')
  <2>1. Len(files') = Len(order)
    BY <1>2
  <2>2. Len(copies') = Len(copies) + Len(order)
    BY <1>3, <1>4
  <2> QED  BY <2>1, <2>2, <1>6
<1> QED  BY <1>1, <1>2, <1>5, <1>7

\* A message handed to the network is dropped or queued.
LEMMA NetSendType ==
  ASSUME toDaemon \in Seq(Request), NEW m \in Request, NetSend(m)
  PROVE  /\ toDaemon' \in Seq(Request)
         /\ Len(toDaemon') <= Len(toDaemon) + 1
BY AppendProperties, LenProperties DEF NetSend

\* One look at the queue sends at most one message, to the wizard or to the
\* daemon, and takes no more copy numbers than names.
LEMMA CheckCurrentFileType ==
  ASSUME TypeOK, Len(files) <= Len(copies), CheckCurrentFile
  PROVE  /\ files' \in Seq(Item) /\ copies' \in Seq(Nat) /\ sizes' \in Seq(Nat)
         /\ toClient' \in Seq(Item) /\ toDaemon' \in Seq(Request)
         /\ checked' \in Nat
         /\ Len(files') <= Len(copies')
         /\ Len(toClient') + Len(toDaemon') <= Len(toClient) + Len(toDaemon) + 1
<1>0. /\ files \in Seq(Item) /\ copies \in Seq(Nat) /\ sizes \in Seq(Nat)
      /\ toClient \in Seq(Item) /\ toDaemon \in Seq(Request)
      /\ checked \in Nat
  BY DEF TypeOK
<1>1. /\ Len(files) \in Nat /\ Len(copies) \in Nat
      /\ Len(toClient) \in Nat /\ Len(toDaemon) \in Nat
  BY <1>0, LenProperties
<1>2. CASE files = <<>>
  BY <1>2, <1>0, <1>1 DEF CheckCurrentFile, SendMarker, DropName,
                          CheckFreeSpace, queues
<1>3. CASE files # <<>>
  <2>1. /\ Head(files) \in Item /\ Tail(files) \in Seq(Item)
        /\ Len(Tail(files)) = Len(files) - 1 /\ Len(Tail(files)) \in Nat
    BY <1>0, <1>1, <1>3, HeadTailProperties, LenProperties
  <2>2. /\ Dequeue(Tail(files)) \in Seq(Item)
        /\ Len(Dequeue(Tail(files))) <= Len(files) - 1
    BY <2>1, DequeueType
  <2>3. /\ Dequeue(copies) \in Seq(Nat) /\ Dequeue(sizes) \in Seq(Nat)
        /\ Len(Dequeue(copies)) >= Len(files) - 1
    BY <1>0, <1>1, DequeueType
  <2>4. ASSUME SendMarker
        PROVE  /\ files' \in Seq(Item) /\ copies' \in Seq(Nat)
               /\ sizes' \in Seq(Nat) /\ toClient' \in Seq(Item)
               /\ Len(files') <= Len(copies')
               /\ Len(toClient') = Len(toClient) + 1
               /\ toDaemon' = toDaemon /\ checked' = checked
    <3>1. /\ files' \in Seq(Item) /\ Len(files') <= Len(files) - 1
          /\ Len(files') \in Nat
      BY <2>1, <2>2, <2>4, <1>1, LenProperties DEF SendMarker
    <3>2. copies' = Dequeue(copies) /\ sizes' = Dequeue(sizes)
      BY <2>4 DEF SendMarker
    <3>3. /\ toClient' \in Seq(Item) /\ Len(toClient') = Len(toClient) + 1
          /\ toDaemon' = toDaemon /\ checked' = checked
      BY <1>0, <2>1, <2>4, AppendProperties DEF SendMarker
    <3>4. Len(Dequeue(copies)) \in Nat
      BY <2>3, LenProperties
    <3> QED  BY <3>1, <3>2, <3>3, <3>4, <2>3, <1>1
  <2>5. ASSUME DropName
        PROVE  /\ files' = Tail(files) /\ sizes' = Dequeue(sizes)
               /\ copies' = copies /\ toClient' = toClient
               /\ toDaemon' = toDaemon /\ checked' = checked
    BY <2>5 DEF DropName
  <2>6. ASSUME CheckFreeSpace
        PROVE  /\ files' = files /\ copies' = copies /\ toClient' = toClient
               /\ sizes' \in Seq(Nat) /\ checked' \in Nat
               /\ toDaemon' \in Seq(Request)
               /\ Len(toDaemon') <= Len(toDaemon) + 1
    <3>1. sizes # <<>>
      BY <2>6 DEF CheckFreeSpace, CurrentSize, HeadOr
    <3>2. Head(sizes) \in Nat /\ Tail(sizes) \in Seq(Nat)
      BY <3>1, <1>0, HeadTailProperties
    <3>3. [type |-> "CHECK", size |-> Head(sizes)] \in Request
      BY <3>2 DEF Request
    <3>4. /\ toDaemon' \in Seq(Request)
          /\ Len(toDaemon') <= Len(toDaemon) + 1
      BY <3>3, <2>6, <1>0, NetSendType DEF CheckFreeSpace
    <3> QED  BY <3>2, <3>4, <2>6 DEF CheckFreeSpace
  <2>7. SendMarker \/ DropName \/ CheckFreeSpace
    BY <1>3 DEF CheckCurrentFile
  <2>8. CASE SendMarker
    BY <2>8, <2>4, <1>0, <1>1
  <2>9. CASE DropName
    <3>1. /\ Len(files') = Len(files) - 1 /\ Len(copies') = Len(copies)
          /\ Len(toClient') = Len(toClient) /\ Len(toDaemon') = Len(toDaemon)
      BY <2>9, <2>5, <2>1
    <3>2. Len(files') <= Len(copies')
      BY <3>1, <1>1
    <3>3. Len(toClient') + Len(toDaemon') <= Len(toClient) + Len(toDaemon) + 1
      BY <3>1, <1>1
    <3> QED  BY <3>2, <3>3, <2>9, <2>5, <2>1, <2>3, <1>0
  <2>10. CASE CheckFreeSpace
    <3>1. Len(toDaemon') \in Nat
      BY <2>10, <2>6, LenProperties
    <3> QED  BY <2>10, <3>1, <2>6, <1>0, <1>1
  <2> QED  BY <2>7, <2>8, <2>9, <2>10
<1> QED  BY <1>2, <1>3

\* Sending takes the name at the head of the queue and a copy number, if any.
LEMMA SendFileType ==
  ASSUME TypeOK, Len(files) <= Len(copies), SendFileToDaemon
  PROVE  /\ files' \in Seq(Item) /\ copies' \in Seq(Nat)
         /\ toDaemon' \in Seq(Request)
         /\ sent' \in Seq([item : Item, size : Nat, copies : Nat])
         /\ Len(files') <= Len(copies')
         /\ Len(toDaemon') <= Len(toDaemon) + 1
<1>0. /\ files \in Seq(Item) /\ copies \in Seq(Nat) /\ checked \in Nat
      /\ toDaemon \in Seq(Request)
      /\ sent \in Seq([item : Item, size : Nat, copies : Nat])
  BY DEF TypeOK
<1>1. Len(files) \in Nat /\ Len(copies) \in Nat /\ Len(toDaemon) \in Nat
  BY <1>0, LenProperties
<1>2. CASE files = <<>>
  BY <1>2, <1>0, <1>1 DEF SendFileToDaemon
<1>3. CASE files # <<>>
  <2>1. /\ Head(files) \in Item /\ Tail(files) \in Seq(Item)
        /\ Len(Tail(files)) = Len(files) - 1
    BY <1>0, <1>3, HeadTailProperties
  <2>2. /\ Dequeue(copies) \in Seq(Nat) /\ Len(Dequeue(copies)) \in Nat
        /\ Len(copies) - 1 <= Len(Dequeue(copies))
    BY <1>0, DequeueType
  <2>3. HeadOr(copies, 1) \in Nat
    BY <1>0, HeadOrType
  <2> DEFINE m == [type |-> "FILE", item |-> Head(files),
                   copies |-> HeadOr(copies, 1)]
             r == [item |-> Head(files), size |-> checked,
                   copies |-> HeadOr(copies, 1)]
  <2>4. m \in Request /\ r \in [item : Item, size : Nat, copies : Nat]
    BY <2>1, <2>3, <1>0 DEF Request
  <2>5. /\ files' = Tail(files) /\ copies' = Dequeue(copies)
        /\ NetSend(m) /\ sent' = Append(sent, r)
    BY <1>3 DEF SendFileToDaemon
  <2> HIDE DEF m, r
  <2>6. toDaemon' \in Seq(Request) /\ Len(toDaemon') <= Len(toDaemon) + 1
    BY <2>4, <2>5, <1>0, NetSendType
  <2>7. sent' \in Seq([item : Item, size : Nat, copies : Nat])
    BY <2>4, <2>5, <1>0, AppendProperties
  <2>8. Len(files') <= Len(copies')
    BY <2>1, <2>2, <2>5, <1>1
  <2> QED  BY <2>1, <2>2, <2>5, <2>6, <2>7, <2>8
<1> QED  BY <1>2, <1>3

(***************************************************************************)
(* The inductive invariant of the counts.  Every handler takes a message   *)
(* off one channel, or a box off the screen, and puts at most one into     *)
(* another; only a press of "Print" starts a new one.                      *)
(***************************************************************************)
CountInv ==
  /\ TypeOK
  /\ CopiesNeverRunDry
  /\ OneVerdictPerClick

(***************************************************************************)
(* Size is Len under a name of its own: with its definition hidden, sums   *)
(* of sizes are plain arithmetic for the provers.                          *)
(***************************************************************************)
Size(q) == Len(q)

LEMMA SizeNat ==
  ASSUME NEW S, NEW q \in Seq(S)
  PROVE  Size(q) \in Nat
BY LenProperties DEF Size

LEMMA SizeEmpty == Size(<<>>) = 0
BY DEF Size

LEMMA SizeAppend ==
  ASSUME NEW S, NEW q \in Seq(S), NEW e \in S
  PROVE  Append(q, e) \in Seq(S) /\ Size(Append(q, e)) = Size(q) + 1
BY AppendProperties DEF Size

LEMMA SizeTail ==
  ASSUME NEW S, NEW q \in Seq(S), q # <<>>
  PROVE  /\ Head(q) \in S
         /\ Tail(q) \in Seq(S) /\ Size(Tail(q)) = Size(q) - 1
BY HeadTailProperties DEF Size

LEMMA SizeFront ==
  ASSUME NEW S, NEW q \in Seq(S), q # <<>>
  PROVE  /\ q[Len(q)] \in S
         /\ SubSeq(q, 1, Len(q) - 1) \in Seq(S)
         /\ Size(SubSeq(q, 1, Len(q) - 1)) = Size(q) - 1
<1>1. /\ Len(q) \in Nat /\ Len(q) # 0 /\ \A i \in 1..Len(q) : q[i] \in S
  BY EmptySeq, ElementOfSeq, LenProperties
<1>2. q[Len(q)] \in S
  BY <1>1
<1>3. /\ SubSeq(q, 1, Len(q) - 1) \in Seq(S)
      /\ Len(SubSeq(q, 1, Len(q) - 1)) =
           IF 1 <= Len(q) - 1 THEN Len(q) - 1 - 1 + 1 ELSE 0
  BY <1>1, SubSeqProperties
<1>4. \A n \in Nat : n # 0 => (IF 1 <= n - 1 THEN n - 1 - 1 + 1 ELSE 0) = n - 1
  OBVIOUS
<1>5. Len(SubSeq(q, 1, Len(q) - 1)) = Len(q) - 1
  <2> DEFINE n == Len(q)
  <2>1. n \in Nat /\ n # 0
    BY <1>1
  <2>2. Len(SubSeq(q, 1, n - 1)) = IF 1 <= n - 1 THEN n - 1 - 1 + 1 ELSE 0
    BY <1>3
  <2> HIDE DEF n
  <2>3. Len(SubSeq(q, 1, n - 1)) = n - 1
    BY <2>1, <2>2, <1>4
  <2> QED  BY <2>3 DEF n
<1> QED  BY <1>2, <1>3, <1>5 DEF Size

LEMMA CountFacts ==
  ASSUME CountInv
  PROVE  /\ Size(toGate) \in Nat /\ Size(toClient) \in Nat
         /\ Size(dialogs) \in Nat /\ Size(toDaemon) \in Nat
         /\ Size(fromDaemon) \in Nat /\ Size(saved) \in Nat
         /\ clicks \in Nat
         /\ Size(toGate) + Size(toClient) + Size(dialogs) + Size(toDaemon)
              + Size(fromDaemon) + Size(saved) <= clicks
<1>1. /\ Size(toGate) \in Nat /\ Size(toClient) \in Nat
      /\ Size(dialogs) \in Nat /\ Size(toDaemon) \in Nat
      /\ Size(fromDaemon) \in Nat /\ Size(saved) \in Nat /\ clicks \in Nat
  BY SizeNat DEF CountInv, TypeOK
<1>2. Size(toGate) + Size(toClient) + Size(dialogs) + Size(toDaemon)
        + Size(fromDaemon) + Size(saved) <= clicks
  BY DEF CountInv, OneVerdictPerClick, Tokens, Size
<1> QED  BY <1>1, <1>2

\* The goal of every step on the balance, in terms of Size.
LEMMA CountGoal ==
  ASSUME Size(toGate') + Size(toClient') + Size(dialogs') + Size(toDaemon')
           + Size(fromDaemon') + Size(saved') <= clicks'
  PROVE  OneVerdictPerClick'
BY DEF OneVerdictPerClick, Tokens, Size

LEMMA CountInit == PrintQueueAssumption /\ Init => CountInv
<1> SUFFICES ASSUME PrintQueueAssumption, Init  PROVE CountInv
  OBVIOUS
<1>1. TypeOK
  BY EmptySeq DEF Init, TypeOK
<1>2. CopiesNeverRunDry /\ OneVerdictPerClick
  BY DEF Init, CopiesNeverRunDry, OneVerdictPerClick, Tokens
<1> QED  BY <1>1, <1>2 DEF CountInv

LEMMA CountDocReady ==
  ASSUME PrintQueueAssumption, CountInv, NEW d \in Docs, DocReady4print(d)
  PROVE  CountInv'
<1>1. /\ files' \in Seq(Item) /\ copies' \in Seq(Nat) /\ sizes' \in Seq(Nat)
      /\ Len(files') <= Len(copies')
  BY EnqueueType DEF CountInv, TypeOK, DocReady4print
<1>2. sent' = <<>> /\ sent' \in Seq([item : Item, size : Nat, copies : Nat])
  BY DEF DocReady4print
<1>3. TypeOK'
  BY <1>1, <1>2 DEF CountInv, TypeOK, DocReady4print, channels
<1>4. OneVerdictPerClick'
  BY DEF CountInv, OneVerdictPerClick, Tokens, DocReady4print, channels
<1> QED  BY <1>1, <1>3, <1>4 DEF CountInv, CopiesNeverRunDry

\* A print request: the token goes on to the wizard or to the daemon.
LEMMA CountGateReceivesPrint ==
  ASSUME CountInv, GateReceivesPrint
  PROVE  CountInv'
<1>1. /\ toGate' \in Seq({"PRINT", "BRAK", "CLEAR"})
      /\ Size(toGate') = Size(toGate) - 1
  BY SizeTail DEF CountInv, TypeOK, GateReceivesPrint
<1>2. CheckCurrentFile /\ Len(files) <= Len(copies) /\ TypeOK
  BY DEF GateReceivesPrint, CountInv, CopiesNeverRunDry
<1>3. /\ files' \in Seq(Item) /\ copies' \in Seq(Nat) /\ sizes' \in Seq(Nat)
      /\ toClient' \in Seq(Item) /\ toDaemon' \in Seq(Request)
      /\ checked' \in Nat
      /\ Len(files') <= Len(copies')
      /\ Size(toClient') + Size(toDaemon') <= Size(toClient) + Size(toDaemon) + 1
  BY <1>2, CheckCurrentFileType DEF Size
<1>4. TypeOK'
  BY <1>1, <1>3 DEF CountInv, TypeOK, GateReceivesPrint
<1>5. /\ Size(toClient') \in Nat /\ Size(toDaemon') \in Nat
      /\ Size(toGate') = Size(toGate) - 1
      /\ Size(toClient') + Size(toDaemon') <= Size(toClient) + Size(toDaemon) + 1
  BY <1>1, <1>3, SizeNat
<1>6. /\ Size(dialogs') = Size(dialogs) /\ Size(fromDaemon') = Size(fromDaemon)
      /\ Size(saved') = Size(saved) /\ clicks' = clicks
  BY DEF GateReceivesPrint
<1>7. Size(toGate') + Size(toClient') + Size(dialogs') + Size(toDaemon')
        + Size(fromDaemon') + Size(saved') <= clicks'
  BY <1>5, <1>6, CountFacts
<1> QED  BY <1>3, <1>4, <1>7, CountGoal DEF CountInv, CopiesNeverRunDry

\* A verdict: the token goes on to the daemon, or is lost with the network.
LEMMA CountGateReceivesVerdict ==
  ASSUME CountInv, GateReceivesVerdict
  PROVE  CountInv'
<1>1. /\ toGate' \in Seq({"PRINT", "BRAK", "CLEAR"})
      /\ Size(toGate') = Size(toGate) - 1
      /\ Head(toGate) \in {"BRAK", "CLEAR"}
  BY SizeTail DEF CountInv, TypeOK, GateReceivesVerdict
<1>2. [type |-> "SAVE", verdict |-> Head(toGate)] \in Request
  BY <1>1 DEF Request
<1>3. toDaemon' \in Seq(Request) /\ Size(toDaemon') <= Size(toDaemon) + 1
  BY <1>2, NetSendType DEF CountInv, TypeOK, GateReceivesVerdict, Size
<1>4. TypeOK'
  BY <1>1, <1>3 DEF CountInv, TypeOK, GateReceivesVerdict, queues, history
<1>5. Size(toDaemon') \in Nat
  BY <1>3, SizeNat
<1>6. /\ Size(toClient') = Size(toClient) /\ Size(dialogs') = Size(dialogs)
      /\ Size(fromDaemon') = Size(fromDaemon) /\ Size(saved') = Size(saved)
      /\ clicks' = clicks /\ files' = files /\ copies' = copies
  BY DEF GateReceivesVerdict, queues, history
<1>7. Size(toGate') + Size(toClient') + Size(dialogs') + Size(toDaemon')
        + Size(fromDaemon') + Size(saved') <= clicks'
  <2>1. Size(toGate') = Size(toGate) - 1 /\ Size(toDaemon') <= Size(toDaemon) + 1
    BY <1>1, <1>3
  <2> QED  BY <2>1, <1>5, <1>6, CountFacts
<1> QED  BY <1>4, <1>6, <1>7, CountGoal DEF CountInv, CopiesNeverRunDry

\* An answer: the next look at the queue, the next file, or nothing at all.
LEMMA CountGateReceivesAnswer ==
  ASSUME CountInv, GateReceivesAnswer
  PROVE  CountInv'
<1>1. /\ fromDaemon' \in Seq(Answer)
      /\ Size(fromDaemon') = Size(fromDaemon) - 1
  BY SizeTail DEF CountInv, TypeOK, GateReceivesAnswer
<1>2. Len(files) <= Len(copies) /\ TypeOK
  BY DEF CountInv, CopiesNeverRunDry
<1>3. /\ files' \in Seq(Item) /\ copies' \in Seq(Nat) /\ sizes' \in Seq(Nat)
      /\ toClient' \in Seq(Item) /\ toDaemon' \in Seq(Request)
      /\ checked' \in Nat
      /\ sent' \in Seq([item : Item, size : Nat, copies : Nat])
      /\ Len(files') <= Len(copies')
      /\ Size(toClient') + Size(toDaemon') <= Size(toClient) + Size(toDaemon) + 1
  <2>1. CASE SendFileToDaemon /\ UNCHANGED <<sizes, toClient, checked>>
    <3>1. /\ files' \in Seq(Item) /\ copies' \in Seq(Nat)
          /\ toDaemon' \in Seq(Request)
          /\ sent' \in Seq([item : Item, size : Nat, copies : Nat])
          /\ Len(files') <= Len(copies')
          /\ Size(toDaemon') <= Size(toDaemon) + 1
      BY <1>2, <2>1, SendFileType DEF Size
    <3>2. Size(toDaemon') \in Nat
      BY <3>1, SizeNat
    <3>3. Size(toClient') = Size(toClient)
      BY <2>1
    <3>4. Size(toClient') + Size(toDaemon') <= Size(toClient) + Size(toDaemon) + 1
      <4>1. Size(toDaemon') <= Size(toDaemon) + 1
        BY <3>1
      <4> QED  BY <4>1, <3>2, <3>3, CountFacts
    <3> QED  BY <1>2, <2>1, <3>1, <3>4 DEF TypeOK
  <2>2. CASE CheckCurrentFile /\ UNCHANGED sent
    <3>1. /\ files' \in Seq(Item) /\ copies' \in Seq(Nat) /\ sizes' \in Seq(Nat)
          /\ toClient' \in Seq(Item) /\ toDaemon' \in Seq(Request)
          /\ checked' \in Nat
          /\ Len(files') <= Len(copies')
          /\ Size(toClient') + Size(toDaemon')
               <= Size(toClient) + Size(toDaemon) + 1
      BY <1>2, <2>2, CheckCurrentFileType DEF Size
    <3> QED  BY <1>2, <2>2, <3>1 DEF TypeOK
  <2>3. CASE UNCHANGED <<queues, toClient, toDaemon, checked, sent>>
    <3>1. Size(toClient') = Size(toClient) /\ Size(toDaemon') = Size(toDaemon)
      BY <2>3
    <3>2. Size(toClient') + Size(toDaemon') <= Size(toClient) + Size(toDaemon) + 1
      BY <3>1, CountFacts
    <3> QED  BY <1>2, <2>3, <3>2 DEF TypeOK, queues
  <2> QED  BY <2>1, <2>2, <2>3 DEF GateReceivesAnswer
<1>4. TypeOK'
  BY <1>1, <1>3 DEF CountInv, TypeOK, GateReceivesAnswer
<1>5. /\ Size(toClient') \in Nat /\ Size(toDaemon') \in Nat
      /\ Size(fromDaemon') = Size(fromDaemon) - 1
      /\ Size(toClient') + Size(toDaemon') <= Size(toClient) + Size(toDaemon) + 1
  BY <1>1, <1>3, SizeNat
<1>6. /\ Size(dialogs') = Size(dialogs) /\ Size(toGate') = Size(toGate)
      /\ Size(saved') = Size(saved) /\ clicks' = clicks
  BY DEF GateReceivesAnswer
<1>7. Size(toGate') + Size(toClient') + Size(dialogs') + Size(toDaemon')
        + Size(fromDaemon') + Size(saved') <= clicks'
  BY <1>5, <1>6, CountFacts
<1> QED  BY <1>3, <1>4, <1>7, CountGoal DEF CountInv, CopiesNeverRunDry

\* A press of "Print": one token more, and one press more.
LEMMA CountUserPrints ==
  ASSUME CountInv, UserPrints
  PROVE  CountInv'
<1>1. /\ toGate' \in Seq({"PRINT", "BRAK", "CLEAR"})
      /\ Size(toGate') = Size(toGate) + 1
  BY SizeAppend DEF CountInv, TypeOK, UserPrints
<1>2. clicks' \in Nat /\ clicks' = clicks + 1
  BY DEF CountInv, TypeOK, UserPrints
<1>3. TypeOK'
  BY <1>1, <1>2 DEF CountInv, TypeOK, UserPrints, queues, history
<1>4. /\ Size(toClient') = Size(toClient) /\ Size(dialogs') = Size(dialogs)
      /\ Size(toDaemon') = Size(toDaemon)
      /\ Size(fromDaemon') = Size(fromDaemon) /\ Size(saved') = Size(saved)
      /\ files' = files /\ copies' = copies
  BY DEF UserPrints, queues, history
<1>5. Size(toGate') + Size(toClient') + Size(dialogs') + Size(toDaemon')
        + Size(fromDaemon') + Size(saved') <= clicks'
  <2>1. Size(toGate') = Size(toGate) + 1
    BY <1>1
  <2> QED  BY <2>1, <1>2, <1>4, CountFacts
<1> QED  BY <1>3, <1>4, <1>5, CountGoal DEF CountInv, CopiesNeverRunDry

\* A marker: the token becomes the next request, or a box on the screen.
LEMMA CountClientReceivesMarker ==
  ASSUME CountInv, ClientReceivesMarker
  PROVE  CountInv'
<1>1. /\ toClient' \in Seq(Item) /\ Size(toClient') = Size(toClient) - 1
      /\ Head(toClient) \in Item
  BY SizeTail DEF CountInv, TypeOK, ClientReceivesMarker
<1>2. /\ toGate' \in Seq({"PRINT", "BRAK", "CLEAR"}) /\ dialogs' \in Seq(Item)
      /\ \/ Size(toGate') = Size(toGate) + 1 /\ Size(dialogs') = Size(dialogs)
         \/ Size(toGate') = Size(toGate) /\ Size(dialogs') = Size(dialogs) + 1
  <2>0. toGate \in Seq({"PRINT", "BRAK", "CLEAR"}) /\ dialogs \in Seq(Item)
    BY DEF CountInv, TypeOK
  <2>1. CASE Head(toClient).slot = Begin
    <3>1. toGate' = Append(toGate, "PRINT") /\ dialogs' = dialogs
      BY <2>1 DEF ClientReceivesMarker
    <3> QED  BY <2>0, <3>1, SizeAppend
  <2>2. CASE Head(toClient).slot # Begin
    <3>1. dialogs' = Append(dialogs, Head(toClient)) /\ toGate' = toGate
      BY <2>2 DEF ClientReceivesMarker
    <3> QED  BY <1>1, <2>0, <3>1, SizeAppend
  <2> QED  BY <2>1, <2>2
<1>3. TypeOK'
  BY <1>1, <1>2 DEF CountInv, TypeOK, ClientReceivesMarker, queues, history
<1>4. /\ Size(toDaemon') = Size(toDaemon)
      /\ Size(fromDaemon') = Size(fromDaemon) /\ Size(saved') = Size(saved)
      /\ clicks' = clicks /\ files' = files /\ copies' = copies
  BY DEF ClientReceivesMarker, queues, history
<1>5. Size(toGate') + Size(toClient') + Size(dialogs') + Size(toDaemon')
        + Size(fromDaemon') + Size(saved') <= clicks'
  <2>1. /\ Size(toClient') = Size(toClient) - 1
        /\ \/ Size(toGate') = Size(toGate) + 1 /\ Size(dialogs') = Size(dialogs)
           \/ Size(toGate') = Size(toGate) /\ Size(dialogs') = Size(dialogs) + 1
    BY <1>1, <1>2
  <2> QED  BY <2>1, <1>4, CountFacts
<1> QED  BY <1>3, <1>4, <1>5, CountGoal DEF CountInv, CopiesNeverRunDry

\* A box is closed: its token becomes a request or a verdict.
LEMMA CountBoxClosed ==
  ASSUME CountInv, dialogs # <<>>,
         NEW m \in {"PRINT", "BRAK", "CLEAR"},
         dialogs' = SubSeq(dialogs, 1, Len(dialogs) - 1),
         toGate' = Append(toGate, m),
         confirmed' \subseteq Item,
         UNCHANGED <<queues, toClient, toDaemon, fromDaemon, online, netUp,
                     preps, clicks, doc, checked, sent, saved, silent>>
  PROVE  CountInv'
<1>1. dialogs' \in Seq(Item) /\ Size(dialogs') = Size(dialogs) - 1
  BY SizeFront DEF CountInv, TypeOK
<1>2. /\ toGate' \in Seq({"PRINT", "BRAK", "CLEAR"})
      /\ Size(toGate') = Size(toGate) + 1
  BY SizeAppend DEF CountInv, TypeOK
<1>3. TypeOK'
  BY <1>1, <1>2 DEF CountInv, TypeOK, queues
<1>4. /\ Size(toClient') = Size(toClient) /\ Size(toDaemon') = Size(toDaemon)
      /\ Size(fromDaemon') = Size(fromDaemon) /\ Size(saved') = Size(saved)
      /\ clicks' = clicks /\ files' = files /\ copies' = copies
  BY DEF queues
<1>5. Size(toGate') + Size(toClient') + Size(dialogs') + Size(toDaemon')
        + Size(fromDaemon') + Size(saved') <= clicks'
  <2>1. Size(dialogs') = Size(dialogs) - 1 /\ Size(toGate') = Size(toGate) + 1
    BY <1>1, <1>2
  <2> QED  BY <2>1, <1>4, CountFacts
<1> QED  BY <1>3, <1>4, <1>5, CountGoal DEF CountInv, CopiesNeverRunDry

LEMMA CountUserConfirms ==
  ASSUME CountInv, UserConfirms
  PROVE  CountInv'
<1>1. TopDialog \in Item /\ confirmed \subseteq Item
  BY SizeFront DEF CountInv, TypeOK, UserConfirms, TopDialog
<1>2. confirmed' \subseteq Item
  BY <1>1 DEF UserConfirms
<1> QED  BY <1>2, CountBoxClosed DEF UserConfirms

LEMMA CountUserJudges ==
  ASSUME CountInv, NEW verdict \in {"BRAK", "CLEAR"}, UserJudges(verdict)
  PROVE  CountInv'
<1>1. confirmed' \subseteq Item
  BY DEF CountInv, TypeOK, UserJudges, history
<1> QED  BY <1>1, CountBoxClosed DEF UserJudges, history

\* The daemon answers a request, stays silent, or takes a verdict.
LEMMA CountDaemonHandles ==
  ASSUME CountInv, DaemonHandles
  PROVE  CountInv'
<1>1. /\ toDaemon' \in Seq(Request) /\ Size(toDaemon') = Size(toDaemon) - 1
      /\ Head(toDaemon) \in Request
  BY SizeTail DEF CountInv, TypeOK, DaemonHandles
<1>2. /\ fromDaemon' \in Seq(Answer) /\ saved' \in Seq({"BRAK", "CLEAR"})
      /\ \/ Size(fromDaemon') = Size(fromDaemon) + 1 /\ Size(saved') = Size(saved)
         \/ Size(fromDaemon') = Size(fromDaemon) /\ Size(saved') = Size(saved) + 1
         \/ Size(fromDaemon') = Size(fromDaemon) /\ Size(saved') = Size(saved)
      /\ silent' \in BOOLEAN
  <2>0. silent \in BOOLEAN
    BY DEF CountInv, TypeOK
  <2>1. fromDaemon \in Seq(Answer) /\ saved \in Seq({"BRAK", "CLEAR"})
    BY DEF CountInv, TypeOK
  <2>2. CASE /\ \E a \in Answer : fromDaemon' = Append(fromDaemon, a)
             /\ saved' = saved /\ silent' = silent
    BY <2>0, <2>1, <2>2, SizeAppend
  <2>3. CASE /\ Head(toDaemon).type = "SAVE"
             /\ saved' = Append(saved, Head(toDaemon).verdict)
             /\ UNCHANGED <<fromDaemon, silent>>
    <3>1. Head(toDaemon).verdict \in {"BRAK", "CLEAR"}
      BY <1>1, <2>3 DEF Request
    <3> QED  BY <2>0, <2>1, <2>3, <3>1, SizeAppend
  <2>4. CASE fromDaemon' = fromDaemon /\ saved' = saved /\ silent' = TRUE
    BY <2>1, <2>4
  <2> QED  BY <2>2, <2>3, <2>4 DEF DaemonHandles, DaemonReplies, Answer
<1>3. TypeOK'
  BY <1>1, <1>2 DEF CountInv, TypeOK, DaemonHandles, queues
<1>4. /\ Size(toGate') = Size(toGate) /\ Size(toClient') = Size(toClient)
      /\ Size(dialogs') = Size(dialogs)
      /\ clicks' = clicks /\ files' = files /\ copies' = copies
  BY DEF DaemonHandles, queues
<1>5. Size(toGate') + Size(toClient') + Size(dialogs') + Size(toDaemon')
        + Size(fromDaemon') + Size(saved') <= clicks'
  <2>1. /\ Size(toDaemon') = Size(toDaemon) - 1
        /\ \/ Size(fromDaemon') = Size(fromDaemon) + 1 /\ Size(saved') = Size(saved)
           \/ Size(fromDaemon') = Size(fromDaemon) /\ Size(saved') = Size(saved) + 1
           \/ Size(fromDaemon') = Size(fromDaemon) /\ Size(saved') = Size(saved)
    BY <1>1, <1>2
  <2> QED  BY <2>1, <1>4, CountFacts
<1> QED  BY <1>3, <1>4, <1>5, CountGoal DEF CountInv, CopiesNeverRunDry

\* A lost connection empties both channels of the network.
LEMMA CountNetLost ==
  ASSUME CountInv, NetLost
  PROVE  CountInv'
<1>1. TypeOK'
  BY EmptySeq DEF CountInv, TypeOK, NetLost, queues, history
<1>2. /\ Size(toGate') = Size(toGate) /\ Size(toClient') = Size(toClient)
      /\ Size(dialogs') = Size(dialogs) /\ Size(saved') = Size(saved)
      /\ clicks' = clicks /\ files' = files /\ copies' = copies
      /\ Size(toDaemon') = 0 /\ Size(fromDaemon') = 0
  BY SizeEmpty DEF NetLost, queues, history
<1>3. Size(toGate') + Size(toClient') + Size(dialogs') + Size(toDaemon')
        + Size(fromDaemon') + Size(saved') <= clicks'
  BY <1>2, CountFacts
<1> QED  BY <1>1, <1>2, <1>3, CountGoal DEF CountInv, CopiesNeverRunDry

\* A client that goes takes its messages and its boxes along.
LEMMA CountClientGone ==
  ASSUME CountInv, ClientGone
  PROVE  CountInv'
<1>1. TypeOK'
  BY EmptySeq DEF CountInv, TypeOK, ClientGone, queues, history
<1>2. /\ Size(toDaemon') = Size(toDaemon) /\ Size(fromDaemon') = Size(fromDaemon)
      /\ Size(saved') = Size(saved)
      /\ clicks' = clicks /\ files' = files /\ copies' = copies
      /\ Size(toGate') = 0 /\ Size(toClient') = 0 /\ Size(dialogs') = 0
  BY SizeEmpty DEF ClientGone, queues, history
<1>3. Size(toGate') + Size(toClient') + Size(dialogs') + Size(toDaemon')
        + Size(fromDaemon') + Size(saved') <= clicks'
  BY <1>2, CountFacts
<1> QED  BY <1>1, <1>2, <1>3, CountGoal DEF CountInv, CopiesNeverRunDry

LEMMA CountNext ==
  ASSUME PrintQueueAssumption, CountInv, [Next]_vars
  PROVE  CountInv'
<1>1. CASE \E d \in Docs : DocReady4print(d)
  BY <1>1, CountDocReady
<1>2. CASE System
  BY <1>2, CountGateReceivesPrint, CountGateReceivesVerdict,
     CountGateReceivesAnswer, CountClientReceivesMarker, CountDaemonHandles
     DEF System
<1>3. CASE User
  BY <1>3, CountUserPrints, CountUserConfirms, CountUserJudges DEF User
<1>4. CASE NetLost
  BY <1>4, CountNetLost
<1>5. CASE ClientGone
  BY <1>5, CountClientGone
<1>6. CASE UNCHANGED vars
  BY <1>6 DEF CountInv, TypeOK, CopiesNeverRunDry, OneVerdictPerClick, Tokens,
              vars, queues, channels, history
<1> QED  BY <1>1, <1>2, <1>3, <1>4, <1>5, <1>6 DEF Next

\* Types, copy numbers and presses of "Print" belong to one inductive invariant.
THEOREM CountsHold == Spec => []CountInv
<1>1. Init => CountInv
  BY CountInit, PrintQueueAssumption
<1>2. CountInv /\ [Next]_vars => CountInv'
  BY CountNext, PrintQueueAssumption
<1> QED  BY <1>1, <1>2, PTL DEF Spec

\* The queues hold files and numbers, the channels what their receivers
\* understand, whatever the documents, the faults and the user's haste.
THEOREM TypeCorrect == Spec => []TypeOK
<1>1. CountInv => TypeOK
  BY DEF CountInv
<1> QED  BY <1>1, CountsHold, PTL

\* sendFileToDemon always finds a number of copies in the queue.
THEOREM CopiesSuffice == Spec => []CopiesNeverRunDry
<1>1. CountInv => CopiesNeverRunDry
  BY DEF CountInv
<1> QED  BY <1>1, CountsHold, PTL

\* No press of "Print" is ever answered by two chains of messages, and no
\* more verdicts reach the accounting base than there were presses.
THEOREM ClicksBoundVerdicts == Spec => []OneVerdictPerClick
<1>1. CountInv => OneVerdictPerClick
  BY DEF CountInv
<1> QED  BY <1>1, CountsHold, PTL

(***************************************************************************)
(* The inductive invariant of the order: the queue is sorted, and whatever *)
(* was sent comes before everything that is still in it.                   *)
(***************************************************************************)
Sorted == \A i, j \in 1..Len(files) : i < j => Before(files[i], files[j])

SentFirst ==
  \A i \in 1..Len(sent), j \in 1..Len(files) : Before(sent[i].item, files[j])

SentSorted ==
  \A i, j \in 1..Len(sent) : i < j => Before(sent[i].item, sent[j].item)

OrderInv == TypeOK /\ Sorted /\ SentFirst /\ SentSorted

\* The queue of names loses its first k entries.
Drop(k) ==
  /\ Len(files') + k = Len(files)
  /\ \A j \in 1..Len(files') : files'[j] = files[j + k]

LEMMA DropDequeue ==
  ASSUME files \in Seq(Item), files # <<>>, files' = Tail(files)
  PROVE  Drop(1) /\ Len(files) >= 1
<1>1. /\ Len(files) \in Nat /\ Len(files) # 0 /\ Len(Tail(files)) = Len(files) - 1
      /\ \A j \in 1..Len(Tail(files)) : Tail(files)[j] = files[j + 1]
  BY HeadTailProperties, EmptySeq, LenProperties
<1> QED  BY <1>1 DEF Drop

LEMMA DropTwo ==
  ASSUME files \in Seq(Item), files # <<>>, files' = Dequeue(Tail(files))
  PROVE  Drop(1) \/ Drop(2)
<1> DEFINE t == Tail(files)
<1>1. /\ Len(files) \in Nat /\ t \in Seq(Item) /\ Len(t) = Len(files) - 1
      /\ \A j \in 1..Len(t) : t[j] = files[j + 1]
  BY HeadTailProperties, LenProperties
<1>2. CASE t = <<>>
  <2>1. files' = t
    BY <1>2 DEF Dequeue
  <2> HIDE DEF t
  <2> QED  BY <1>1, <2>1 DEF Drop
<1>3. CASE t # <<>>
  <2>1. files' = Tail(t)
    BY <1>3 DEF Dequeue
  <2> HIDE DEF t
  <2>2. /\ Len(t) \in Nat /\ Len(Tail(t)) = Len(t) - 1
        /\ \A j \in 1..Len(Tail(t)) : Tail(t)[j] = t[j + 1]
        /\ Len(Tail(t)) \in Nat
    BY <1>1, <1>3, HeadTailProperties, LenProperties
  <2>3. \A j \in 1..Len(Tail(t)) : Tail(t)[j] = files[j + 2]
    <3>1. SUFFICES ASSUME NEW j \in 1..Len(Tail(t))
                   PROVE  Tail(t)[j] = files[j + 2]
      OBVIOUS
    <3>2. j \in Int /\ j + 1 \in 1..Len(t)
      BY <2>2
    <3>3. Tail(t)[j] = t[j + 1] /\ t[j + 1] = files[(j + 1) + 1]
      BY <1>1, <2>2, <3>2
    <3>4. (j + 1) + 1 = j + 2
      BY <3>2
    <3> QED  BY <3>3, <3>4
  <2>4. Len(Tail(t)) + 2 = Len(files)
    BY <1>1, <2>2
  <2> QED  BY <2>1, <2>3, <2>4 DEF Drop
<1> QED  BY <1>2, <1>3

\* One look at the queue drops up to two names.
LEMMA CheckCurrentFileDrops ==
  ASSUME TypeOK, CheckCurrentFile
  PROVE  \E k \in {0, 1, 2} : Drop(k)
<1>1. files \in Seq(Item) /\ Len(files) \in Nat
  BY LenProperties DEF TypeOK
<1>2. CASE files' = files
  BY <1>1, <1>2 DEF Drop
<1>3. CASE files # <<>> /\ files' = Tail(files)
  BY <1>1, <1>3, DropDequeue
<1>4. CASE files # <<>> /\ files' = Dequeue(Tail(files))
  BY <1>1, <1>4, DropTwo
<1>5. CASE files # <<>> /\ SendMarker
  BY <1>3, <1>4, <1>5 DEF SendMarker
<1>6. CASE files # <<>> /\ DropName
  BY <1>3, <1>6 DEF DropName
<1>7. CASE files # <<>> /\ CheckFreeSpace
  BY <1>2, <1>7 DEF CheckFreeSpace
<1>8. CASE files = <<>>
  BY <1>2, <1>8 DEF CheckCurrentFile, queues
<1> QED  BY <1>5, <1>6, <1>7, <1>8 DEF CheckCurrentFile

\* Dropping names sends nothing and keeps the order.
LEMMA OrderDrop ==
  ASSUME OrderInv, TypeOK', NEW k \in {0, 1, 2}, Drop(k), sent' = sent
  PROVE  OrderInv'
<1>1. Len(files) \in Nat /\ Len(files') \in Nat
  BY LenProperties DEF OrderInv, TypeOK
<1>2. \A j \in 1..Len(files') : j + k \in 1..Len(files) /\ files'[j] = files[j + k]
  BY <1>1 DEF Drop
<1>3. Sorted'
  BY <1>1, <1>2 DEF OrderInv, Sorted
<1>4. SentFirst'
  BY <1>2 DEF OrderInv, SentFirst
<1>5. SentSorted'
  BY DEF OrderInv, SentSorted
<1> QED  BY <1>3, <1>4, <1>5 DEF OrderInv

\* Sending takes the first name of the queue.
LEMMA OrderSend ==
  ASSUME OrderInv, TypeOK', SendFileToDaemon
  PROVE  OrderInv'
<1>1. /\ files \in Seq(Item) /\ Len(files) \in Nat /\ Len(files') \in Nat
      /\ sent \in Seq([item : Item, size : Nat, copies : Nat])
      /\ Len(sent) \in Nat
  BY LenProperties DEF OrderInv, TypeOK
<1>2. CASE files = <<>>
  <2>1. Drop(0) /\ sent' = sent
    BY <1>1, <1>2 DEF SendFileToDaemon, Drop
  <2> QED  BY <2>1, OrderDrop
<1>3. CASE files # <<>>
  <2>1. Drop(1) /\ Len(files) >= 1
    BY <1>1, <1>3, DropDequeue DEF SendFileToDaemon
  <2>2. \A j \in 1..Len(files') :
          j + 1 \in 1..Len(files) /\ 1 < j + 1 /\ files'[j] = files[j + 1]
    BY <1>1, <2>1 DEF Drop
  <2> DEFINE r == [item |-> Head(files), size |-> checked,
                   copies |-> HeadOr(copies, 1)]
  <2>3. /\ sent' = Append(sent, r)
        /\ r \in [item : Item, size : Nat, copies : Nat] /\ r.item = files[1]
    <3>1. Head(files) = files[1] /\ Head(files) \in Item
      BY <1>1, <1>3, HeadTailProperties
    <3>2. checked \in Nat /\ HeadOr(copies, 1) \in Nat
      BY HeadOrType DEF OrderInv, TypeOK
    <3> QED  BY <1>3, <3>1, <3>2 DEF SendFileToDaemon
  <2> HIDE DEF r
  <2>4. /\ Len(sent') = Len(sent) + 1
        /\ \A i \in 1..Len(sent) : sent'[i] = sent[i]
        /\ sent'[Len(sent) + 1] = r
    BY <1>1, <2>3, AppendProperties
  <2>5. \A i \in 1..Len(sent') :
          \/ i \in 1..Len(sent) /\ sent'[i] = sent[i]
          \/ i = Len(sent) + 1 /\ sent'[i].item = files[1]
    <3>1. \A i \in 1..Len(sent') : i \in 1..Len(sent) \/ i = Len(sent) + 1
      BY <1>1, <2>4
    <3> QED  BY <2>3, <2>4, <3>1
  <2>6. Sorted'
    BY <1>1, <2>2 DEF OrderInv, Sorted
  <2>7. SentFirst'
    <3>1. SUFFICES ASSUME NEW i \in 1..Len(sent'), NEW j \in 1..Len(files')
                   PROVE  Before(sent'[i].item, files'[j])
      BY DEF SentFirst
    <3>2. 1 \in 1..Len(files)
      BY <1>1, <2>1
    <3>3. Before(files[1], files[j + 1])
      BY <2>2, <3>2 DEF OrderInv, Sorted
    <3>4. ASSUME i \in 1..Len(sent) PROVE Before(sent[i].item, files[j + 1])
      BY <2>2, <3>4 DEF OrderInv, SentFirst
    <3> QED  BY <2>2, <2>5, <3>3, <3>4
  <2>8. SentSorted'
    <3>1. SUFFICES ASSUME NEW i \in 1..Len(sent'), NEW j \in 1..Len(sent'), i < j
                   PROVE  Before(sent'[i].item, sent'[j].item)
      BY DEF SentSorted
    <3>2. 1 \in 1..Len(files)
      BY <1>1, <2>1
    <3>3. i \in 1..Len(sent) /\ sent'[i] = sent[i]
      BY <1>1, <2>4, <3>1
    <3>4. CASE j \in 1..Len(sent)
      BY <2>4, <3>1, <3>3, <3>4 DEF OrderInv, SentSorted
    <3>5. CASE sent'[j].item = files[1]
      BY <3>2, <3>3, <3>5 DEF OrderInv, SentFirst
    <3> QED  BY <2>5, <3>4, <3>5
  <2> QED  BY <2>6, <2>7, <2>8 DEF OrderInv
<1> QED  BY <1>2, <1>3

\* A prepared document is enqueued in order, and nothing of it was sent yet.
LEMMA OrderDocReady ==
  ASSUME OrderInv, TypeOK', NEW d \in Docs, DocReady4print(d)
  PROVE  OrderInv'
<1>1. files' = DocOrder(d) /\ sent' = <<>>
  BY DEF DocReady4print, EnqueueAll
<1>2. /\ files' \in Seq(Item) /\ \A i \in 1..Len(files') : files'[i] \in Item
      /\ \A i, j \in 1..Len(files') : i < j => Rank(files'[i]) < Rank(files'[j])
  BY <1>1, DocOrdered, ElementOfSeq DEF Ordered
<1>3. Sorted'
  BY <1>2, BeforeIsRank DEF Sorted
<1>4. Len(sent') = 0
  BY <1>1
<1>5. SentFirst' /\ SentSorted'
  BY <1>4 DEF SentFirst, SentSorted
<1> QED  BY <1>3, <1>5 DEF OrderInv

LEMMA OrderNext ==
  ASSUME OrderInv, TypeOK', [Next]_vars
  PROVE  OrderInv'
<1>1. CASE UNCHANGED <<files, sent>>
  <2>1. Drop(0)
    <3>1. Len(files) \in Nat
      BY LenProperties DEF OrderInv, TypeOK
    <3> QED  BY <1>1, <3>1 DEF Drop
  <2> QED  BY <1>1, <2>1, OrderDrop
<1>2. CASE \E d \in Docs : DocReady4print(d)
  BY <1>2, OrderDocReady
<1>3. CASE CheckCurrentFile /\ UNCHANGED sent
  <2>1. PICK k \in {0, 1, 2} : Drop(k)
    BY <1>3, CheckCurrentFileDrops DEF OrderInv
  <2> QED  BY <1>3, <2>1, OrderDrop
<1>4. CASE SendFileToDaemon
  BY <1>4, OrderSend
<1>5. CASE System
  <2>1. CASE GateReceivesPrint
    BY <1>3, <2>1 DEF GateReceivesPrint
  <2>2. CASE GateReceivesVerdict
    BY <1>1, <2>2 DEF GateReceivesVerdict, queues, history
  <2>3. CASE GateReceivesAnswer
    BY <1>1, <1>3, <1>4, <2>3 DEF GateReceivesAnswer, queues
  <2>4. CASE ClientReceivesMarker
    BY <1>1, <2>4 DEF ClientReceivesMarker, queues, history
  <2>5. CASE DaemonHandles
    BY <1>1, <2>5 DEF DaemonHandles, queues
  <2> QED  BY <1>5, <2>1, <2>2, <2>3, <2>4, <2>5 DEF System
<1>6. CASE User
  BY <1>1, <1>6 DEF User, UserPrints, UserConfirms, UserJudges, queues, history
<1>7. CASE NetLost \/ ClientGone
  BY <1>1, <1>7 DEF NetLost, ClientGone, queues, history
<1>8. CASE UNCHANGED vars
  BY <1>1, <1>8 DEF vars, queues, history
<1> QED  BY <1>2, <1>5, <1>6, <1>7, <1>8 DEF Next

\* The order of the queue and of what was sent is inductive.
THEOREM OrderHolds == Spec => []OrderInv
<1>1. Init /\ TypeOK => OrderInv
  <2>1. SUFFICES ASSUME Init, TypeOK PROVE OrderInv
    OBVIOUS
  <2>2. Len(files) = 0 /\ Len(sent) = 0
    BY <2>1 DEF Init
  <2> QED  BY <2>1, <2>2 DEF OrderInv, Sorted, SentFirst, SentSorted
<1>2. OrderInv /\ TypeOK' /\ [Next]_vars => OrderInv'
  BY OrderNext
<1> QED  BY <1>1, <1>2, TypeCorrect, PTL DEF Spec

\* Whatever happens, the files of a document go to the daemon in the order
\* of the queue do_docReady4print built, and none of them twice.
THEOREM FilesInOrder == Spec => []SentInOrder
<1>1. OrderInv => SentInOrder
  <2>1. SUFFICES ASSUME OrderInv PROVE SentInOrder
    OBVIOUS
  <2>2. DOMAIN sent = 1..Len(sent)
    BY <2>1, LenProperties DEF OrderInv, TypeOK
  <2> QED  BY <2>1, <2>2 DEF OrderInv, SentSorted, SentInOrder
<1> QED  BY <1>1, OrderHolds, PTL

-----------------------------------------------------------------------------
(* What the queue of a document holds.                                     *)

\* The places of one copy that do_docReady4print fills.
Chosen(pages) == {l \in OrderKeys(pages) : l < Cardinality(OrderKeys(pages))}

LEMMA InRange ==
  ASSUME NEW S, NEW q \in Seq(S)
  PROVE  /\ Range(q) \subseteq S
         /\ \A i \in 1..Len(q) : q[i] \in Range(q)
         /\ \A e \in Range(q) : \E i \in 1..Len(q) : q[i] = e
BY RangeEquality, RangeOfSeq

LEMMA RangeNone == Range(<<>>) = {}
BY DEF Range

LEMMA RangeOne ==
  ASSUME NEW S, NEW e \in S
  PROVE  <<e>> \in Seq(S) /\ Range(<<e>>) = {e}
<1>1. DOMAIN <<e>> = {1} /\ <<e>>[1] = e
  OBVIOUS
<1>2. <<e>> \in Seq(S)
  OBVIOUS
<1> QED  BY <1>1, <1>2 DEF Range

LEMMA JoinRange ==
  ASSUME NEW S, NEW s \in Seq(S), NEW t \in Seq(S)
  PROVE  /\ s \o t \in Seq(S)
         /\ Range(s \o t) = Range(s) \cup Range(t)
BY ConcatProperties, RangeConcatenation

LEMMA RangeAppend ==
  ASSUME NEW S, NEW q \in Seq(S), NEW e \in S
  PROVE  Range(Append(q, e)) = Range(q) \cup {e}
<1> DEFINE one == <<e>>
<1>1. one \in Seq(S) /\ Range(one) = {e}
  BY RangeOne
<1>2. Append(q, e) = q \o one
  BY AppendIsConcat
<1> HIDE DEF one
<1>3. Range(q \o one) = Range(q) \cup Range(one)
  BY <1>1, JoinRange
<1> QED  BY <1>1, <1>2, <1>3

\* An entry with key l is there exactly when its place is filled.
LEMMA EntryRange ==
  ASSUME NEW c \in Copies, NEW pages, NEW l \in 0..7
  PROVE  \A it : it \in Range(Entry(c, pages, l)) <=>
                   it = [copy |-> c, slot |-> l] /\ l \in Chosen(pages)
<1> DEFINE e == [copy |-> c, slot |-> l]
<1>1. e \in Item
  BY DEF Item
<1>2. Entry(c, pages, l) = IF l \in Chosen(pages) THEN <<e>> ELSE <<>>
  BY DEF Entry, Chosen
<1> HIDE DEF e
<1>3. Range(<<e>>) = {e} /\ Range(<<>>) = {}
  BY <1>1, RangeOne, RangeNone
<1> QED  BY <1>2, <1>3 DEF e

\* One copy's part holds exactly the filled places of that copy.
LEMMA CopyRange ==
  ASSUME NEW c \in Copies, NEW pages
  PROVE  \A it : it \in Range(CopyOrder(c, pages)) <=>
                   \E l \in 0..7 : /\ it = [copy |-> c, slot |-> l]
                                   /\ l \in Chosen(pages)
<1> DEFINE E(l) == Entry(c, pages, l)
<1>1. \A l \in 0..7 : E(l) \in Seq(Item)
  BY EntryOrdered DEF Ordered
<1>2. CopyOrder(c, pages) =
        E(0) \o E(1) \o E(2) \o E(3) \o E(4) \o E(5) \o E(6) \o E(7)
  BY DEF CopyOrder
<1>3. \A l \in 0..7 : \A it : it \in Range(E(l)) <=>
         it = [copy |-> c, slot |-> l] /\ l \in Chosen(pages)
  BY EntryRange
<1> HIDE DEF E
<1>4. /\ E(0) \in Seq(Item) /\ E(1) \in Seq(Item) /\ E(2) \in Seq(Item)
      /\ E(3) \in Seq(Item) /\ E(4) \in Seq(Item) /\ E(5) \in Seq(Item)
      /\ E(6) \in Seq(Item) /\ E(7) \in Seq(Item)
  BY <1>1
<1> DEFINE S1 == E(0) \o E(1)
           S2 == S1 \o E(2)
           S3 == S2 \o E(3)
           S4 == S3 \o E(4)
           S5 == S4 \o E(5)
           S6 == S5 \o E(6)
           S7 == S6 \o E(7)
<1>5. CopyOrder(c, pages) = S7
  BY <1>2
<1>6. S1 \in Seq(Item) /\ Range(S1) = Range(E(0)) \cup Range(E(1))
  BY <1>4, JoinRange
<1> HIDE DEF S1
<1>7. S2 \in Seq(Item) /\ Range(S2) = Range(S1) \cup Range(E(2))
  BY <1>4, <1>6, JoinRange
<1> HIDE DEF S2
<1>8. S3 \in Seq(Item) /\ Range(S3) = Range(S2) \cup Range(E(3))
  BY <1>4, <1>7, JoinRange
<1> HIDE DEF S3
<1>9. S4 \in Seq(Item) /\ Range(S4) = Range(S3) \cup Range(E(4))
  BY <1>4, <1>8, JoinRange
<1> HIDE DEF S4
<1>10. S5 \in Seq(Item) /\ Range(S5) = Range(S4) \cup Range(E(5))
  BY <1>4, <1>9, JoinRange
<1> HIDE DEF S5
<1>11. S6 \in Seq(Item) /\ Range(S6) = Range(S5) \cup Range(E(6))
  BY <1>4, <1>10, JoinRange
<1> HIDE DEF S6
<1>12. Range(S7) = Range(S6) \cup Range(E(7))
  BY <1>4, <1>11, JoinRange
<1> HIDE DEF S7
<1>13. \A it : it \in Range(CopyOrder(c, pages)) <=>
         \/ it \in Range(E(0)) \/ it \in Range(E(1)) \/ it \in Range(E(2))
         \/ it \in Range(E(3)) \/ it \in Range(E(4)) \/ it \in Range(E(5))
         \/ it \in Range(E(6)) \/ it \in Range(E(7))
  BY <1>5, <1>6, <1>7, <1>8, <1>9, <1>10, <1>11, <1>12
<1>14. \A it : it \in Range(CopyOrder(c, pages)) <=>
                 \E l \in 0..7 : it \in Range(E(l))
  <2>1. \A l \in 0..7 : l = 0 \/ l = 1 \/ l = 2 \/ l = 3 \/ l = 4 \/ l = 5
                        \/ l = 6 \/ l = 7
    OBVIOUS
  <2>2. /\ 0 \in 0..7 /\ 1 \in 0..7 /\ 2 \in 0..7 /\ 3 \in 0..7
        /\ 4 \in 0..7 /\ 5 \in 0..7 /\ 6 \in 0..7 /\ 7 \in 0..7
    OBVIOUS
  <2> QED  BY <1>13, <2>1, <2>2
<1> QED  BY <1>3, <1>14

\* The queue of a document holds exactly the filled places of its copies.
LEMMA DocRange ==
  ASSUME NEW d
  PROVE  \A it : it \in Range(DocOrder(d)) <=>
                   \E c \in Copies, l \in 0..7 :
                     /\ it = [copy |-> c, slot |-> l]
                     /\ c \in DOMAIN d /\ l \in Chosen(d[c])
<1> DEFINE P(c) == CopyPart(d, c)
<1>1. DocOrder(d) = P(1) \o P(2) \o P(3) \o P(4) \o P(5)
  BY DEF DocOrder
<1>2. \A c \in Copies : P(c) \in Seq(Item)
  <2>1. \A c \in Copies : CopyOrder(c, d[c]) \in Seq(Item)
    BY CopyOrdered DEF Ordered
  <2> QED  BY <2>1 DEF CopyPart
<1>3. \A c \in Copies : \A it : it \in Range(P(c)) <=>
         c \in DOMAIN d /\ it \in Range(CopyOrder(c, d[c]))
  BY RangeNone DEF CopyPart
<1> HIDE DEF P
<1>4. /\ P(1) \in Seq(Item) /\ P(2) \in Seq(Item) /\ P(3) \in Seq(Item)
      /\ P(4) \in Seq(Item) /\ P(5) \in Seq(Item)
  BY <1>2 DEF Copies
<1> DEFINE S1 == P(1) \o P(2)
           S2 == S1 \o P(3)
           S3 == S2 \o P(4)
           S4 == S3 \o P(5)
<1>5. DocOrder(d) = S4
  BY <1>1
<1>6. S1 \in Seq(Item) /\ Range(S1) = Range(P(1)) \cup Range(P(2))
  BY <1>4, JoinRange
<1> HIDE DEF S1
<1>7. S2 \in Seq(Item) /\ Range(S2) = Range(S1) \cup Range(P(3))
  BY <1>4, <1>6, JoinRange
<1> HIDE DEF S2
<1>8. S3 \in Seq(Item) /\ Range(S3) = Range(S2) \cup Range(P(4))
  BY <1>4, <1>7, JoinRange
<1> HIDE DEF S3
<1>9. Range(S4) = Range(S3) \cup Range(P(5))
  BY <1>4, <1>8, JoinRange
<1> HIDE DEF S4
<1>10. \A it : it \in Range(DocOrder(d)) <=> \E c \in Copies : it \in Range(P(c))
  <2>1. \A it : it \in Range(DocOrder(d)) <=>
          \/ it \in Range(P(1)) \/ it \in Range(P(2)) \/ it \in Range(P(3))
          \/ it \in Range(P(4)) \/ it \in Range(P(5))
    BY <1>5, <1>6, <1>7, <1>8, <1>9
  <2>2. \A c \in Copies : c = 1 \/ c = 2 \/ c = 3 \/ c = 4 \/ c = 5
    BY DEF Copies
  <2>3. 1 \in Copies /\ 2 \in Copies /\ 3 \in Copies /\ 4 \in Copies /\ 5 \in Copies
    BY DEF Copies
  <2> QED  BY <2>1, <2>2, <2>3
<1>11. \A c \in Copies : \A it : it \in Range(CopyOrder(c, d[c])) <=>
          \E l \in 0..7 : it = [copy |-> c, slot |-> l] /\ l \in Chosen(d[c])
  BY CopyRange
<1> QED  BY <1>3, <1>10, <1>11

\* A copy always begins with its marker, a turned page is preceded by the
\* question, and a copy with a marker 444 has all its pages in the queue.
LEMMA ChosenFacts ==
  ASSUME NEW pages \in SUBSET Pages
  PROVE  /\ \A l \in Chosen(pages) : l \in Nat /\ l <= 7
         /\ Begin \in Chosen(pages)
         /\ Over \in Chosen(pages) => Flip \in Chosen(pages)
         /\ LastPage \in Chosen(pages) => CheckLast \in Chosen(pages)
         /\ Mark \in Chosen(pages) => pages \subseteq Chosen(pages)
<1> DEFINE K == OrderKeys(pages)
           n == Cardinality(K)
<1>1. \A k \in K : k \in pages \/ k \in {Begin, Flip, CheckLast, Mark, Label}
  BY DEF OrderKeys, Pages, Begin, Face, Flip, Over, CheckLast, LastPage, Mark,
         Label
<1>2. /\ Begin \in K
      /\ \A k \in pages : k \in K
      /\ Over \in pages => Over - 1 \in K
      /\ LastPage \in pages => LastPage - 1 \in K
  BY DEF OrderKeys
<1>3. /\ Over \in K => Over \in pages
      /\ LastPage \in K => LastPage \in pages
      /\ \A k \in K : k \in Nat /\ k <= 7
  <2>1. \A k \in pages : k = Face \/ k = Over \/ k = LastPage
    BY DEF Pages
  <2>2. \A k \in K : \/ k \in pages
                     \/ k = Begin \/ k = Flip \/ k = CheckLast \/ k = Mark
                     \/ k = Label
    BY <1>1
  <2> HIDE DEF K
  <2> QED  BY <2>1, <2>2 DEF Begin, Face, Flip, Over, CheckLast, LastPage, Mark,
                             Label
<1>4. IsFiniteSet(K) /\ n \in Nat /\ n # 0
  <2> DEFINE top == 7
  <2>1. top \in Int /\ \A k \in K : k \in Nat /\ k <= top
    BY <1>3
  <2> HIDE DEF top
  <2>2. IsFiniteSet(0..top)
    BY <2>1, FS_Interval
  <2>3. K \subseteq 0..top
    BY <2>1
  <2>4. IsFiniteSet(K)
    BY <2>2, <2>3, FS_Subset
  <2> QED  BY <1>2, <2>4, FS_CardinalityType, FS_EmptySet
<1>5. Chosen(pages) = {l \in K : l < n}
  BY DEF Chosen
<1> HIDE DEF K, n
<1>6. /\ \A l \in Chosen(pages) : l \in Nat /\ l <= 7
      /\ Begin \in Chosen(pages)
  BY <1>2, <1>3, <1>4, <1>5 DEF Begin
<1>7. /\ Over \in Chosen(pages) => Flip \in Chosen(pages)
      /\ LastPage \in Chosen(pages) => CheckLast \in Chosen(pages)
  BY <1>2, <1>3, <1>4, <1>5 DEF Over, Flip, LastPage, CheckLast
<1>8. Mark \in Chosen(pages) => pages \subseteq Chosen(pages)
  <2>1. \A k \in pages : k \in Int /\ k < Mark
    BY DEF Pages, Face, Over, LastPage, Mark
  <2>2. Mark \in Chosen(pages) => Mark \in Int /\ Mark < n
    BY <1>5 DEF Mark
  <2> QED  BY <1>2, <1>4, <1>5, <2>1, <2>2
<1> QED  BY <1>6, <1>7, <1>8

-----------------------------------------------------------------------------
(***************************************************************************)
(* One press of "Print", one document prepared.  At most one message is    *)
(* then under way (OneVerdictPerClick), and what it is tells how far the   *)
(* three queues have been drained.  The chain is driving when the next     *)
(* thing the GateKeeper does is to look at the queue, and asking while the *)
(* daemon is asked for the space of the first file; in all other states    *)
(* the chain has come to its end and nothing is looked at any more.        *)
(***************************************************************************)
OnePress == preps <= 1 /\ clicks <= 1

Shown == Range(toClient) \cup Range(dialogs)

Driving ==
  \/ clicks = 0
  \/ "PRINT" \in Range(toGate)
  \/ \E it \in Shown : it.slot # Mark
  \/ \E m \in Range(toDaemon) : m.type = "FILE"
  \/ "PrintOk" \in Range(fromDaemon)

Asking ==
  \/ \E m \in Range(toDaemon) : m.type = "CHECK"
  \/ "CheckOk" \in Range(fromDaemon)

\* The numbers belong to the names; the sizes to the names after the first n.
CopiesMatch ==
  /\ Len(copies) = Len(files)
  /\ \A k \in 1..Len(files) : copies[k] = CopiesOf(files[k])

SizesAfter(n) ==
  /\ Len(sizes) + n = Len(files)
  /\ \A k \in 1..Len(sizes) : sizes[k] = SizeOf(files[k + n])

Aligned ==
  /\ Driving \/ Asking => CopiesMatch
  /\ Driving => SizesAfter(0)
  /\ Asking => /\ files # <<>> /\ IsPage(files[1])
               /\ checked = SizeOf(files[1])
               /\ SizesAfter(1)

\* The reverse side and the last page each have a marker of their own, and
\* it comes right before them.
Turned(it) == it.slot \in {Over, LastPage}
TurnOf(it) == [it EXCEPT !.slot = @ - 1]

TurnFirst ==
  \A j \in 2..Len(files) : Turned(files[j]) => files[j - 1] = TurnOf(files[j])

\* The name that 444 takes along is never a page.
NoPageAfterMark ==
  \A j \in 2..Len(files) : files[j - 1].slot = Mark => ~IsPage(files[j])

Neighbours == TurnFirst /\ NoPageAfterMark

\* A page that may be looked at next was confirmed, or is about to be.
HeadAllowed ==
  Driving \/ Asking =>
    (files # <<>> /\ Turned(files[1]) =>
       TurnOf(files[1]) \in confirmed \cup Shown)

Gone(it, s) == \E i \in 1..Len(s) : s[i].item = it

\* A copy that has a marker 444 has all its pages in the queue or sent.
MarkLast ==
  Driving \/ Asking =>
    \A k \in 1..Len(files) : files[k].slot = Mark =>
      /\ files[k].copy \in DOMAIN doc
      /\ \A p \in doc[files[k].copy] :
           LET it == [copy |-> files[k].copy, slot |-> p]
           IN  it \in Range(files) \/ Gone(it, sent)

\* VerdictAfterLastPage, in terms of what is shown.
Judged ==
  \A it \in Shown : it.slot = Mark =>
    \A p \in doc[it.copy] : Gone([copy |-> it.copy, slot |-> p], sent)

Untouched ==
  preps = 0 => /\ files = <<>> /\ copies = <<>> /\ sizes = <<>>
               /\ Shown = {}

OneBody ==
  /\ Aligned /\ HeadAllowed /\ MarkLast
  /\ SentAsPrepared /\ SidesConfirmed /\ Judged

PressInv == Neighbours /\ Untouched /\ (OnePress => OneBody)

\* The queue of a document: every question comes right before its page, no
\* page comes after a marker 444, and a copy with such a marker is complete.
LEMMA DocFacts ==
  ASSUME PrintQueueAssumption, NEW d \in Docs, NEW q, q = DocOrder(d)
  PROVE  /\ q \in Seq(Item)
         /\ \A j \in 1..Len(q) : Turned(q[j]) => j > 1 /\ q[j - 1] = TurnOf(q[j])
         /\ \A j \in 2..Len(q) : q[j - 1].slot = Mark => ~IsPage(q[j])
         /\ \A j \in 1..Len(q) : q[j].slot = Mark =>
              /\ q[j].copy \in DOMAIN d
              /\ \A p \in d[q[j].copy] : [copy |-> q[j].copy, slot |-> p] \in Range(q)
<1>1. /\ q \in Seq(Item) /\ Len(q) \in Nat
      /\ \A i \in 1..Len(q) : q[i] \in Item
      /\ \A i, j \in 1..Len(q) : i < j => Rank(q[i]) < Rank(q[j])
      /\ \A i \in 1..Len(q) : Rank(q[i]) \in Int
  BY DocOrdered, ElementOfSeq, LenProperties, RankInt DEF Ordered
<1>2. /\ \A i \in 1..Len(q) : q[i] \in Range(q)
      /\ \A e \in Range(q) : \E i \in 1..Len(q) : q[i] = e
  BY <1>1, InRange
<1>3. \A c \in DOMAIN d : c \in Copies /\ d[c] \in SUBSET Pages
  BY DEF PrintQueueAssumption, Copies
<1>4. \A it : it \in Range(q) <=>
        \E c \in Copies, l \in 0..7 : /\ it = [copy |-> c, slot |-> l]
                                      /\ c \in DOMAIN d /\ l \in Chosen(d[c])
  BY DocRange
<1>5. \A c \in DOMAIN d : \A l \in Chosen(d[c]) :
        [copy |-> c, slot |-> l] \in Range(q)
  <2>1. \A c \in DOMAIN d : \A l \in Chosen(d[c]) : l \in 0..7
    BY <1>3, ChosenFacts
  <2> QED  BY <1>3, <1>4, <2>1
<1>6. ASSUME NEW j \in 1..Len(q), NEW it \in Range(q), Rank(it) = Rank(q[j]) - 1
      PROVE  j > 1 /\ q[j - 1] = it
  <2>1. PICK i \in 1..Len(q) : q[i] = it
    BY <1>2
  <2>2. i \in Int /\ j \in Int /\ Rank(q[i]) = Rank(q[j]) - 1
    BY <1>6, <2>1
  <2>3. i < j
    <3>1. i # j /\ ~(j < i)
      BY <1>1, <2>2
    <3> QED  BY <2>2, <3>1
  <2>4. j - 1 \in 1..Len(q)
    BY <1>1, <2>2, <2>3
  <2>5. ~(i < j - 1)
    <3>1. SUFFICES ASSUME i < j - 1 PROVE FALSE
      OBVIOUS
    <3> DEFINE k == j - 1
    <3>2. k \in 1..Len(q) /\ i < k /\ k < j
      BY <2>2, <2>4, <3>1
    <3> HIDE DEF k
    <3>3. Rank(q[i]) < Rank(q[k]) /\ Rank(q[k]) < Rank(q[j])
      BY <1>1, <3>2
    <3>4. Rank(q[i]) \in Int /\ Rank(q[k]) \in Int /\ Rank(q[j]) \in Int
      BY <1>1, <3>2
    <3> QED  BY <2>2, <3>3, <3>4
  <2>6. i = j - 1 /\ j > 1
    BY <2>2, <2>3, <2>5
  <2> QED  BY <2>1, <2>6
<1>7. ASSUME NEW j \in 1..Len(q), Turned(q[j])
      PROVE  j > 1 /\ q[j - 1] = TurnOf(q[j])
  <2>1. PICK c \in Copies, l \in 0..7 : /\ q[j] = [copy |-> c, slot |-> l]
                                        /\ c \in DOMAIN d /\ l \in Chosen(d[c])
    BY <1>2, <1>4
  <2>2. l = Over \/ l = LastPage
    BY <1>7, <2>1 DEF Turned
  <2>3. l - 1 \in Chosen(d[c])
    <3>1. /\ Over \in Chosen(d[c]) => Flip \in Chosen(d[c])
          /\ LastPage \in Chosen(d[c]) => CheckLast \in Chosen(d[c])
      BY <1>3, <2>1, ChosenFacts
    <3>2. Over - 1 = Flip /\ LastPage - 1 = CheckLast
      BY DEF Over, Flip, LastPage, CheckLast
    <3> QED  BY <2>1, <2>2, <3>1, <3>2
  <2>4. TurnOf(q[j]) = [copy |-> c, slot |-> l - 1]
    BY <2>1 DEF TurnOf
  <2>5. TurnOf(q[j]) \in Range(q)
    BY <1>5, <2>1, <2>3, <2>4
  <2>6. Rank(TurnOf(q[j])) = Rank(q[j]) - 1
    BY <2>1, <2>4 DEF Rank, Copies
  <2> QED  BY <1>6, <2>5, <2>6
<1>8. ASSUME NEW j \in 2..Len(q), q[j - 1].slot = Mark, IsPage(q[j])
      PROVE  FALSE
  <2>1. j \in 1..Len(q) /\ j - 1 \in 1..Len(q) /\ j \in Int
    BY <1>1
  <2>2. PICK c \in Copies, l \in 0..7 : /\ q[j] = [copy |-> c, slot |-> l]
                                        /\ c \in DOMAIN d /\ l \in Chosen(d[c])
    BY <1>2, <1>4, <2>1
  <2>3. l \in 1..5
    BY <1>8, <2>2 DEF IsPage, Pages, Face, Over, LastPage
  <2> DEFINE b == [copy |-> c, slot |-> Begin]
  <2>4. b \in Range(q)
    BY <1>3, <1>5, <2>2, ChosenFacts
  <2>5. Rank(b) = 8 * c /\ Rank(q[j]) = 8 * c + l /\ c \in Int
    BY <2>2 DEF Rank, Begin, Copies
  <2>6. b.slot # Mark
    BY DEF Begin, Mark
  <2> HIDE DEF b
  <2>7. PICK i \in 1..Len(q) : q[i] = b
    BY <1>2, <2>4
  <2>8. i \in Int /\ i < j
    <3>1. i # j /\ ~(j < i)
      BY <1>1, <2>1, <2>3, <2>5, <2>7
    <3> QED  BY <2>1, <3>1
  <2>9. i # j - 1
    BY <1>8, <2>6, <2>7
  <2>10. i < j - 1
    BY <2>1, <2>8, <2>9
  <2>11. PICK e \in Copies : Rank(q[j - 1]) = 8 * e + 6
    <3>1. q[j - 1] \in Item
      BY <1>1, <2>1
    <3> QED  BY <1>8, <3>1 DEF Item, Rank, Mark
  <2>12. 8 * c < 8 * e + 6 /\ 8 * e + 6 < 8 * c + l
    <3> DEFINE k == j - 1
    <3>1. k \in 1..Len(q) /\ i < k /\ k < j
      BY <2>1, <2>10
    <3>2. Rank(q[k]) = 8 * e + 6
      BY <2>11
    <3> HIDE DEF k
    <3>3. Rank(q[i]) < Rank(q[k]) /\ Rank(q[k]) < Rank(q[j])
      BY <1>1, <3>1
    <3> QED  BY <2>5, <2>7, <3>2, <3>3
  <2>13. e \in Int
    BY DEF Copies
  <2> QED  BY <2>3, <2>5, <2>12, <2>13
<1>9. ASSUME NEW j \in 1..Len(q), q[j].slot = Mark
      PROVE  /\ q[j].copy \in DOMAIN d
             /\ \A p \in d[q[j].copy] : [copy |-> q[j].copy, slot |-> p] \in Range(q)
  <2>1. PICK c \in Copies, l \in 0..7 : /\ q[j] = [copy |-> c, slot |-> l]
                                        /\ c \in DOMAIN d /\ l \in Chosen(d[c])
    BY <1>2, <1>4
  <2>2. q[j].copy = c /\ l = Mark
    BY <1>9, <2>1
  <2>3. d[c] \subseteq Chosen(d[c])
    BY <1>3, <2>1, <2>2, ChosenFacts
  <2> QED  BY <1>5, <2>1, <2>2, <2>3
<1> QED  BY <1>1, <1>7, <1>8, <1>9

\* A step prepares a document or drops up to two names of the queue.
LEMMA FileSteps ==
  ASSUME TypeOK, [Next]_vars
  PROVE  (\E d \in Docs : DocReady4print(d)) \/ (\E k \in {0, 1, 2} : Drop(k))
<1>0. files \in Seq(Item) /\ Len(files) \in Nat
  BY LenProperties DEF TypeOK
<1>1. CASE UNCHANGED files
  <2>1. Drop(0)
    BY <1>0, <1>1 DEF Drop
  <2> QED  BY <2>1
<1>2. CASE CheckCurrentFile
  BY <1>2, CheckCurrentFileDrops
<1>3. CASE SendFileToDaemon
  <2>1. CASE files = <<>>
    BY <1>1, <1>3, <2>1 DEF SendFileToDaemon
  <2>2. CASE files # <<>>
    <3>1. Drop(1)
      BY <1>0, <1>3, <2>2, DropDequeue DEF SendFileToDaemon
    <3> QED  BY <3>1
  <2> QED  BY <2>1, <2>2
<1>4. CASE System
  <2>1. CASE GateReceivesPrint
    BY <1>2, <2>1 DEF GateReceivesPrint
  <2>2. CASE GateReceivesVerdict
    BY <1>1, <2>2 DEF GateReceivesVerdict, queues
  <2>3. CASE GateReceivesAnswer
    BY <1>1, <1>2, <1>3, <2>3 DEF GateReceivesAnswer, queues
  <2>4. CASE ClientReceivesMarker
    BY <1>1, <2>4 DEF ClientReceivesMarker, queues
  <2>5. CASE DaemonHandles
    BY <1>1, <2>5 DEF DaemonHandles, queues
  <2> QED  BY <1>4, <2>1, <2>2, <2>3, <2>4, <2>5 DEF System
<1>5. CASE User
  BY <1>1, <1>5 DEF User, UserPrints, UserConfirms, UserJudges, queues
<1>6. CASE NetLost \/ ClientGone
  BY <1>1, <1>6 DEF NetLost, ClientGone, queues
<1>7. CASE UNCHANGED vars
  BY <1>1, <1>7 DEF vars, queues
<1> QED  BY <1>4, <1>5, <1>6, <1>7 DEF Next

\* What stands next to what in the queue.
LEMMA NeighboursNext ==
  ASSUME PrintQueueAssumption, TypeOK, TypeOK', Neighbours, [Next]_vars
  PROVE  Neighbours'
<1>1. ASSUME NEW d \in Docs, DocReady4print(d) PROVE Neighbours'
  <2>1. files' = DocOrder(d)
    BY <1>1 DEF DocReady4print, EnqueueAll
  <2>2. /\ \A j \in 1..Len(files') :
             Turned(files'[j]) => j > 1 /\ files'[j - 1] = TurnOf(files'[j])
        /\ \A j \in 2..Len(files') :
             files'[j - 1].slot = Mark => ~IsPage(files'[j])
    BY <2>1, DocFacts
  <2>3. \A j \in 2..Len(files') : j \in 1..Len(files')
    BY LenProperties DEF TypeOK
  <2> QED  BY <2>2, <2>3 DEF Neighbours, TurnFirst, NoPageAfterMark
<1>2. ASSUME NEW k \in {0, 1, 2}, Drop(k) PROVE Neighbours'
  <2>1. Len(files) \in Nat /\ Len(files') \in Nat
    BY LenProperties DEF TypeOK
  <2>2. ASSUME NEW j \in 2..Len(files')
        PROVE  \E i \in 2..Len(files) : /\ files'[j] = files[i]
                                        /\ files'[j - 1] = files[i - 1]
    <3>1. /\ j \in 1..Len(files') /\ j - 1 \in 1..Len(files')
          /\ j + k \in 2..Len(files) /\ (j - 1) + k = (j + k) - 1
      BY <1>2, <2>1 DEF Drop
    <3>2. files'[j] = files[j + k] /\ files'[j - 1] = files[(j - 1) + k]
      BY <1>2, <3>1 DEF Drop
    <3> QED  BY <3>1, <3>2
  <2> QED  BY <2>2 DEF Neighbours, TurnFirst, NoPageAfterMark
<1> QED  BY <1>1, <1>2, FileSteps

(***************************************************************************)
(* With one press there is at most one message.                            *)
(***************************************************************************)
LEMMA NothingIn ==
  ASSUME NEW S, NEW q \in Seq(S), Size(q) = 0
  PROVE  q = <<>> /\ Range(q) = {}
<1>1. q = <<>>
  BY EmptySeq DEF Size
<1> QED  BY <1>1, RangeNone

LEMMA SizeSome ==
  ASSUME NEW S, NEW q \in Seq(S), q # <<>>
  PROVE  Size(q) >= 1
BY EmptySeq DEF Size

LEMMA LoneMessage ==
  ASSUME NEW S, NEW q \in Seq(S), q # <<>>, Size(q) <= 1
  PROVE  /\ Head(q) \in S /\ Range(q) = {Head(q)} /\ Range(Tail(q)) = {}
         /\ q[Len(q)] = Head(q) /\ Range(SubSeq(q, 1, Len(q) - 1)) = {}
<1>1. Size(q) \in Nat /\ Size(q) = 1 /\ Len(q) = 1
  <2>1. Size(q) \in Nat /\ Size(q) >= 1
    BY SizeNat, SizeSome
  <2>2. Size(q) = 1
    BY <2>1
  <2> QED  BY <2>1, <2>2 DEF Size
<1>2. Head(q) \in S /\ Head(q) = q[1]
  BY <1>1, HeadTailProperties
<1>3. Range(q) = {Head(q)}
  <2>1. 1 \in 1..Len(q) /\ \A i \in 1..Len(q) : i = 1
    BY <1>1
  <2> QED  BY <1>2, <2>1, InRange
<1>4. Range(Tail(q)) = {}
  <2>1. Tail(q) \in Seq(S) /\ Size(Tail(q)) = 0
    BY <1>1, SizeTail
  <2> QED  BY <2>1, NothingIn
<1>5. Range(SubSeq(q, 1, Len(q) - 1)) = {}
  <2>1. SubSeq(q, 1, Len(q) - 1) \in Seq(S) /\ Size(SubSeq(q, 1, Len(q) - 1)) = 0
    BY <1>1, SizeFront
  <2> DEFINE f == SubSeq(q, 1, Len(q) - 1)
  <2> HIDE DEF f
  <2>2. f \in Seq(S) /\ Size(f) = 0
    BY <2>1 DEF f
  <2>3. Range(f) = {}
    BY <2>2, NothingIn
  <2> QED  BY <2>3 DEF f
<1> QED  BY <1>1, <1>2, <1>3, <1>4, <1>5

None(a, b, c, d) ==
  Range(a) = {} /\ Range(b) = {} /\ Range(c) = {} /\ Range(d) = {}

LEMMA OneMessage ==
  ASSUME CountInv, clicks <= 1
  PROVE  /\ clicks = 0 => /\ None(toGate, toClient, dialogs, toDaemon)
                          /\ Range(fromDaemon) = {}
         /\ toGate # <<>> => /\ clicks = 1 /\ Size(toGate) <= 1
                             /\ None(toClient, dialogs, toDaemon, fromDaemon)
         /\ toClient # <<>> => /\ clicks = 1 /\ Size(toClient) <= 1
                               /\ None(toGate, dialogs, toDaemon, fromDaemon)
         /\ dialogs # <<>> => /\ clicks = 1 /\ Size(dialogs) <= 1
                              /\ None(toGate, toClient, toDaemon, fromDaemon)
         /\ toDaemon # <<>> => /\ clicks = 1 /\ Size(toDaemon) <= 1
                               /\ None(toGate, toClient, dialogs, fromDaemon)
         /\ fromDaemon # <<>> => /\ clicks = 1 /\ Size(fromDaemon) <= 1
                                 /\ None(toGate, toClient, dialogs, toDaemon)
<1>1. /\ toGate # <<>> => Size(toGate) >= 1
      /\ toClient # <<>> => Size(toClient) >= 1
      /\ dialogs # <<>> => Size(dialogs) >= 1
      /\ toDaemon # <<>> => Size(toDaemon) >= 1
      /\ fromDaemon # <<>> => Size(fromDaemon) >= 1
  BY SizeSome DEF CountInv, TypeOK
<1>2. /\ Size(toGate) = 0 => Range(toGate) = {}
      /\ Size(toClient) = 0 => Range(toClient) = {}
      /\ Size(dialogs) = 0 => Range(dialogs) = {}
      /\ Size(toDaemon) = 0 => Range(toDaemon) = {}
      /\ Size(fromDaemon) = 0 => Range(fromDaemon) = {}
  BY NothingIn DEF CountInv, TypeOK
<1> DEFINE a == Size(toGate)
           b == Size(toClient)
           c == Size(dialogs)
           d == Size(toDaemon)
           e == Size(fromDaemon)
           f == Size(saved)
<1>3. /\ a \in Nat /\ b \in Nat /\ c \in Nat /\ d \in Nat /\ e \in Nat
      /\ f \in Nat /\ clicks \in Nat /\ a + b + c + d + e + f <= clicks
  BY CountFacts
<1> HIDE DEF a, b, c, d, e, f
<1>4. /\ clicks = 0 => a = 0 /\ b = 0 /\ c = 0 /\ d = 0 /\ e = 0
      /\ a >= 1 => clicks = 1 /\ a <= 1 /\ b = 0 /\ c = 0 /\ d = 0 /\ e = 0
      /\ b >= 1 => clicks = 1 /\ b <= 1 /\ a = 0 /\ c = 0 /\ d = 0 /\ e = 0
      /\ c >= 1 => clicks = 1 /\ c <= 1 /\ a = 0 /\ b = 0 /\ d = 0 /\ e = 0
      /\ d >= 1 => clicks = 1 /\ d <= 1 /\ a = 0 /\ b = 0 /\ c = 0 /\ e = 0
      /\ e >= 1 => clicks = 1 /\ e <= 1 /\ a = 0 /\ b = 0 /\ c = 0 /\ d = 0
  BY <1>3
<1> QED  BY <1>1, <1>2, <1>4 DEF None, a, b, c, d, e

(***************************************************************************)
(* Steps that leave the queues alone: the chain goes on or comes to its    *)
(* end, and a question that is answered was confirmed.                     *)
(***************************************************************************)
LEMMA OneKept ==
  ASSUME TypeOK, OneBody, UNCHANGED <<files, copies, sizes, checked, sent, doc>>,
         confirmed \subseteq confirmed', Driving' => Driving, Asking' => Asking,
         \A it \in Shown' : it.slot = Mark => it \in Shown,
         Driving' \/ Asking' =>
           \A it \in Shown : it.slot \in {Flip, CheckLast} =>
             it \in Shown' \cup confirmed'
  PROVE  OneBody'
<1>1. Aligned'
  BY DEF OneBody, Aligned, CopiesMatch, SizesAfter
<1>2. HeadAllowed'
  <2>1. SUFFICES ASSUME Driving' \/ Asking', files' # <<>>, Turned(files'[1])
                 PROVE  TurnOf(files'[1]) \in (confirmed \cup Shown)'
    BY DEF HeadAllowed
  <2>2. TurnOf(files[1]) \in confirmed \cup Shown
    BY <2>1 DEF OneBody, HeadAllowed
  <2>3. TurnOf(files[1]).slot \in {Flip, CheckLast}
    <3>1. files[1] \in Item
      <4>1. 1 \in 1..Len(files)
        BY <2>1, EmptySeq DEF TypeOK
      <4> QED  BY <4>1, ElementOfSeq DEF TypeOK
    <3>2. files[1].slot = Over \/ files[1].slot = LastPage
      BY <2>1 DEF Turned
    <3> QED  BY <3>1, <3>2 DEF TurnOf, Item, Over, LastPage, Flip, CheckLast
  <2>4. TurnOf(files[1]) \in confirmed' \cup Shown'
    BY <2>1, <2>2, <2>3
  <2> QED  BY <2>4
<1>3. MarkLast'
  BY DEF OneBody, MarkLast, Gone
<1>4. SentAsPrepared'
  BY DEF OneBody, SentAsPrepared
<1>5. SidesConfirmed'
  BY DEF OneBody, SidesConfirmed
<1>6. Judged'
  BY DEF OneBody, Judged, Gone
<1> QED  BY <1>1, <1>2, <1>3, <1>4, <1>5, <1>6 DEF OneBody

\* The chain has come to its end.
LEMMA OneEnds ==
  ASSUME TypeOK, OneBody, UNCHANGED <<queues, checked, sent, doc, confirmed>>,
         clicks' = 1,
         None(toClient', dialogs', toDaemon', fromDaemon'),
         "PRINT" \notin Range(toGate')
  PROVE  OneBody'
<1>1. Shown' = {} /\ ~Driving' /\ ~Asking'
  BY DEF None, Shown, Driving, Asking
<1> QED  BY <1>1, OneKept DEF queues

LEMMA OneVerdict ==
  ASSUME CountInv, OneBody, clicks' <= 1, GateReceivesVerdict
  PROVE  OneBody'
<1>1. toGate # <<>> /\ clicks <= 1
  BY DEF GateReceivesVerdict
<1>2. /\ clicks = 1 /\ Size(toGate) <= 1
      /\ None(toClient, dialogs, toDaemon, fromDaemon)
  BY <1>1, OneMessage
<1>3. Range(toGate') = {}
  BY <1>1, <1>2, LoneMessage DEF CountInv, TypeOK, GateReceivesVerdict
<1> DEFINE m == [type |-> "SAVE", verdict |-> Head(toGate)]
<1>4. m \in Request /\ m.type = "SAVE"
  <2>1. Head(toGate) \in {"PRINT", "BRAK", "CLEAR"} /\ Head(toGate) # "PRINT"
    BY <1>1, HeadTailProperties DEF CountInv, TypeOK, GateReceivesVerdict
  <2> QED  BY <2>1 DEF Request
<1>5. toDaemon' = toDaemon \/ toDaemon' = Append(toDaemon, m)
  BY DEF GateReceivesVerdict, NetSend
<1> HIDE DEF m
<1>6. \A r \in Range(toDaemon') : r = m
  <2>1. Range(Append(toDaemon, m)) = Range(toDaemon) \cup {m}
    BY <1>4, RangeAppend DEF CountInv, TypeOK
  <2> QED  BY <1>2, <1>5, <2>1 DEF None
<1>7. ~Driving' /\ ~Asking' /\ Shown' = {}
  BY <1>2, <1>3, <1>4, <1>6 DEF GateReceivesVerdict, None, Driving, Asking, Shown
<1> QED  BY <1>7, OneKept DEF GateReceivesVerdict, queues, history, CountInv

\* An answer that is dropped or refuses: the queues wait for another press.
LEMMA OneRefused ==
  ASSUME CountInv, OneBody, clicks' <= 1, fromDaemon # <<>>,
         fromDaemon' = Tail(fromDaemon),
         UNCHANGED <<queues, toClient, dialogs, toGate, toDaemon, clicks, history>>
  PROVE  OneBody'
<1>1. /\ clicks = 1 /\ Size(fromDaemon) <= 1
      /\ None(toGate, toClient, dialogs, toDaemon)
  BY OneMessage
<1>2. Range(fromDaemon') = {}
  BY <1>1, LoneMessage DEF CountInv, TypeOK
<1> QED  BY <1>1, <1>2, OneEnds DEF None, history, queues, CountInv

LEMMA OneUserPrints ==
  ASSUME CountInv, OneBody, clicks' <= 1, UserPrints
  PROVE  OneBody'
<1>1. clicks = 0
  BY DEF UserPrints, CountInv, TypeOK
<1>2. None(toGate, toClient, dialogs, toDaemon) /\ Range(fromDaemon) = {}
  BY <1>1, OneMessage
<1>3. Driving /\ ~Asking' /\ Shown' = Shown
  BY <1>1, <1>2 DEF UserPrints, None, Driving, Asking, Shown
<1> QED  BY <1>3, OneKept DEF UserPrints, queues, history, CountInv

LEMMA OneClientReceives ==
  ASSUME CountInv, OneBody, clicks' <= 1, ClientReceivesMarker
  PROVE  OneBody'
<1>1. toClient # <<>> /\ clicks <= 1 /\ clicks' = clicks
  BY DEF ClientReceivesMarker
<1>2. /\ clicks = 1 /\ Size(toClient) <= 1
      /\ None(toGate, dialogs, toDaemon, fromDaemon)
  BY <1>1, OneMessage
<1> DEFINE h == Head(toClient)
<1>3. h \in Item /\ Range(toClient) = {h} /\ Range(toClient') = {}
  BY <1>1, <1>2, LoneMessage DEF CountInv, TypeOK, ClientReceivesMarker
<1>4. CASE h.slot = Begin
  <2>1. /\ dialogs' = dialogs
        /\ UNCHANGED <<toDaemon, fromDaemon>>
    BY <1>4 DEF ClientReceivesMarker
  <2>2. Begin # Mark /\ Begin # Flip /\ Begin # CheckLast
    BY DEF Begin, Mark, Flip, CheckLast
  <2> HIDE DEF h
  <2>3. Shown = {h} /\ Shown' = {} /\ Driving /\ ~Asking'
    BY <1>2, <1>3, <1>4, <2>1, <2>2 DEF None, Shown, Driving, Asking
  <2> QED  BY <1>4, <2>2, <2>3, OneKept DEF ClientReceivesMarker, queues, history,
                                           CountInv
<1>5. CASE h.slot # Begin
  <2>1. /\ dialogs' = Append(dialogs, h)
        /\ UNCHANGED <<toGate, toDaemon, fromDaemon>>
    BY <1>5 DEF ClientReceivesMarker
  <2> HIDE DEF h
  <2>2. Range(dialogs') = Range(dialogs) \cup {h}
    BY <1>3, <2>1, RangeAppend DEF CountInv, TypeOK
  <2>3. Shown = {h} /\ Shown' = {h}
    BY <1>2, <1>3, <2>2 DEF None, Shown
  <2>4. (Driving' => Driving) /\ (Asking' => Asking)
    BY <1>1, <2>1, <2>3 DEF Driving, Asking
  <2> QED  BY <2>3, <2>4, OneKept DEF ClientReceivesMarker, queues, history,
                                     CountInv
<1> QED  BY <1>4, <1>5

\* The topmost box is the only thing there is.
LEMMA OneBox ==
  ASSUME CountInv, clicks <= 1, dialogs # <<>>
  PROVE  /\ clicks = 1 /\ None(toGate, toClient, toDaemon, fromDaemon)
         /\ TopDialog \in Item /\ Shown = {TopDialog}
         /\ Range(SubSeq(dialogs, 1, Len(dialogs) - 1)) = {}
<1>1. /\ clicks = 1 /\ Size(dialogs) <= 1
      /\ None(toGate, toClient, toDaemon, fromDaemon)
  BY OneMessage
<1>2. /\ Head(dialogs) \in Item /\ Range(dialogs) = {Head(dialogs)}
      /\ dialogs[Len(dialogs)] = Head(dialogs)
      /\ Range(SubSeq(dialogs, 1, Len(dialogs) - 1)) = {}
  BY <1>1, LoneMessage DEF CountInv, TypeOK
<1> QED  BY <1>1, <1>2 DEF None, Shown, TopDialog

LEMMA OneUserConfirms ==
  ASSUME CountInv, OneBody, clicks' <= 1, UserConfirms
  PROVE  OneBody'
<1>1. dialogs # <<>> /\ clicks <= 1 /\ TopDialog.slot # Mark
  BY DEF UserConfirms
<1>2. /\ clicks = 1 /\ None(toGate, toClient, toDaemon, fromDaemon)
      /\ Shown = {TopDialog}
      /\ Range(SubSeq(dialogs, 1, Len(dialogs) - 1)) = {}
  BY <1>1, OneBox
<1>3. Shown' = {} /\ ~Asking' /\ Driving
  BY <1>1, <1>2 DEF UserConfirms, None, Shown, Asking, Driving
<1>4. confirmed' = confirmed \cup {TopDialog}
  BY DEF UserConfirms
<1> QED  BY <1>2, <1>3, <1>4, OneKept DEF UserConfirms, queues, CountInv

LEMMA OneUserJudges ==
  ASSUME CountInv, OneBody, clicks' <= 1, NEW v \in {"BRAK", "CLEAR"},
         UserJudges(v)
  PROVE  OneBody'
<1>1. dialogs # <<>> /\ clicks <= 1
  BY DEF UserJudges
<1>2. /\ clicks = 1 /\ None(toGate, toClient, toDaemon, fromDaemon)
      /\ Range(SubSeq(dialogs, 1, Len(dialogs) - 1)) = {}
  BY <1>1, OneBox
<1>3. "PRINT" \notin Range(toGate')
  <2>1. v \in {"PRINT", "BRAK", "CLEAR"} /\ v # "PRINT"
    OBVIOUS
  <2>2. Range(Append(toGate, v)) = Range(toGate) \cup {v}
    BY <2>1, RangeAppend DEF CountInv, TypeOK
  <2> QED  BY <1>2, <2>1, <2>2 DEF UserJudges, None
<1> QED  BY <1>2, <1>3, OneEnds DEF UserJudges, None, queues, history, CountInv

LEMMA OneDaemonHandles ==
  ASSUME CountInv, OneBody, clicks' <= 1, DaemonHandles
  PROVE  OneBody'
<1>1. toDaemon # <<>> /\ clicks <= 1 /\ clicks' = clicks
  BY DEF DaemonHandles
<1>2. /\ clicks = 1 /\ Size(toDaemon) <= 1
      /\ None(toGate, toClient, dialogs, fromDaemon)
  BY <1>1, OneMessage
<1> DEFINE m == Head(toDaemon)
<1>3. Range(toDaemon) = {m} /\ Range(toDaemon') = {}
  BY <1>1, <1>2, LoneMessage DEF CountInv, TypeOK, DaemonHandles
<1>4. Shown' = {} /\ "PRINT" \notin Range(toGate')
  BY <1>2 DEF DaemonHandles, None, Shown
<1>5. \A a \in Answer : Range(Append(fromDaemon, a)) = {a}
  <2>1. \A a \in Answer : Range(Append(fromDaemon, a)) = Range(fromDaemon) \cup {a}
    BY RangeAppend DEF CountInv, TypeOK
  <2> QED  BY <1>2, <2>1 DEF None
<1>6. \/ m.type = "CHECK" /\ (\/ Range(fromDaemon') = {"CheckOk"}
                              \/ Range(fromDaemon') = {"CheckFail"})
      \/ m.type = "FILE" /\ (\/ Range(fromDaemon') = {"PrintOk"}
                             \/ Range(fromDaemon') = {"PrintFail"})
      \/ Range(fromDaemon') = {}
  BY <1>2, <1>5 DEF DaemonHandles, DaemonReplies, Answer, None
<1> HIDE DEF m
<1>7. (Driving' => Driving) /\ (Asking' => Asking)
  BY <1>1, <1>2, <1>3, <1>4, <1>6 DEF Driving, Asking
<1>8. Shown = {}
  BY <1>2 DEF Shown, None
<1> QED  BY <1>4, <1>7, <1>8, OneKept DEF DaemonHandles, queues, CountInv

LEMMA OneNetLost ==
  ASSUME CountInv, OneBody, NetLost
  PROVE  OneBody'
<1>1. Range(toDaemon') = {} /\ Range(fromDaemon') = {}
  BY RangeNone DEF NetLost
<1>2. Shown' = Shown /\ (Driving' => Driving) /\ ~Asking'
  BY <1>1 DEF NetLost, Shown, Driving, Asking
<1> QED  BY <1>2, OneKept DEF NetLost, queues, history, CountInv

LEMMA OneClientGone ==
  ASSUME CountInv, OneBody, clicks' <= 1, ClientGone
  PROVE  OneBody'
<1>1. clicks <= 1 /\ UNCHANGED <<queues, toDaemon, fromDaemon, clicks, history>>
  BY DEF ClientGone
<1>2. Range(toGate') = {} /\ Range(toClient') = {} /\ Range(dialogs') = {}
  BY RangeNone DEF ClientGone
<1>3. Shown' = {} /\ (Driving' => Driving) /\ (Asking' => Asking)
  BY <1>1, <1>2 DEF Shown, Driving, Asking
<1>4. Shown # {} => ~Driving' /\ ~Asking'
  <2>1. SUFFICES ASSUME Shown # {} PROVE ~Driving' /\ ~Asking'
    OBVIOUS
  <2>2. toClient # <<>> \/ dialogs # <<>>
    BY <2>1, RangeNone DEF Shown
  <2>3. clicks = 1 /\ Range(toDaemon) = {} /\ Range(fromDaemon) = {}
    BY <1>1, <2>2, OneMessage DEF None
  <2> QED  BY <1>1, <1>2, <1>3, <2>3 DEF Driving, Asking
<1> QED  BY <1>1, <1>3, <1>4, OneKept DEF queues, history, CountInv

(***************************************************************************)
(* A look at the queue, with the chain driving.                            *)
(***************************************************************************)
BeforeLook ==
  /\ TypeOK /\ Sorted /\ Neighbours /\ OneBody /\ Driving
  /\ Range(toClient) = {} /\ Range(dialogs) = {} /\ Range(toDaemon) = {}

AfterLook ==
  /\ TypeOK' /\ UNCHANGED <<doc, sent, confirmed>> /\ clicks' = 1
  /\ Range(toGate') = {} /\ Range(dialogs') = {} /\ Range(fromDaemon') = {}

PagesStay ==
  \A k \in 1..Len(files) : IsPage(files[k]) =>
    \E n \in 1..Len(files') : files'[n] = files[k]

LEMMA Shifted ==
  ASSUME NEW S, NEW q \in Seq(S), Len(q) # 0
  PROVE  /\ q # <<>> /\ Dequeue(q) = Tail(q) /\ Head(q) = q[1] /\ q[1] \in S
         /\ Len(Tail(q)) = Len(q) - 1
         /\ \A j \in 1..(Len(q) - 1) : Tail(q)[j] = q[j + 1]
<1>1. q # <<>> /\ Len(q) \in Nat
  BY EmptySeq, LenProperties
<1>2. 1 \in 1..Len(q)
  BY <1>1
<1> QED  BY <1>1, <1>2, HeadTailProperties, ElementOfSeq DEF Dequeue

\* The three queues start with the same entry.
LEMMA LookHead ==
  ASSUME PrintQueueAssumption, BeforeLook, files # <<>>
  PROVE  /\ Len(files) \in Nat /\ Len(files) # 0 /\ files[1] \in Item
         /\ Len(sizes) = Len(files) /\ Len(copies) = Len(files)
         /\ Head(files) = files[1] /\ Head(sizes) = sizes[1]
         /\ CurrentSize = SizeOf(files[1])
         /\ IsPage(files[1]) <=> CurrentSize > 0
<1>1. /\ Len(files) \in Nat /\ Len(files) # 0
      /\ Len(sizes) = Len(files) /\ Len(copies) = Len(files)
      /\ \A k \in 1..Len(sizes) : sizes[k] = SizeOf(files[k + 0])
  <2>1. Len(files) \in Nat /\ Len(files) # 0 /\ Len(sizes) \in Nat
    BY EmptySeq, LenProperties DEF BeforeLook, TypeOK
  <2> QED  BY <2>1 DEF BeforeLook, OneBody, Aligned, SizesAfter, CopiesMatch
<1>2. /\ Head(files) = files[1] /\ files[1] \in Item
      /\ sizes # <<>> /\ Head(sizes) = sizes[1]
  BY <1>1, Shifted DEF BeforeLook, TypeOK
<1>3. CurrentSize = SizeOf(files[1])
  <2>1. sizes[1] = SizeOf(files[1])
    BY <1>1
  <2> QED  BY <1>2, <2>1 DEF CurrentSize, HeadOr
<1>4. IsPage(files[1]) <=> SizeOf(files[1]) > 0
  BY DEF IsPage, SizeOf, PrintQueueAssumption
<1> QED  BY <1>1, <1>2, <1>3, <1>4

\* Dropping the first name, which is no page, loses no page.
LEMMA FirstNameGone ==
  ASSUME files \in Seq(Item), files # <<>>, files' = Tail(files),
         ~IsPage(files[1])
  PROVE  PagesStay
<1>1. Drop(1) /\ Len(files) \in Nat
  BY DropDequeue, LenProperties
<1>2. ASSUME NEW k \in 1..Len(files), IsPage(files[k])
      PROVE  \E n \in 1..Len(files') : files'[n] = files[k]
  <2>1. k # 1 /\ k \in Int
    BY <1>2
  <2>2. /\ k - 1 \in 1..Len(files') /\ (k - 1) + 1 = k
    BY <1>1, <2>1 DEF Drop
  <2>3. files'[k - 1] = files[k]
    <3>1. files'[k - 1] = files[(k - 1) + 1]
      BY <1>1, <2>2 DEF Drop
    <3> QED  BY <2>2, <3>1
  <2> QED  BY <2>2, <2>3
<1> QED  BY <1>2 DEF PagesStay

\* Dropping 444 and the name after it loses no page either.
LEMMA MarkAndNextGone ==
  ASSUME files \in Seq(Item), files # <<>>, files' = Dequeue(Tail(files)),
         files[1].slot = Mark, NoPageAfterMark
  PROVE  PagesStay
<1>1. /\ Drop(1) \/ Drop(2)
      /\ Len(files) \in Nat
  BY DropTwo, LenProperties
<1>2. ASSUME NEW k \in 1..Len(files), IsPage(files[k])
      PROVE  \E n \in 1..Len(files') : files'[n] = files[k]
  <2>1. k \in Int /\ k # 1
    BY <1>2 DEF IsPage, Pages, Mark, Face, Over, LastPage
  <2>2. k # 2
    <3>1. SUFFICES ASSUME k = 2 PROVE FALSE
      OBVIOUS
    <3>2. 2 \in 2..Len(files) /\ 2 - 1 = 1
      BY <1>1, <3>1
    <3> QED  BY <1>2, <3>1, <3>2 DEF NoPageAfterMark
  <2>3. CASE Drop(1)
    <3>1. k - 1 \in 1..Len(files') /\ (k - 1) + 1 = k
      BY <1>1, <2>1, <2>3 DEF Drop
    <3>2. files'[k - 1] = files[(k - 1) + 1]
      BY <2>3, <3>1 DEF Drop
    <3> QED  BY <3>1, <3>2
  <2>4. CASE Drop(2)
    <3>1. k - 2 \in 1..Len(files') /\ (k - 2) + 2 = k
      BY <1>1, <2>1, <2>2, <2>4 DEF Drop
    <3>2. files'[k - 2] = files[(k - 2) + 2]
      BY <2>4, <3>1 DEF Drop
    <3> QED  BY <3>1, <3>2
  <2> QED  BY <1>1, <2>3, <2>4
<1> QED  BY <1>2 DEF PagesStay

\* A marker other than 444 goes to the wizard.
LEMMA LookMarker ==
  ASSUME PrintQueueAssumption, BeforeLook, AfterLook, files # <<>>, SendMarker,
         Head(files).slot # Mark
  PROVE  OneBody' /\ PagesStay
<1> DEFINE h == files[1]
<1>1. /\ Len(files) \in Nat /\ Len(files) # 0 /\ h \in Item /\ Head(files) = h
      /\ Len(sizes) = Len(files) /\ Len(copies) = Len(files) /\ ~IsPage(h)
  <2>1. CurrentSize = 0
    BY DEF SendMarker
  <2> QED  BY <2>1, LookHead
<1>2. /\ files' = Tail(files) /\ sizes' = Tail(sizes) /\ copies' = Tail(copies)
      /\ toClient' = Append(toClient, h) /\ UNCHANGED <<toDaemon, checked>>
  BY <1>1, Shifted DEF SendMarker, BeforeLook, TypeOK
<1>3. /\ Len(files') = Len(files) - 1 /\ Len(sizes') = Len(files) - 1
      /\ Len(copies') = Len(files) - 1
      /\ \A j \in 1..(Len(files) - 1) :
           /\ j + 1 \in 1..Len(files) /\ files'[j] = files[j + 1]
           /\ sizes'[j] = sizes[j + 1] /\ copies'[j] = copies[j + 1]
  <2>1. /\ Len(files') = Len(files) - 1
        /\ \A j \in 1..(Len(files) - 1) : files'[j] = files[j + 1]
    BY <1>1, <1>2, Shifted DEF BeforeLook, TypeOK
  <2>2. /\ Len(sizes') = Len(files) - 1
        /\ \A j \in 1..(Len(files) - 1) : sizes'[j] = sizes[j + 1]
    BY <1>1, <1>2, Shifted DEF BeforeLook, TypeOK
  <2>3. /\ Len(copies') = Len(files) - 1
        /\ \A j \in 1..(Len(files) - 1) : copies'[j] = copies[j + 1]
    BY <1>1, <1>2, Shifted DEF BeforeLook, TypeOK
  <2>4. \A j \in 1..(Len(files) - 1) : j + 1 \in 1..Len(files)
    BY <1>1
  <2> QED  BY <2>1, <2>2, <2>3, <2>4
<1>4. Shown' = {h}
  <2>1. Range(Append(toClient, h)) = Range(toClient) \cup {h}
    BY <1>1, RangeAppend DEF BeforeLook, TypeOK
  <2> QED  BY <1>2, <2>1 DEF BeforeLook, AfterLook, Shown
<1>5. h.slot # Mark /\ ~Asking'
  BY <1>1, <1>2 DEF BeforeLook, AfterLook, Asking
<1>6. Aligned'
  <2>1. /\ \A k \in 1..Len(files) : sizes[k] = SizeOf(files[k + 0])
        /\ \A k \in 1..Len(files) : copies[k] = CopiesOf(files[k])
    BY <1>1 DEF BeforeLook, OneBody, Aligned, SizesAfter, CopiesMatch
  <2>2. \A j \in 1..(Len(files) - 1) : /\ sizes'[j] = SizeOf(files'[j])
                                       /\ copies'[j] = CopiesOf(files'[j])
    BY <1>3, <2>1
  <2>3. CopiesMatch'
    BY <1>3, <2>2 DEF CopiesMatch
  <2>4. SizesAfter(0)'
    <3>1. Len(sizes') + 0 = Len(files')
      BY <1>1, <1>3
    <3>2. \A j \in 1..Len(sizes') : j + 0 = j /\ sizes'[j] = SizeOf(files'[j])
      BY <1>3, <2>2
    <3> QED  BY <3>1, <3>2 DEF SizesAfter
  <2> QED  BY <1>5, <2>3, <2>4 DEF Aligned
<1>7. HeadAllowed'
  <2>1. SUFFICES ASSUME files' # <<>>, Turned(files'[1])
                 PROVE  TurnOf(files'[1]) \in (confirmed \cup Shown)'
    BY DEF HeadAllowed
  <2>2. 1 \in 1..Len(files') /\ 1 \in 1..(Len(files) - 1)
    <3>1. Len(files') \in Nat /\ Len(files') # 0
      BY <2>1, EmptySeq, LenProperties DEF AfterLook, TypeOK
    <3> QED  BY <1>1, <1>3, <3>1
  <2>3. files'[1] = files[2] /\ 2 \in 2..Len(files) /\ 2 - 1 = 1
    <3>1. files'[1] = files[1 + 1] /\ 1 + 1 \in 1..Len(files)
      BY <1>3, <2>2
    <3> QED  BY <1>1, <3>1
  <2>4. h = TurnOf(files'[1])
    BY <2>1, <2>3 DEF BeforeLook, Neighbours, TurnFirst
  <2> QED  BY <1>4, <2>4
<1>8. PagesStay
  BY <1>1, <1>2, FirstNameGone DEF BeforeLook, TypeOK
<1>9. MarkLast'
  <2>1. SUFFICES ASSUME NEW k \in 1..Len(files'), files'[k].slot = Mark
                 PROVE  /\ files'[k].copy \in DOMAIN doc'
                        /\ \A p \in doc'[files'[k].copy] :
                             LET it == [copy |-> files'[k].copy, slot |-> p]
                             IN  it \in Range(files') \/ Gone(it, sent')
    BY DEF MarkLast
  <2>2. k + 1 \in 1..Len(files) /\ files'[k] = files[k + 1]
    BY <1>3, <2>1
  <2> DEFINE c == files'[k].copy
  <2>3. /\ c \in DOMAIN doc
        /\ \A p \in doc[c] : \/ [copy |-> c, slot |-> p] \in Range(files)
                             \/ Gone([copy |-> c, slot |-> p], sent)
    BY <2>1, <2>2 DEF BeforeLook, OneBody, MarkLast
  <2>4. doc' = doc /\ sent' = sent
    BY DEF AfterLook
  <2> HIDE DEF c
  <2>5. ASSUME NEW p \in doc[c], [copy |-> c, slot |-> p] \in Range(files)
        PROVE  [copy |-> c, slot |-> p] \in Range(files')
    <3>1. p \in Pages
      <4>1. doc \in Docs
        BY <2>3 DEF BeforeLook, TypeOK
      <4> QED  BY <2>3, <4>1 DEF PrintQueueAssumption
    <3> DEFINE it == [copy |-> c, slot |-> p]
    <3>2. IsPage(it) /\ it \in Range(files)
      BY <2>5, <3>1 DEF IsPage
    <3> HIDE DEF it
    <3>3. PICK i \in 1..Len(files) : files[i] = it
      BY <3>2, InRange DEF BeforeLook, TypeOK
    <3>4. PICK n \in 1..Len(files') : files'[n] = it
      BY <1>8, <3>2, <3>3 DEF PagesStay
    <3>5. it \in Range(files')
      BY <3>4, InRange DEF AfterLook, TypeOK
    <3> QED  BY <3>5 DEF it
  <2>6. \A p \in doc'[c] : \/ [copy |-> c, slot |-> p] \in Range(files')
                           \/ Gone([copy |-> c, slot |-> p], sent')
    BY <2>3, <2>4, <2>5
  <2> QED  BY <2>3, <2>4, <2>6 DEF c
<1>10. SentAsPrepared' /\ SidesConfirmed'
  BY DEF BeforeLook, AfterLook, OneBody, SentAsPrepared, SidesConfirmed
<1>11. Judged'
  BY <1>4, <1>5 DEF Judged
<1> QED  BY <1>6, <1>7, <1>8, <1>9, <1>10, <1>11 DEF OneBody

\* The verdict on a copy is asked for when all its pages are sent.
LEMMA LookMark ==
  ASSUME PrintQueueAssumption, BeforeLook, AfterLook, files # <<>>, SendMarker,
         Head(files).slot = Mark
  PROVE  OneBody' /\ PagesStay
<1> DEFINE h == files[1]
<1>1. /\ Len(files) \in Nat /\ Len(files) # 0 /\ h \in Item /\ Head(files) = h
  BY LookHead
<1>2. /\ files' = Dequeue(Tail(files)) /\ toClient' = Append(toClient, h)
      /\ UNCHANGED <<toDaemon, checked>> /\ h.slot = Mark
  BY <1>1 DEF SendMarker
<1>3. Shown' = {h}
  <2>1. Range(Append(toClient, h)) = Range(toClient) \cup {h}
    BY <1>1, RangeAppend DEF BeforeLook, TypeOK
  <2> QED  BY <1>2, <2>1 DEF BeforeLook, AfterLook, Shown
<1>4. ~Driving' /\ ~Asking'
  BY <1>2, <1>3 DEF BeforeLook, AfterLook, Driving, Asking
<1>5. Aligned' /\ HeadAllowed' /\ MarkLast'
  BY <1>4 DEF Aligned, HeadAllowed, MarkLast
<1>6. SentAsPrepared' /\ SidesConfirmed'
  BY DEF BeforeLook, AfterLook, OneBody, SentAsPrepared, SidesConfirmed
<1>7. Judged'
  <2>1. 1 \in 1..Len(files)
    BY <1>1
  <2> DEFINE c == h.copy
  <2>2. /\ c \in DOMAIN doc
        /\ \A p \in doc[c] : \/ [copy |-> c, slot |-> p] \in Range(files)
                             \/ Gone([copy |-> c, slot |-> p], sent)
    BY <1>2, <2>1 DEF BeforeLook, OneBody, MarkLast
  <2>3. ASSUME NEW p \in doc[c], [copy |-> c, slot |-> p] \in Range(files)
        PROVE  FALSE
    <3> DEFINE it == [copy |-> c, slot |-> p]
    <3>1. p \in Pages
      <4>1. doc \in Docs
        BY <2>2 DEF BeforeLook, TypeOK
      <4> QED  BY <2>2, <4>1 DEF PrintQueueAssumption
    <3>2. it.slot < h.slot /\ it.copy = h.copy /\ it.slot \in Int
      BY <1>2, <3>1 DEF Pages, Face, Over, LastPage, Mark
    <3>3. it \in Range(files)
      BY <2>3
    <3>4. c \in Int /\ h.slot \in Int /\ h.copy = c
      BY <1>1 DEF Item, Copies
    <3> HIDE DEF it
    <3>5. PICK i \in 1..Len(files) : files[i] = it
      BY <3>3, InRange DEF BeforeLook, TypeOK
    <3>6. i # 1
      BY <3>2, <3>4, <3>5
    <3>7. Before(h, it)
      <4>1. 1 < i
        BY <3>6
      <4> QED  BY <2>1, <3>5, <4>1 DEF BeforeLook, Sorted
    <3> HIDE DEF h, c
    <3> QED  BY <3>2, <3>4, <3>7 DEF Before
  <2>4. doc' = doc /\ sent' = sent
    BY DEF AfterLook
  <2> HIDE DEF h
  <2>5. \A p \in doc[c] : Gone([copy |-> c, slot |-> p], sent)
    BY <2>2, <2>3
  <2> QED  BY <1>3, <2>4, <2>5 DEF Judged
<1>8. PagesStay
  BY <1>1, <1>2, MarkAndNextGone DEF BeforeLook, TypeOK, Neighbours
<1> QED  BY <1>5, <1>6, <1>7, <1>8 DEF OneBody

\* Nothing but the label is ever dropped unsent, and the chain ends there.
LEMMA LookDrop ==
  ASSUME PrintQueueAssumption, BeforeLook, AfterLook, files # <<>>, DropName
  PROVE  OneBody' /\ PagesStay
<1>1. files' = Tail(files) /\ UNCHANGED <<toClient, toDaemon>> /\ ~IsPage(files[1])
  <2>1. CurrentSize = 0
    BY DEF DropName
  <2> QED  BY <2>1, LookHead DEF DropName
<1>2. Shown' = {} /\ ~Driving' /\ ~Asking'
  BY <1>1 DEF BeforeLook, AfterLook, Shown, Driving, Asking
<1>3. Aligned' /\ HeadAllowed' /\ MarkLast' /\ Judged'
  BY <1>2 DEF Aligned, HeadAllowed, MarkLast, Judged
<1>4. SentAsPrepared' /\ SidesConfirmed'
  BY DEF BeforeLook, AfterLook, OneBody, SentAsPrepared, SidesConfirmed
<1>5. PagesStay
  BY <1>1, FirstNameGone DEF BeforeLook, TypeOK
<1> QED  BY <1>3, <1>4, <1>5 DEF OneBody

\* The daemon is asked for the space of the page at the head.
LEMMA LookCheck ==
  ASSUME PrintQueueAssumption, BeforeLook, AfterLook, files # <<>>,
         CheckFreeSpace
  PROVE  OneBody' /\ PagesStay
<1>1. /\ Len(files) \in Nat /\ Len(files) # 0 /\ Len(sizes) = Len(files)
      /\ Len(copies) = Len(files)
      /\ Head(sizes) = sizes[1] /\ IsPage(files[1])
  BY LookHead DEF CheckFreeSpace
<1>2. UNCHANGED <<files, copies, toClient>> /\ sizes' = Tail(sizes) /\ checked' = sizes[1]
  BY <1>1 DEF CheckFreeSpace
<1>3. Shown = {} /\ Shown' = {}
  BY <1>2 DEF BeforeLook, AfterLook, Shown
<1>4. ~Driving'
  <2> DEFINE m == [type |-> "CHECK", size |-> Head(sizes)]
  <2>1. m \in Request /\ m.type = "CHECK"
    <3>1. sizes \in Seq(Nat) /\ Len(sizes) # 0
      BY <1>1 DEF BeforeLook, TypeOK
    <3>2. Head(sizes) = sizes[1] /\ sizes[1] \in Nat
      BY <3>1, Shifted
    <3> QED  BY <3>2 DEF Request
  <2>2. toDaemon' = toDaemon \/ toDaemon' = Append(toDaemon, m)
    BY DEF CheckFreeSpace, NetSend
  <2> HIDE DEF m
  <2>3. Range(Append(toDaemon, m)) = Range(toDaemon) \cup {m}
    BY <2>1, RangeAppend DEF BeforeLook, TypeOK
  <2>4. \A r \in Range(toDaemon') : r.type = "CHECK"
    BY <2>1, <2>2, <2>3 DEF BeforeLook
  <2> QED  BY <1>3, <2>4 DEF AfterLook, Driving
<1>5. /\ \A k \in 1..Len(files) : sizes[k] = SizeOf(files[k])
      /\ CopiesMatch
  <2>1. \A k \in 1..Len(files) : k + 0 = k /\ sizes[k] = SizeOf(files[k + 0])
    BY <1>1 DEF BeforeLook, OneBody, Aligned, SizesAfter
  <2> QED  BY <2>1 DEF BeforeLook, OneBody, Aligned
<1>6. Aligned'
  <2>1. CopiesMatch'
    BY <1>2, <1>5 DEF CopiesMatch
  <2>2. checked' = SizeOf(files'[1])
    <3>1. 1 \in 1..Len(files)
      BY <1>1
    <3> QED  BY <1>2, <1>5, <3>1
  <2>3. /\ Len(sizes') = Len(sizes) - 1
        /\ \A j \in 1..(Len(sizes) - 1) : sizes'[j] = sizes[j + 1]
    BY <1>1, <1>2, Shifted DEF BeforeLook, TypeOK
  <2>4. SizesAfter(1)'
    <3>1. Len(sizes') + 1 = Len(files')
      BY <1>1, <1>2, <2>3
    <3>2. ASSUME NEW j \in 1..Len(sizes')
          PROVE  sizes'[j] = SizeOf(files'[j + 1])
      <4>1. j \in 1..(Len(sizes) - 1) /\ j + 1 \in 1..Len(files)
        BY <1>1, <2>3
      <4> QED  BY <1>2, <1>5, <2>3, <4>1
    <3> QED  BY <3>1, <3>2 DEF SizesAfter
  <2> QED  BY <1>1, <1>2, <1>4, <2>1, <2>2, <2>4 DEF Aligned
<1>7. HeadAllowed'
  BY <1>2, <1>3 DEF BeforeLook, AfterLook, OneBody, HeadAllowed
<1>8. MarkLast'
  BY <1>2 DEF BeforeLook, AfterLook, OneBody, MarkLast
<1>9. SentAsPrepared' /\ SidesConfirmed' /\ Judged'
  BY <1>3 DEF BeforeLook, AfterLook, OneBody, SentAsPrepared, SidesConfirmed, Judged
<1>10. PagesStay
  BY <1>2 DEF PagesStay
<1> QED  BY <1>6, <1>7, <1>8, <1>9, <1>10 DEF OneBody

LEMMA OneLook ==
  ASSUME PrintQueueAssumption, BeforeLook, AfterLook, CheckCurrentFile
  PROVE  OneBody' /\ PagesStay
<1>1. CASE files = <<>>
  <2>1. UNCHANGED <<queues, toClient, toDaemon, checked>>
    BY <1>1 DEF CheckCurrentFile
  <2>2. OneBody'
    <3>1. None(toClient', dialogs', toDaemon', fromDaemon')
      BY <2>1 DEF None, BeforeLook, AfterLook
    <3> QED  BY <2>1, <3>1, OneEnds DEF BeforeLook, AfterLook
  <2>3. PagesStay
    BY <2>1 DEF PagesStay, queues
  <2> QED  BY <2>2, <2>3
<1>2. CASE files # <<>> /\ SendMarker
  BY <1>2, LookMarker, LookMark
<1>3. CASE files # <<>> /\ DropName
  BY <1>3, LookDrop
<1>4. CASE files # <<>> /\ CheckFreeSpace
  BY <1>4, LookCheck
<1> QED  BY <1>1, <1>2, <1>3, <1>4 DEF CheckCurrentFile

\* The daemon has space: the page it was asked about is sent.
LEMMA OneSend ==
  ASSUME PrintQueueAssumption, TypeOK, TypeOK', Neighbours, OneBody, Asking,
         SendFileToDaemon,
         UNCHANGED <<sizes, toClient, dialogs, checked, doc, confirmed>>,
         clicks' = 1, None(toClient, dialogs, toDaemon, toGate'),
         Range(fromDaemon') = {}
  PROVE  OneBody'
<1> DEFINE h == files[1]
<1>1. /\ Len(files) \in Nat /\ Len(files) # 0 /\ files # <<>>
      /\ h \in Item /\ IsPage(h) /\ Head(files) = h
      /\ checked = SizeOf(h) /\ SizesAfter(1)
      /\ Len(copies) = Len(files)
      /\ \A k \in 1..Len(files) : copies[k] = CopiesOf(files[k])
  <2>1. files # <<>> /\ IsPage(h) /\ checked = SizeOf(h) /\ SizesAfter(1) /\ CopiesMatch
    BY DEF OneBody, Aligned
  <2>2. Len(files) \in Nat /\ Len(files) # 0
    BY <2>1, EmptySeq, LenProperties DEF TypeOK
  <2>3. h \in Item /\ Head(files) = h
    BY <2>2, Shifted DEF TypeOK
  <2> QED  BY <2>1, <2>2, <2>3 DEF CopiesMatch
<1>2. HeadOr(copies, 1) = CopiesOf(h) /\ copies' = Tail(copies)
  <2>1. /\ copies # <<>> /\ Head(copies) = copies[1] /\ Dequeue(copies) = Tail(copies)
    BY <1>1, Shifted DEF TypeOK
  <2>2. 1 \in 1..Len(files)
    BY <1>1
  <2> QED  BY <1>1, <2>1, <2>2 DEF SendFileToDaemon, HeadOr
<1> DEFINE r == [item |-> h, size |-> checked, copies |-> CopiesOf(h)]
           m == [type |-> "FILE", item |-> h, copies |-> CopiesOf(h)]
<1>3. files' = Tail(files) /\ sent' = Append(sent, r) /\ NetSend(m)
  BY <1>1, <1>2 DEF SendFileToDaemon
<1>4. CopiesOf(h) \in Nat
  BY DEF CopiesOf, PrintQueueAssumption
<1>5. /\ Len(files') = Len(files) - 1
      /\ \A j \in 1..(Len(files) - 1) :
           /\ j + 1 \in 1..Len(files)
           /\ files'[j] = files[j + 1] /\ copies'[j] = copies[j + 1]
      /\ Len(copies') = Len(files) - 1
  <2>1. /\ Len(files') = Len(files) - 1
        /\ \A j \in 1..(Len(files) - 1) : files'[j] = files[j + 1]
    BY <1>1, <1>3, Shifted DEF TypeOK
  <2>2. /\ Len(copies') = Len(files) - 1
        /\ \A j \in 1..(Len(files) - 1) : copies'[j] = copies[j + 1]
    BY <1>1, <1>2, Shifted DEF TypeOK
  <2>3. \A j \in 1..(Len(files) - 1) : j + 1 \in 1..Len(files)
    BY <1>1
  <2> QED  BY <2>1, <2>2, <2>3
<1>6. /\ Len(sent) \in Nat /\ Len(sent') = Len(sent) + 1
      /\ \A i \in 1..Len(sent) : sent'[i] = sent[i]
      /\ sent'[Len(sent) + 1] = r
      /\ DOMAIN sent = 1..Len(sent) /\ DOMAIN sent' = 1..Len(sent')
  <2>1. r \in [item : Item, size : Nat, copies : Nat]
    BY <1>1, <1>4 DEF TypeOK
  <2> HIDE DEF r
  <2> QED  BY <1>3, <2>1, AppendProperties, LenProperties DEF TypeOK
<1>7. \A i \in 1..Len(sent') : \/ i \in 1..Len(sent) /\ sent'[i] = sent[i]
                               \/ sent'[i] = r
  <2> HIDE DEF r
  <2> QED  BY <1>6
<1>8. Shown = {} /\ Shown' = {}
  BY DEF None, Shown
<1>9. ~Asking'
  <2>1. m \in Request /\ m.type = "FILE"
    BY <1>1, <1>4 DEF Request
  <2>2. toDaemon' = toDaemon \/ toDaemon' = Append(toDaemon, m)
    BY <1>3 DEF NetSend
  <2> HIDE DEF m
  <2>3. Range(Append(toDaemon, m)) = Range(toDaemon) \cup {m}
    BY <2>1, RangeAppend DEF TypeOK
  <2>4. \A q \in Range(toDaemon') : q.type = "FILE"
    BY <2>1, <2>2, <2>3 DEF None
  <2> QED  BY <2>4 DEF Asking
<1>10. Aligned'
  <2>1. CopiesMatch'
    BY <1>1, <1>5 DEF CopiesMatch
  <2>2. SizesAfter(0)'
    <3>1. /\ Len(sizes) + 1 = Len(files) /\ Len(sizes) \in Nat
          /\ \A k \in 1..Len(sizes) : sizes[k] = SizeOf(files[k + 1])
      BY <1>1, LenProperties DEF SizesAfter, TypeOK
    <3>2. Len(sizes) = Len(files) - 1
      BY <1>1, <3>1
    <3>3. ASSUME NEW k \in 1..Len(sizes)
          PROVE  k + 0 = k /\ sizes[k] = SizeOf(files'[k])
      <4>1. k \in 1..(Len(files) - 1) /\ k + 0 = k
        BY <3>1, <3>2
      <4>2. files'[k] = files[k + 1]
        BY <1>5, <4>1
      <4> QED  BY <3>1, <4>1, <4>2
    <3>4. Len(sizes) + 0 = Len(files')
      BY <1>5, <3>1, <3>2
    <3> QED  BY <3>3, <3>4 DEF SizesAfter
  <2> QED  BY <1>9, <2>1, <2>2 DEF Aligned
<1>11. HeadAllowed'
  <2>1. SUFFICES ASSUME files' # <<>>, Turned(files'[1])
                 PROVE  FALSE
    BY DEF HeadAllowed
  <2>2. 1 \in 1..(Len(files) - 1)
    <3>1. Len(files') \in Nat /\ Len(files') # 0
      BY <2>1, EmptySeq, LenProperties DEF TypeOK
    <3> QED  BY <1>1, <1>5, <3>1
  <2>3. files'[1] = files[2] /\ 2 \in 2..Len(files) /\ 2 - 1 = 1
    <3>1. files'[1] = files[1 + 1] /\ 1 + 1 \in 1..Len(files)
      BY <1>5, <2>2
    <3> QED  BY <1>1, <3>1
  <2>4. h = TurnOf(files[2]) /\ Turned(files[2])
    BY <2>1, <2>3 DEF Neighbours, TurnFirst
  <2>5. files[2] \in Item
    BY <1>1, <2>3, ElementOfSeq DEF TypeOK
  <2>6. h.slot = Flip \/ h.slot = CheckLast
    BY <2>4, <2>5 DEF Turned, TurnOf, Item, Over, LastPage, Flip, CheckLast
  <2> QED  BY <1>1, <2>6 DEF IsPage, Pages, Face, Over, LastPage, Flip, CheckLast
<1>12. MarkLast'
  <2>1. ASSUME NEW it, it \in Range(files) \/ Gone(it, sent)
        PROVE  it \in Range(files') \/ Gone(it, sent')
    <3>1. CASE Gone(it, sent)
      <4>1. PICK i \in 1..Len(sent) : sent[i].item = it
        BY <3>1 DEF Gone
      <4>2. i \in 1..Len(sent') /\ sent'[i].item = it
        BY <1>6, <4>1
      <4> QED  BY <4>2 DEF Gone
    <3>2. CASE it \in Range(files)
      <4>1. PICK i \in 1..Len(files) : files[i] = it
        BY <3>2, InRange DEF TypeOK
      <4>2. CASE i = 1
        <5>1. Len(sent) + 1 \in 1..Len(sent') /\ sent'[Len(sent) + 1].item = it
          BY <1>6, <4>1, <4>2
        <5> QED  BY <5>1 DEF Gone
      <4>3. CASE i # 1
        <5>1. i - 1 \in 1..(Len(files) - 1) /\ (i - 1) + 1 = i
          BY <1>1, <4>1, <4>3
        <5>2. files'[i - 1] = files[(i - 1) + 1] /\ i - 1 \in 1..Len(files')
          BY <1>5, <5>1
        <5>3. files'[i - 1] = it
          BY <4>1, <5>1, <5>2
        <5>4. it \in Range(files')
          BY <5>2, <5>3, InRange DEF TypeOK
        <5> QED  BY <5>4
      <4> QED  BY <4>2, <4>3
    <3> QED  BY <2>1, <3>1, <3>2
  <2>2. \A k \in 1..Len(files') : k + 1 \in 1..Len(files) /\ files'[k] = files[k + 1]
    BY <1>5
  <2>3. \A k \in 1..Len(files) : files[k].slot = Mark =>
          /\ files[k].copy \in DOMAIN doc
          /\ \A p \in doc[files[k].copy] :
               \/ [copy |-> files[k].copy, slot |-> p] \in Range(files)
               \/ Gone([copy |-> files[k].copy, slot |-> p], sent)
    BY DEF OneBody, MarkLast
  <2>4. \A k \in 1..Len(files) : files[k].slot = Mark =>
          /\ files[k].copy \in DOMAIN doc
          /\ \A p \in doc[files[k].copy] :
               \/ [copy |-> files[k].copy, slot |-> p] \in Range(files')
               \/ Gone([copy |-> files[k].copy, slot |-> p], sent')
    BY <2>1, <2>3
  <2> QED  BY <2>2, <2>4 DEF MarkLast
<1>13. SentAsPrepared'
  BY <1>1, <1>6, <1>7 DEF OneBody, SentAsPrepared
<1>14. SidesConfirmed'
  <2>1. h.slot \in {Over, LastPage} => [h EXCEPT !.slot = @ - 1] \in confirmed
    BY <1>1, <1>8 DEF OneBody, HeadAllowed, Turned, TurnOf
  <2>2. r.item = h
    OBVIOUS
  <2> HIDE DEF h, r
  <2>3. ASSUME NEW i \in DOMAIN sent', sent'[i].item.slot \in {Over, LastPage}
        PROVE  [sent'[i].item EXCEPT !.slot = @ - 1] \in confirmed
    <3>1. CASE i \in 1..Len(sent) /\ sent'[i] = sent[i]
      BY <1>6, <2>3, <3>1 DEF OneBody, SidesConfirmed
    <3>2. CASE sent'[i] = r
      <4>1. sent'[i].item = h
        BY <2>2, <3>2
      <4> QED  BY <2>1, <2>3, <4>1
    <3> QED  BY <1>6, <1>7, <3>1, <3>2
  <2> QED  BY <2>3 DEF SidesConfirmed
<1>15. Judged'
  BY <1>8 DEF Judged
<1> QED  BY <1>10, <1>11, <1>12, <1>13, <1>14, <1>15 DEF OneBody

\* A document is prepared for the first time: the queues start afresh.
LEMMA OneDocReady ==
  ASSUME PrintQueueAssumption, CountInv, TypeOK', Untouched, preps = 0, OneBody,
         NEW d \in Docs, DocReady4print(d)
  PROVE  OneBody'
<1> DEFINE q == DocOrder(d)
           c == [k \in DOMAIN q |-> CopiesOf(q[k])]
           z == [k \in DOMAIN q |-> SizeOf(q[k])]
<1>1. /\ files = <<>> /\ copies = <<>> /\ sizes = <<>> /\ Shown = {} /\ ~Asking
  BY DEF Untouched, OneBody, Aligned
<1>2. /\ files' = q /\ copies' = copies \o c /\ sizes' = sizes \o z
      /\ doc' = d /\ sent' = <<>> /\ UNCHANGED channels
  BY DEF DocReady4print, EnqueueAll
<1>3. Shown' = {} /\ ~Asking'
  BY <1>1, <1>2 DEF channels, Shown, Asking
<1>4. /\ q \in Seq(Item)
      /\ \A j \in 1..Len(q) : Turned(q[j]) => j > 1 /\ q[j - 1] = TurnOf(q[j])
      /\ \A j \in 1..Len(q) : q[j].slot = Mark =>
           /\ q[j].copy \in DOMAIN d
           /\ \A p \in d[q[j].copy] : [copy |-> q[j].copy, slot |-> p] \in Range(q)
  BY DocFacts
<1>5. DOMAIN q = 1..Len(q)
  BY <1>4, LenProperties
<1> HIDE DEF q
<1>6. /\ c \in Seq(Nat) /\ Len(c) = Len(q) /\ z \in Seq(Nat) /\ Len(z) = Len(q)
  BY <1>4, EnqueuedType
<1>7. \A k \in 1..Len(q) : c[k] = CopiesOf(q[k]) /\ z[k] = SizeOf(q[k])
  BY <1>5
<1> HIDE DEF c, z
<1>8. copies' = c /\ sizes' = z
  BY <1>1, <1>2, <1>6, ConcatEmptySeq
<1>9. Aligned'
  <2>1. CopiesMatch'
    BY <1>2, <1>6, <1>7, <1>8 DEF CopiesMatch
  <2>2. SizesAfter(0)'
    <3>1. Len(q) \in Nat
      BY <1>4, LenProperties
    <3>2. Len(sizes') + 0 = Len(files')
      BY <1>2, <1>6, <1>8, <3>1
    <3>3. \A k \in 1..Len(q) : k + 0 = k
      OBVIOUS
    <3> QED  BY <1>2, <1>6, <1>7, <1>8, <3>2, <3>3 DEF SizesAfter
  <2> QED  BY <1>3, <2>1, <2>2 DEF Aligned
<1>10. HeadAllowed'
  <2>1. SUFFICES ASSUME q # <<>>, Turned(q[1]) PROVE FALSE
    BY <1>2 DEF HeadAllowed
  <2>2. 1 \in 1..Len(q)
    BY <1>4, <2>1, EmptySeq
  <2> QED  BY <1>4, <2>1, <2>2
<1>11. MarkLast'
  BY <1>2, <1>4 DEF MarkLast
<1>12. SentAsPrepared' /\ SidesConfirmed'
  <2>1. DOMAIN sent' = {}
    BY <1>2
  <2> QED  BY <2>1 DEF SentAsPrepared, SidesConfirmed
<1>13. Judged'
  BY <1>3 DEF Judged
<1> QED  BY <1>9, <1>10, <1>11, <1>12, <1>13 DEF OneBody

-----------------------------------------------------------------------------
(* The handlers that look at the queue or send from it.                    *)

LEMMA OneReceivesPrint ==
  ASSUME PrintQueueAssumption, CountInv, TypeOK', Sorted, Neighbours, OneBody,
         clicks' <= 1, GateReceivesPrint
  PROVE  OneBody' /\ PagesStay
<1>1. /\ toGate # <<>> /\ Head(toGate) = "PRINT" /\ clicks <= 1
      /\ toGate' = Tail(toGate) /\ CheckCurrentFile
      /\ UNCHANGED <<dialogs, fromDaemon, clicks, doc, sent, confirmed>>
  BY DEF GateReceivesPrint
<1>2. /\ clicks = 1 /\ Size(toGate) <= 1
      /\ None(toClient, dialogs, toDaemon, fromDaemon)
  BY <1>1, OneMessage
<1>3. Range(toGate) = {"PRINT"} /\ Range(toGate') = {}
  BY <1>1, <1>2, LoneMessage DEF CountInv, TypeOK
<1>4. BeforeLook
  BY <1>2, <1>3 DEF BeforeLook, CountInv, None, Driving
<1>5. AfterLook
  BY <1>1, <1>2, <1>3 DEF AfterLook, None
<1> QED  BY <1>1, <1>4, <1>5, OneLook

LEMMA OneReceivesAnswer ==
  ASSUME PrintQueueAssumption, CountInv, TypeOK', Sorted, Neighbours, OneBody,
         clicks' <= 1, GateReceivesAnswer
  PROVE  /\ OneBody'
         /\ SendFileToDaemon \/ PagesStay
<1>1. /\ fromDaemon # <<>> /\ fromDaemon' = Tail(fromDaemon) /\ clicks <= 1
      /\ UNCHANGED <<dialogs, toGate, clicks, doc, confirmed, saved, silent>>
  BY DEF GateReceivesAnswer
<1>2. /\ clicks = 1 /\ Size(fromDaemon) <= 1
      /\ None(toGate, toClient, dialogs, toDaemon)
  BY <1>1, OneMessage
<1>3. Range(fromDaemon) = {Head(fromDaemon)} /\ Range(fromDaemon') = {}
  BY <1>1, <1>2, LoneMessage DEF CountInv, TypeOK
<1>4. CASE /\ Head(fromDaemon) = "CheckOk" /\ SendFileToDaemon
           /\ UNCHANGED <<sizes, toClient, checked>>
  <2>1. Asking
    BY <1>3, <1>4 DEF Asking
  <2>2. None(toClient, dialogs, toDaemon, toGate')
    BY <1>1, <1>2 DEF None
  <2> QED  BY <1>1, <1>2, <1>3, <1>4, <2>1, <2>2, OneSend DEF CountInv
<1>5. CASE Head(fromDaemon) = "PrintOk" /\ CheckCurrentFile /\ UNCHANGED sent
  <2>1. BeforeLook
    BY <1>2, <1>3, <1>5 DEF BeforeLook, CountInv, None, Driving
  <2>2. AfterLook
    BY <1>1, <1>2, <1>3, <1>5 DEF AfterLook, None
  <2> QED  BY <1>5, <2>1, <2>2, OneLook
<1>6. CASE UNCHANGED <<queues, toClient, toDaemon, checked, sent>>
  <2>1. OneBody'
    BY <1>1, <1>6, OneRefused DEF history
  <2>2. PagesStay
    BY <1>6 DEF PagesStay, queues
  <2> QED  BY <2>1, <2>2
<1> QED  BY <1>4, <1>5, <1>6 DEF GateReceivesAnswer

\* A file that goes out goes out: sending takes one name off the queue.
LEMMA SendKeepsPages ==
  ASSUME TypeOK, TypeOK', SendFileToDaemon, NEW k \in 1..Len(files)
  PROVE  \/ \E n \in 1..Len(files') : files'[n] = files[k]
         \/ \E i \in 1..Len(sent') : sent'[i].item = files[k]
<1>1. /\ files # <<>> /\ Len(files) \in Nat /\ Len(sent) \in Nat
  <2>1. Len(files) \in Nat /\ Len(sent) \in Nat
    BY LenProperties DEF TypeOK
  <2>2. Len(files) # 0
    BY <2>1
  <2> QED  BY <2>1, <2>2, Shifted DEF TypeOK
<1>2. Drop(1) /\ Head(files) = files[1] /\ files[1] \in Item
  BY <1>1, DropDequeue, HeadTailProperties DEF TypeOK, SendFileToDaemon
<1> DEFINE r == [item |-> files[1], size |-> checked, copies |-> HeadOr(copies, 1)]
<1>3. /\ sent' = Append(sent, r)
      /\ r \in [item : Item, size : Nat, copies : Nat] /\ r.item = files[1]
  <2>1. HeadOr(copies, 1) \in Nat
    BY HeadOrType DEF TypeOK
  <2> QED  BY <1>1, <1>2, <2>1 DEF SendFileToDaemon, TypeOK
<1> HIDE DEF r
<1>4. Len(sent') = Len(sent) + 1 /\ sent'[Len(sent) + 1] = r
  BY <1>1, <1>3, AppendProperties DEF TypeOK
<1>5. CASE k = 1
  <2>1. Len(sent) + 1 \in 1..Len(sent') /\ sent'[Len(sent) + 1].item = files[k]
    BY <1>1, <1>3, <1>4, <1>5
  <2> QED  BY <2>1
<1>6. CASE k # 1
  <2>1. k - 1 \in 1..Len(files') /\ (k - 1) + 1 = k
    BY <1>1, <1>2, <1>6 DEF Drop
  <2>2. files'[k - 1] = files[(k - 1) + 1]
    BY <1>2, <2>1 DEF Drop
  <2> QED  BY <2>1, <2>2
<1> QED  BY <1>5, <1>6

-----------------------------------------------------------------------------
(* The invariant of one press holds, and what follows from it.             *)

LEMMA UntouchedNext ==
  ASSUME PrintQueueAssumption, TypeOK, TypeOK', Untouched, [Next]_vars
  PROVE  Untouched'
<1>1. SUFFICES ASSUME preps' = 0
               PROVE  /\ files' = <<>> /\ copies' = <<>> /\ sizes' = <<>>
                      /\ Shown' = {}
  BY DEF Untouched
<1>2. CASE UNCHANGED <<preps, queues>> /\ Shown' \subseteq Shown
  BY <1>1, <1>2 DEF Untouched, queues
<1>3. ASSUME NEW d \in Docs, DocReady4print(d) PROVE FALSE
  BY <1>1, <1>3 DEF DocReady4print, TypeOK
<1>4. \A q \in Seq(Item) : q # <<>> => Range(q) # {}
  <2>1. ASSUME NEW q \in Seq(Item), q # <<>> PROVE Range(q) # {}
    <3>1. 1 \in 1..Len(q)
      BY <2>1, EmptySeq
    <3> QED  BY <3>1, InRange
  <2> QED  BY <2>1
<1>5. preps = 0 => files = <<>> /\ copies = <<>> /\ toClient = <<>> /\ dialogs = <<>>
  <2>1. preps = 0 => Range(toClient) = {} /\ Range(dialogs) = {}
    BY DEF Untouched, Shown
  <2> QED  BY <1>4, <2>1 DEF Untouched, TypeOK
<1>6. CASE CheckCurrentFile /\ UNCHANGED <<preps, dialogs>>
  BY <1>1, <1>2, <1>5, <1>6 DEF CheckCurrentFile, Shown
<1>7. CASE SendFileToDaemon /\ UNCHANGED <<preps, sizes, toClient, dialogs>>
  BY <1>1, <1>2, <1>5, <1>7 DEF SendFileToDaemon, queues, Shown
<1>8. CASE System
  <2>1. CASE GateReceivesPrint
    BY <1>6, <2>1 DEF GateReceivesPrint
  <2>2. CASE GateReceivesVerdict
    BY <1>2, <2>2 DEF GateReceivesVerdict, Shown
  <2>3. CASE GateReceivesAnswer
    BY <1>2, <1>6, <1>7, <2>3 DEF GateReceivesAnswer, Shown
  <2>4. CASE ClientReceivesMarker
    BY <1>1, <1>5, <2>4 DEF ClientReceivesMarker
  <2>5. CASE DaemonHandles
    BY <1>2, <2>5 DEF DaemonHandles, Shown
  <2> QED  BY <1>8, <2>1, <2>2, <2>3, <2>4, <2>5 DEF System
<1>9. CASE User
  <2>1. CASE UserPrints
    BY <1>2, <2>1 DEF UserPrints, Shown
  <2>2. CASE UserConfirms
    BY <1>1, <1>5, <2>2 DEF UserConfirms
  <2>3. ASSUME NEW v \in {"BRAK", "CLEAR"}, UserJudges(v) PROVE FALSE
    BY <1>1, <1>5, <2>3 DEF UserJudges
  <2> QED  BY <1>9, <2>1, <2>2, <2>3 DEF User
<1>10. CASE NetLost
  BY <1>2, <1>10 DEF NetLost, Shown
<1>11. CASE ClientGone
  <2>1. Shown' = {}
    BY <1>11, RangeNone DEF ClientGone, Shown
  <2> QED  BY <1>2, <1>11, <2>1 DEF ClientGone
<1>12. CASE UNCHANGED vars
  BY <1>2, <1>12 DEF vars, channels, Shown
<1> QED  BY <1>3, <1>8, <1>9, <1>10, <1>11, <1>12 DEF Next

\* The numbers of preparations and of presses only ever grow.
LEMMA PressesGrow ==
  ASSUME TypeOK, [Next]_vars
  PROVE  preps <= preps' /\ clicks <= clicks'
<1>1. preps \in Nat /\ clicks \in Nat
  BY DEF TypeOK
<1> QED  BY <1>1 DEF Next, System, User, DocReady4print, GateReceivesPrint,
           GateReceivesVerdict, GateReceivesAnswer, ClientReceivesMarker,
           DaemonHandles, UserPrints, UserConfirms, UserJudges, NetLost,
           ClientGone, vars

LEMMA PressNext ==
  ASSUME PrintQueueAssumption, CountInv, CountInv', OrderInv, PressInv,
         [Next]_vars
  PROVE  PressInv'
<1>1. /\ TypeOK /\ TypeOK' /\ Sorted /\ Neighbours /\ Untouched
  BY DEF CountInv, OrderInv, PressInv
<1>2. Neighbours' /\ Untouched'
  BY <1>1, NeighboursNext, UntouchedNext
<1>3. ASSUME OnePress' PROVE OneBody'
  <2>1. preps <= 1 /\ clicks <= 1 /\ clicks' <= 1 /\ OneBody
    <3>1. preps <= preps' /\ clicks <= clicks' /\ preps' <= 1 /\ clicks' <= 1
      BY <1>1, <1>3, PressesGrow DEF OnePress
    <3>2. preps \in Nat /\ preps' \in Nat /\ clicks \in Nat /\ clicks' \in Nat
      BY <1>1 DEF TypeOK
    <3>3. preps <= 1 /\ clicks <= 1
      BY <3>1, <3>2
    <3> QED  BY <3>1, <3>3 DEF PressInv, OnePress
  <2>2. ASSUME NEW d \in Docs, DocReady4print(d) PROVE OneBody'
    <3>1. preps = 0
      BY <1>1, <1>3, <2>2 DEF DocReady4print, TypeOK, OnePress
    <3> QED  BY <1>1, <2>1, <2>2, <3>1, OneDocReady
  <2>3. CASE System
    BY <1>1, <2>1, <2>3, OneReceivesPrint, OneVerdict, OneReceivesAnswer,
       OneClientReceives, OneDaemonHandles DEF System
  <2>4. CASE User
    BY <2>1, <2>4, OneUserPrints, OneUserConfirms, OneUserJudges DEF User
  <2>5. CASE NetLost
    BY <2>1, <2>5, OneNetLost
  <2>6. CASE ClientGone
    BY <2>1, <2>6, OneClientGone
  <2>7. CASE UNCHANGED vars
    <3>1. Shown' = Shown /\ Driving' = Driving /\ Asking' = Asking
      BY <2>7 DEF vars, channels, Shown, Driving, Asking
    <3> QED  BY <1>1, <2>1, <2>7, <3>1, OneKept DEF vars, queues, history
  <2> QED  BY <2>2, <2>3, <2>4, <2>5, <2>6, <2>7 DEF Next
<1> QED  BY <1>2, <1>3 DEF PressInv

LEMMA PressInit == Init => PressInv
<1> SUFFICES ASSUME Init PROVE PressInv
  OBVIOUS
<1>1. /\ files = <<>> /\ copies = <<>> /\ sizes = <<>> /\ sent = <<>>
      /\ Len(files) = 0 /\ Len(copies) = 0 /\ Len(sizes) = 0
      /\ DOMAIN sent = {}
  BY DEF Init
<1>2. Shown = {} /\ ~Asking
  BY RangeNone DEF Init, Shown, Asking
<1>3. Neighbours
  BY <1>1 DEF Neighbours, TurnFirst, NoPageAfterMark
<1>4. Untouched
  BY <1>1, <1>2 DEF Untouched
<1>5. OneBody
  BY <1>1, <1>2 DEF OneBody, Aligned, CopiesMatch, SizesAfter, HeadAllowed,
                    MarkLast, SentAsPrepared, SidesConfirmed, Judged
<1> QED  BY <1>3, <1>4, <1>5 DEF PressInv

\* The invariant of one press.
THEOREM PressHolds == Spec => []PressInv
<1>1. Init => PressInv
  BY PressInit
<1>2. CountInv /\ CountInv' /\ OrderInv /\ PressInv /\ [Next]_vars => PressInv'
  BY PressNext, PrintQueueAssumption
<1> QED  BY <1>1, <1>2, CountsHold, OrderHolds, PTL DEF Spec

\* With one document and one press of "Print", whatever the faults and the
\* template: every file goes to the daemon as a page, after the daemon was
\* asked for its size, and with the number of copies meant for it.
THEOREM SentRight == Spec => [](OnePress => SentAsPrepared)
<1>1. PressInv => (OnePress => SentAsPrepared)
  BY DEF PressInv, OneBody
<1> QED  BY <1>1, PressHolds, PTL

\* With one document and one press, no reverse side and no last page goes
\* out before the user has answered the question put for that copy.
THEOREM TurnedOnlyConfirmed == Spec => [](OnePress => SidesConfirmed)
<1>1. PressInv => (OnePress => SidesConfirmed)
  BY DEF PressInv, OneBody
<1> QED  BY <1>1, PressHolds, PTL

\* With one document and one press, the verdict on a copy is asked for only
\* when every page prepared for it has gone out.
THEOREM JudgedComplete == Spec => [](OnePress => VerdictAfterLastPage)
<1>1. PressInv /\ TypeOK => (OnePress => VerdictAfterLastPage)
  <2>1. SUFFICES ASSUME Judged, TypeOK PROVE VerdictAfterLastPage
    BY DEF PressInv, OneBody
  <2> DEFINE asked == toClient \o dialogs
  <2>2. asked \in Seq(Item) /\ Range(asked) = Shown
    BY <2>1, JoinRange DEF TypeOK, Shown
  <2>3. DOMAIN sent = 1..Len(sent)
    BY <2>1, LenProperties DEF TypeOK
  <2> HIDE DEF asked
  <2>4. \A k \in DOMAIN asked : asked[k] \in Shown
    BY <2>2 DEF Range
  <2>5. \A k \in DOMAIN asked : asked[k].slot = Mark =>
          \A p \in doc[asked[k].copy] :
            \E i \in DOMAIN sent :
              sent[i].item = [copy |-> asked[k].copy, slot |-> p]
    BY <2>1, <2>3, <2>4 DEF Judged, Gone
  <2> QED  BY <2>5 DEF VerdictAfterLastPage, asked
<1> QED  BY <1>1, PressHolds, TypeCorrect, PTL

\* The bounds hold what they say.
LEMMA BoundsHold == Spec => [](preps <= MaxPreps /\ clicks <= MaxClicks)
<1> DEFINE B == preps <= MaxPreps /\ clicks <= MaxClicks
<1>1. Init => B
  BY PrintQueueAssumption DEF Init, PrintQueueAssumption
<1>2. TypeOK /\ B /\ [Next]_vars => B'
  <2>1. SUFFICES ASSUME TypeOK, B, [Next]_vars PROVE B'
    OBVIOUS
  <2>2. preps \in Nat /\ clicks \in Nat /\ MaxPreps \in Nat /\ MaxClicks \in Nat
    BY <2>1, PrintQueueAssumption DEF TypeOK, PrintQueueAssumption
  <2> QED  BY <2>1, <2>2 DEF Next, System, User, DocReady4print,
             GateReceivesPrint, GateReceivesVerdict, GateReceivesAnswer,
             ClientReceivesMarker, DaemonHandles, UserPrints, UserConfirms,
             UserJudges, NetLost, ClientGone, vars
<1> QED  BY <1>1, <1>2, TypeCorrect, PTL DEF Spec

\* Where a document is prepared once and "Print" is pressed once, no page is
\* ever taken off the queue for a marker: it leaves only by being sent.
THEOREM PagesLeaveSent ==
  ASSUME MaxPreps <= 1, MaxClicks <= 1
  PROVE  Spec => PagesOnlyLeaveSent
<1> DEFINE Kept ==
      preps' = preps =>
        \A k \in DOMAIN files : IsPage(files[k]) =>
          \/ \E n \in DOMAIN files' : files'[n] = files[k]
          \/ \E i \in DOMAIN sent' : sent'[i].item = files[k]
      Bound == preps <= MaxPreps /\ clicks <= MaxClicks
<1>1. /\ CountInv /\ CountInv' /\ OrderInv /\ PressInv /\ Bound /\ Bound'
      /\ [Next]_vars
      => [Kept]_vars
  <2>1. SUFFICES ASSUME CountInv, CountInv', OrderInv, PressInv, Bound, Bound',
                        Next, preps' = preps,
                        NEW k \in DOMAIN files, IsPage(files[k])
                 PROVE  \/ \E n \in DOMAIN files' : files'[n] = files[k]
                        \/ \E i \in DOMAIN sent' : sent'[i].item = files[k]
    OBVIOUS
  <2>2. /\ TypeOK /\ TypeOK' /\ Sorted /\ Neighbours
        /\ clicks' <= 1 /\ preps <= 1 /\ clicks <= 1
    <3>1. /\ preps \in Nat /\ clicks \in Nat /\ clicks' \in Nat
          /\ MaxPreps \in Nat /\ MaxClicks \in Nat
      BY <2>1, PrintQueueAssumption DEF CountInv, TypeOK, PrintQueueAssumption
    <3>2. clicks' <= 1 /\ preps <= 1 /\ clicks <= 1
      BY <2>1, <3>1
    <3> QED  BY <2>1, <3>2 DEF CountInv, OrderInv, PressInv
  <2>3. OneBody
    BY <2>1, <2>2 DEF PressInv, OnePress
  <2>4. /\ DOMAIN files = 1..Len(files) /\ DOMAIN files' = 1..Len(files')
        /\ DOMAIN sent' = 1..Len(sent')
    BY <2>2, LenProperties DEF TypeOK
  <2>5. CASE PagesStay
    BY <2>1, <2>4, <2>5 DEF PagesStay
  <2>6. CASE SendFileToDaemon
    BY <2>2, <2>4, <2>6, SendKeepsPages
  <2>7. CASE UNCHANGED files
    BY <2>7
  <2>8. CASE System
    <3>1. CASE GateReceivesPrint
      BY <2>1, <2>2, <2>3, <2>5, <3>1, OneReceivesPrint, PrintQueueAssumption
    <3>2. CASE GateReceivesAnswer
      BY <2>1, <2>2, <2>3, <2>5, <2>6, <3>2, OneReceivesAnswer,
         PrintQueueAssumption
    <3>3. CASE GateReceivesVerdict \/ ClientReceivesMarker \/ DaemonHandles
      BY <2>7, <3>3 DEF GateReceivesVerdict, ClientReceivesMarker,
                        DaemonHandles, queues
    <3> QED  BY <2>8, <3>1, <3>2, <3>3 DEF System
  <2>9. ASSUME NEW d \in Docs, DocReady4print(d) PROVE FALSE
    BY <2>1, <2>2, <2>9 DEF DocReady4print, TypeOK
  <2>10. CASE User
    BY <2>7, <2>10 DEF User, UserPrints, UserConfirms, UserJudges, queues
  <2>11. CASE NetLost \/ ClientGone
    BY <2>7, <2>11 DEF NetLost, ClientGone, queues
  <2> QED  BY <2>1, <2>8, <2>9, <2>10, <2>11 DEF Next
<1> QED
  BY <1>1, CountsHold, OrderHolds, PressHolds, BoundsHold, PTL
  DEF Spec, PagesOnlyLeaveSent

=============================================================================
