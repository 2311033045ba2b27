--------------------------- MODULE Framing_proofs ---------------------------
(***************************************************************************)
(* Proofs about Framing: on a connection that shares its packetSize with   *)
(* no other one, messages are handled whole, once each and in order, none  *)
(* is left in the socket, and the framing implements Channel, for all      *)
(* lengths, splits of the stream, nested event loops and closures.         *)
(***************************************************************************)
EXTENDS Framing, SequenceTheorems, FiniteSetTheorems, WellFoundedInduction, TLAPS

-----------------------------------------------------------------------------
(* Sequences cut and put together.                                         *)

LEMMA FrontProperties ==
  ASSUME NEW T, NEW s \in Seq(T), NEW n \in 0..Len(s)
  PROVE  /\ Front(s, n) \in Seq(T)
         /\ Len(Front(s, n)) = n
         /\ \A i \in 1..n : Front(s, n)[i] = s[i]
<1>1. Len(s) \in Nat /\ \A i \in 1..n : s[i] \in T
  BY LenProperties, ElementOfSeq
<1>2. /\ SubSeq(s, 1, n) \in Seq(T)
      /\ Len(SubSeq(s, 1, n)) = IF 1 <= n THEN n - 1 + 1 ELSE 0
      /\ \A i \in 1 .. n - 1 + 1 : SubSeq(s, 1, n)[i] = s[1 + i - 1]
  BY <1>1, SubSeqProperties
<1> QED  BY <1>1, <1>2 DEF Front

LEMMA RestProperties ==
  ASSUME NEW T, NEW s \in Seq(T), NEW n \in 0..Len(s)
  PROVE  /\ Rest(s, n) \in Seq(T)
         /\ Len(Rest(s, n)) = Len(s) - n
         /\ \A i \in 1..(Len(s) - n) : Rest(s, n)[i] = s[n + i]
<1>1. Len(s) \in Nat /\ \A i \in n + 1 .. Len(s) : s[i] \in T
  BY LenProperties, ElementOfSeq
<1> DEFINE m == n + 1
           l == Len(s)
           r == SubSeq(s, m, l)
<1>2. /\ r \in Seq(T)
      /\ Len(r) = IF m <= l THEN l - m + 1 ELSE 0
      /\ \A i \in 1 .. l - m + 1 : r[i] = s[m + i - 1]
  BY <1>1, SubSeqProperties
<1>3. Rest(s, n) = r
  BY DEF Rest
<1> HIDE DEF r
<1> QED  BY <1>1, <1>2, <1>3

\* What is moved from the front of one sequence to the end of another keeps
\* its place in the stream.
LEMMA MoveKeepsStream ==
  ASSUME NEW T, NEW a \in Seq(T), NEW b \in Seq(T), NEW n \in 0..Len(b)
  PROVE  (a \o Front(b, n)) \o Rest(b, n) = a \o b
<1> DEFINE f == Front(b, n)
           r == Rest(b, n)
           x == a \o f
           y == x \o r
           z == a \o b
<1>1. Len(a) \in Nat /\ Len(b) \in Nat
  BY LenProperties
<1>2. f \in Seq(T) /\ Len(f) = n /\ \A i \in 1..n : f[i] = b[i]
  BY FrontProperties
<1>3. /\ r \in Seq(T) /\ Len(r) = Len(b) - n
      /\ \A i \in 1..(Len(b) - n) : r[i] = b[n + i]
  BY RestProperties
<1> HIDE DEF f, r
<1>4. /\ x \in Seq(T) /\ Len(x) = Len(a) + n
      /\ \A i \in 1..Len(a) + n : x[i] = IF i <= Len(a) THEN a[i] ELSE f[i - Len(a)]
  BY <1>2, ConcatProperties
<1>5. /\ z \in Seq(T) /\ Len(z) = Len(a) + Len(b)
      /\ \A i \in 1..Len(a) + Len(b) :
           z[i] = IF i <= Len(a) THEN a[i] ELSE b[i - Len(a)]
  BY ConcatProperties
<1> HIDE DEF x, z
<1>6. /\ y \in Seq(T) /\ Len(y) = Len(x) + Len(r)
      /\ \A i \in 1..Len(x) + Len(r) :
           y[i] = IF i <= Len(x) THEN x[i] ELSE r[i - Len(x)]
  BY <1>3, <1>4, ConcatProperties
<1> HIDE DEF y
<1>7. Len(y) = Len(z)
  BY <1>1, <1>3, <1>4, <1>5, <1>6
<1>8. ASSUME NEW i \in 1..Len(y) PROVE y[i] = z[i]
  <2>1. i \in 1..Len(x) + Len(r) /\ i \in 1..Len(a) + Len(b)
    BY <1>1, <1>3, <1>4, <1>6
  <2>2. CASE i <= Len(a)
    <3>1. i \in 1..Len(a) + n /\ i <= Len(x)
      BY <2>2, <1>1, <1>4
    <3> QED  BY <2>1, <2>2, <3>1, <1>4, <1>5, <1>6
  <2>3. CASE i > Len(a) /\ i <= Len(a) + n
    <3>1. i \in 1..Len(a) + n /\ i - Len(a) \in 1..n /\ i <= Len(x) /\ ~(i <= Len(a))
      BY <2>3, <1>1, <1>4
    <3>2. y[i] = f[i - Len(a)] /\ z[i] = b[i - Len(a)]
      BY <2>1, <3>1, <1>4, <1>5, <1>6
    <3> QED  BY <3>1, <3>2, <1>2
  <2>4. CASE i > Len(a) + n
    <3>1. /\ i - Len(x) \in 1..(Len(b) - n) /\ ~(i <= Len(x)) /\ ~(i <= Len(a))
          /\ n + (i - Len(x)) = i - Len(a)
      BY <2>1, <2>4, <1>1, <1>3, <1>4
    <3>2. y[i] = r[i - Len(x)] /\ z[i] = b[i - Len(a)]
      BY <2>1, <3>1, <1>5, <1>6
    <3>3. r[i - Len(x)] = b[n + (i - Len(x))]
      BY <3>1, <1>3
    <3> QED  BY <3>1, <3>2, <3>3
  <2> QED  BY <2>2, <2>3, <2>4, <2>1, <1>1
<1>9. y = z
  BY <1>5, <1>6, <1>7, <1>8, SeqEqual
<1> QED  BY <1>9 DEF y, z, x, f, r

\* Reading from the front of the first part is reading from the front of all.
LEMMA ReadKeepsStream ==
  ASSUME NEW T, NEW a \in Seq(T), NEW b \in Seq(T), NEW n \in 0..Len(a)
  PROVE  Rest(a, n) \o b = Rest(a \o b, n)
<1> DEFINE x == a \o b
           r == Rest(a, n)
           y == r \o b
           z == Rest(x, n)
<1>1. Len(a) \in Nat /\ Len(b) \in Nat
  BY LenProperties
<1>2. /\ r \in Seq(T) /\ Len(r) = Len(a) - n
      /\ \A i \in 1..(Len(a) - n) : r[i] = a[n + i]
  BY RestProperties
<1>3. /\ x \in Seq(T) /\ Len(x) = Len(a) + Len(b)
      /\ \A i \in 1..Len(a) + Len(b) :
           x[i] = IF i <= Len(a) THEN a[i] ELSE b[i - Len(a)]
  BY ConcatProperties
<1> HIDE DEF r, x
<1>4. /\ y \in Seq(T) /\ Len(y) = Len(r) + Len(b)
      /\ \A i \in 1..Len(r) + Len(b) :
           y[i] = IF i <= Len(r) THEN r[i] ELSE b[i - Len(r)]
  BY <1>2, ConcatProperties
<1>5. n \in 0..Len(x)
  BY <1>1, <1>3
<1>6. /\ z \in Seq(T) /\ Len(z) = Len(x) - n
      /\ \A i \in 1..(Len(x) - n) : z[i] = x[n + i]
  <2>1. x \in Seq(T)
    BY <1>3
  <2> QED  BY <1>5, <2>1, RestProperties
<1> HIDE DEF y, z
<1>7. Len(y) = Len(z)
  BY <1>1, <1>2, <1>3, <1>4, <1>6
<1>8. ASSUME NEW i \in 1..Len(y) PROVE y[i] = z[i]
  <2>1. n + i \in 1..Len(a) + Len(b) /\ i \in 1..Len(r) + Len(b) /\ i \in 1..(Len(x) - n)
    BY <1>1, <1>2, <1>3, <1>4
  <2>2. z[i] = IF n + i <= Len(a) THEN a[n + i] ELSE b[n + i - Len(a)]
    <3>1. z[i] = x[n + i]
      BY <2>1, <1>6
    <3> QED  BY <2>1, <3>1, <1>3
  <2>3. y[i] = IF i <= Len(r) THEN r[i] ELSE b[i - Len(r)]
    BY <2>1, <1>4
  <2>4. CASE n + i <= Len(a)
    BY <2>1, <2>2, <2>3, <2>4, <1>1, <1>2
  <2>5. CASE n + i > Len(a)
    <3>1. i - Len(r) = n + i - Len(a) /\ ~(i <= Len(r))
      BY <2>5, <1>1, <1>2
    <3>2. ~(n + i <= Len(a))
      BY <2>5, <1>1, <1>2, <1>3
    <3> QED  BY <3>1, <3>2, <2>2, <2>3
  <2> QED  BY <2>4, <2>5, <1>1
<1>9. y = z
  BY <1>4, <1>6, <1>7, <1>8, SeqEqual
<1> QED  BY <1>9 DEF y, z, r, x

LEMMA Associative ==
  ASSUME NEW T, NEW a \in Seq(T), NEW b \in Seq(T), NEW c \in Seq(T)
  PROVE  a \o (b \o c) = (a \o b) \o c
OBVIOUS

-----------------------------------------------------------------------------
(* Streams.                                                                *)

\* The units of a packet follow each other, and after its last unit comes the
\* first one of the next message.
Chained(s) ==
  \A i, k \in 1..Len(s) : i <= k =>
    /\ s[i].at <= SizeUnits + s[i].len
    /\ k - i <= SizeUnits + s[i].len - s[i].at =>
         s[k].nr = s[i].nr /\ s[k].len = s[i].len /\ s[k].at = s[i].at + (k - i)
    /\ k - i = SizeUnits + s[i].len - s[i].at + 1 =>
         s[k].at = 1 /\ s[k].nr = s[i].nr + 1

\* The stream stands at the message after those handled: at its size field,
\* or behind it when packetSize has been read.
Standing(s, size, done) ==
  s # <<>> =>
    /\ s[1].nr = done + 1
    /\ s[1].at = IF size = -1 THEN 1 ELSE SizeUnits + 1
    /\ size # -1 => size = s[1].len

\* The stream ends with the last unit of the message sent last.
Ending(s, size, done, last) ==
  /\ s = <<>> => size = -1 /\ done = last
  /\ s # <<>> => LastOf(s[Len(s)]) /\ s[Len(s)].nr = last

LEMMA UnitType ==
  ASSUME NEW u \in Unit
  PROVE  /\ u.nr \in Nat \ {0} /\ u.len \in Nat \ {0} /\ u.len \in Lengths
         /\ u.at \in Nat \ {0}
BY FramingAssumption DEF Unit

LEMMA PacketType ==
  ASSUME NEW nr \in Nat \ {0}, NEW len \in Lengths
  PROVE  /\ Packet(nr, len) \in Seq(Unit)
         /\ Len(Packet(nr, len)) = SizeUnits + len
         /\ \A i \in 1..SizeUnits + len :
              Packet(nr, len)[i] = [nr |-> nr, len |-> len, at |-> i]
BY FramingAssumption DEF Packet, Unit, SizeUnits

LEMMA PacketChained ==
  ASSUME NEW nr \in Nat \ {0}, NEW len \in Lengths
  PROVE  Chained(Packet(nr, len))
<1> DEFINE p == Packet(nr, len)
<1>1. /\ Len(p) = SizeUnits + len /\ len \in Nat
      /\ \A i \in 1..SizeUnits + len : p[i] = [nr |-> nr, len |-> len, at |-> i]
  BY PacketType, FramingAssumption
<1> HIDE DEF p
<1>2. Chained(p)
  BY <1>1 DEF Chained, SizeUnits
<1> QED  BY <1>2 DEF p

\* What is left of a stream is chained.
LEMMA RestChained ==
  ASSUME NEW s \in Seq(Unit), Chained(s), NEW n \in 0..Len(s)
  PROVE  Chained(Rest(s, n))
<1> DEFINE r == Rest(s, n)
<1>1. Len(s) \in Nat
  BY LenProperties
<1>2. Len(r) = Len(s) - n /\ \A i \in 1..Len(r) : r[i] = s[n + i]
  BY <1>1, RestProperties
<1> HIDE DEF r
<1>3. ASSUME NEW i \in 1..Len(r), NEW k \in 1..Len(r), i <= k
      PROVE  /\ r[i].at <= SizeUnits + r[i].len
             /\ k - i <= SizeUnits + r[i].len - r[i].at =>
                  /\ r[k].nr = r[i].nr /\ r[k].len = r[i].len
                  /\ r[k].at = r[i].at + (k - i)
             /\ k - i = SizeUnits + r[i].len - r[i].at + 1 =>
                  r[k].at = 1 /\ r[k].nr = r[i].nr + 1
  <2>1. /\ n + i \in 1..Len(s) /\ n + k \in 1..Len(s) /\ n + i <= n + k
        /\ (n + k) - (n + i) = k - i
    BY <1>1, <1>2, <1>3
  <2>2. r[i] = s[n + i] /\ r[k] = s[n + k]
    BY <1>2
  <2> QED  BY <2>1, <2>2 DEF Chained
<1>4. Chained(r)
  BY <1>3 DEF Chained
<1> QED  BY <1>4 DEF r

\* So is a stream that was cut off.
LEMMA PrefixChained ==
  ASSUME NEW s \in Seq(Unit), NEW t \in Seq(Unit), Chained(s \o t)
  PROVE  Chained(s)
<1> DEFINE u == s \o t
<1>1. Len(s) \in Nat /\ Len(t) \in Nat
  BY LenProperties
<1>2. \A i \in 1..Len(s) : i \in 1..Len(u) /\ u[i] = s[i]
  BY <1>1, ConcatProperties
<1> HIDE DEF u
<1>3. Chained(u)
  BY DEF u
<1> QED  BY <1>2, <1>3 DEF Chained

\* A packet behind the last unit of the message before it.
LEMMA AppendChained ==
  ASSUME NEW s \in Seq(Unit), Chained(s), NEW n \in Nat, NEW len \in Lengths,
         s # <<>> => LastOf(s[Len(s)]) /\ s[Len(s)].nr = n
  PROVE  LET u == s \o Packet(n + 1, len) IN
         /\ Chained(u)
         /\ u # <<>>
         /\ LastOf(u[Len(u)]) /\ u[Len(u)].nr = n + 1
         /\ s = <<>> => u[1].nr = n + 1 /\ u[1].at = 1
         /\ s # <<>> => u[1] = s[1]
<1> DEFINE p == Packet(n + 1, len)
           u == s \o p
           l == Len(s)
<1>1. l \in Nat /\ len \in Nat \ {0} /\ n + 1 \in Nat \ {0}
  BY LenProperties, FramingAssumption
<1>2. /\ p \in Seq(Unit) /\ Len(p) = SizeUnits + len
      /\ \A i \in 1..SizeUnits + len : p[i] = [nr |-> n + 1, len |-> len, at |-> i]
  BY <1>1, PacketType
<1>3. Chained(p)
  BY <1>1, PacketChained
<1> HIDE DEF p
<1>4. /\ u \in Seq(Unit) /\ Len(u) = l + Len(p)
      /\ \A i \in 1..l + Len(p) : u[i] = IF i <= l THEN s[i] ELSE p[i - l]
  BY <1>2, ConcatProperties
<1>5. \A i \in 1..l : s[i].nr \in Nat /\ s[i].len \in Nat \ {0} /\ s[i].at \in Nat \ {0}
  BY ElementOfSeq, UnitType
<1>6. s # <<>> => l \in 1..l
  BY <1>1, EmptySeq
<1> HIDE DEF u
<1>7. ASSUME NEW i \in 1..Len(u), NEW k \in 1..Len(u), i <= k
      PROVE  /\ u[i].at <= SizeUnits + u[i].len
             /\ k - i <= SizeUnits + u[i].len - u[i].at =>
                  /\ u[k].nr = u[i].nr /\ u[k].len = u[i].len
                  /\ u[k].at = u[i].at + (k - i)
             /\ k - i = SizeUnits + u[i].len - u[i].at + 1 =>
                  u[k].at = 1 /\ u[k].nr = u[i].nr + 1
  <2>1. CASE k <= l
    <3>1. i \in 1..l /\ k \in 1..l /\ u[i] = s[i] /\ u[k] = s[k]
      BY <2>1, <1>1, <1>2, <1>4, <1>7
    <3> QED  BY <3>1, <1>7 DEF Chained
  <2>2. CASE i > l
    <3>1. /\ i - l \in 1..Len(p) /\ k - l \in 1..Len(p) /\ i - l <= k - l
          /\ (k - l) - (i - l) = k - i
          /\ i \in 1..l + Len(p) /\ k \in 1..l + Len(p) /\ ~(i <= l) /\ ~(k <= l)
      BY <2>2, <1>1, <1>2, <1>4, <1>7 DEF SizeUnits
    <3>2. u[i] = p[i - l] /\ u[k] = p[k - l]
      BY <3>1, <1>4
    <3>3. /\ p[i - l].at <= SizeUnits + p[i - l].len
          /\ k - i <= SizeUnits + p[i - l].len - p[i - l].at =>
               /\ p[k - l].nr = p[i - l].nr /\ p[k - l].len = p[i - l].len
               /\ p[k - l].at = p[i - l].at + (k - i)
          /\ k - i = SizeUnits + p[i - l].len - p[i - l].at + 1 =>
               p[k - l].at = 1 /\ p[k - l].nr = p[i - l].nr + 1
      <4> DEFINE x == i - l
                 y == k - l
      <4>1. x \in 1..Len(p) /\ y \in 1..Len(p) /\ x <= y /\ y - x = k - i
        BY <3>1
      <4> HIDE DEF x, y
      <4>2. /\ p[x].at <= SizeUnits + p[x].len
            /\ y - x <= SizeUnits + p[x].len - p[x].at =>
                 /\ p[y].nr = p[x].nr /\ p[y].len = p[x].len
                 /\ p[y].at = p[x].at + (y - x)
            /\ y - x = SizeUnits + p[x].len - p[x].at + 1 =>
                 p[y].at = 1 /\ p[y].nr = p[x].nr + 1
        BY <4>1, <1>3 DEF Chained
      <4>3. /\ p[x].at <= SizeUnits + p[x].len
            /\ k - i <= SizeUnits + p[x].len - p[x].at =>
                 /\ p[y].nr = p[x].nr /\ p[y].len = p[x].len
                 /\ p[y].at = p[x].at + (k - i)
            /\ k - i = SizeUnits + p[x].len - p[x].at + 1 =>
                 p[y].at = 1 /\ p[y].nr = p[x].nr + 1
        BY <4>1, <4>2
      <4> QED  BY <4>3 DEF x, y
    <3> QED  BY <3>2, <3>3
  <2>3. CASE i <= l /\ k > l
    <3>1. /\ i \in 1..l /\ l \in 1..l /\ s # <<>>
          /\ u[i] = s[i] /\ u[k] = p[k - l] /\ k - l \in 1..SizeUnits + len
      BY <2>3, <1>1, <1>2, <1>4, <1>7
    <3>2. /\ s[i].at <= SizeUnits + s[i].len
          /\ l - i <= SizeUnits + s[i].len - s[i].at =>
               /\ s[l].nr = s[i].nr /\ s[l].len = s[i].len
               /\ s[l].at = s[i].at + (l - i)
      BY <3>1 DEF Chained
    <3>3. s[l].at = SizeUnits + s[l].len /\ s[l].nr = n
      BY <3>1 DEF LastOf
    <3>4. /\ s[i].nr \in Nat /\ s[i].len \in Nat /\ s[i].at \in Nat
          /\ i \in Nat /\ k \in Nat /\ l \in Nat /\ len \in Nat
      BY <3>1, <1>1, <1>5, <1>7
    <3> DEFINE at == s[i].at
               left == SizeUnits + s[i].len - s[i].at
    <3>5. left \in Int /\ at + left = SizeUnits + s[i].len
      <4>1. \A h, j \in Nat : SizeUnits + h - j \in Int /\ j + (SizeUnits + h - j) = SizeUnits + h
        BY DEF SizeUnits
      <4> QED  BY <3>4, <4>1
    <3>6. l - i <= left => at + (l - i) = at + left /\ s[i].nr = n
      BY <3>2, <3>3, <3>5
    <3>7. p[k - l].nr = n + 1 /\ p[k - l].at = k - l
      BY <3>1, <1>2
    <3>8. at \in Nat /\ i \in Nat /\ k \in Nat /\ l \in Nat /\ i <= l /\ k > l
      BY <2>3, <3>4
    <3> HIDE DEF at, left, l
    <3>9. ~(k - i <= left)
      BY <3>5, <3>6, <3>8
    <3>10. k - i = left + 1 => k - l = 1 /\ s[i].nr = n
      BY <3>5, <3>6, <3>8
    <3>11. /\ s[i].at <= SizeUnits + s[i].len
           /\ u[i] = s[i] /\ u[k] = p[k - l]
      BY <3>1, <3>2
    <3>12. k - i = left + 1 => p[k - l].at = 1 /\ p[k - l].nr = s[i].nr + 1
      BY <3>7, <3>10
    <3> QED  BY <3>9, <3>11, <3>12 DEF left
  <2> QED  BY <2>1, <2>2, <2>3, <1>1, <1>2, <1>4
<1>8. Chained(u)
  BY <1>7 DEF Chained
<1>9. u # <<>> /\ LastOf(u[Len(u)]) /\ u[Len(u)].nr = n + 1
  <2>1. Len(u) \in 1..l + Len(p) /\ ~(Len(u) <= l) /\ Len(u) - l = SizeUnits + len
    BY <1>1, <1>2, <1>4 DEF SizeUnits
  <2>2. u[Len(u)] = [nr |-> n + 1, len |-> len, at |-> SizeUnits + len]
    BY <2>1, <1>1, <1>2, <1>4 DEF SizeUnits
  <2>3. u # <<>>
    BY <2>1, <1>1, EmptySeq
  <2> QED  BY <2>2, <2>3 DEF LastOf
<1>10. s = <<>> => u[1].nr = n + 1 /\ u[1].at = 1
  <2>1. ASSUME s = <<>> PROVE u[1] = [nr |-> n + 1, len |-> len, at |-> 1]
    BY <2>1, <1>1, <1>2, <1>4 DEF SizeUnits
  <2> QED  BY <2>1
<1>11. s # <<>> => u[1] = s[1]
  BY <1>1, <1>2, <1>4, <1>6 DEF SizeUnits
<1> QED  BY <1>8, <1>9, <1>10, <1>11 DEF u, p

-----------------------------------------------------------------------------
(* Types.                                                                  *)

\* The running slots stay well typed when the innermost one returns or goes
\* from reading to handling or back.
LEMMA SlotsType ==
  ASSUME slots \in Seq(Slot), slots # <<>>
  PROVE  /\ Len(slots) \in 1..Len(slots)
         /\ Top \in Slot /\ Conn \in Conns
         /\ Below \in Seq(Slot)
         /\ \A b \in BOOLEAN : [slots EXCEPT ![Len(slots)].handling = b] \in Seq(Slot)
<1> DEFINE n == Len(slots)
<1>1. n \in 1..n
  BY EmptySeq
<1>2. slots[n] \in Slot
  BY <1>1, ElementOfSeq
<1>3. Top \in Slot /\ Conn \in Conns
  BY <1>2 DEF Top, Conn, Slot
<1>4. n - 1 \in 0..n
  BY <1>1
<1>5. Below \in Seq(Slot)
  BY <1>4, FrontProperties DEF Below
<1>6. ASSUME NEW b \in BOOLEAN
      PROVE  [slots EXCEPT ![n].handling = b] \in Seq(Slot)
  <2>1. [slots[n] EXCEPT !.handling = b] \in Slot
    BY <1>2 DEF Slot
  <2>2. [slots EXCEPT ![n] = [slots[n] EXCEPT !.handling = b]] \in Seq(Slot)
    BY <1>1, <2>1, ExceptSeq
  <2> QED  BY <2>2
<1> QED  BY <1>1, <1>3, <1>5, <1>6

LEMMA TypeSend ==
  ASSUME TypeOK, NEW c \in Conns, NEW len \in Lengths, Send(c, len)
  PROVE  TypeOK'
<1>1. Packet(sent[c] + 1, len) \in Seq(Unit)
  <2>1. sent[c] + 1 \in Nat \ {0}
    BY DEF TypeOK
  <2> QED  BY <2>1, PacketType
<1>2. wire[c] \o Packet(sent[c] + 1, len) \in Seq(Unit)
  BY <1>1, ConcatProperties DEF TypeOK
<1> QED  BY <1>2 DEF TypeOK, Send

LEMMA TypeArrive ==
  ASSUME TypeOK, NEW c \in Conns, NEW n \in 1..Len(wire[c]), Arrive(c, n)
  PROVE  TypeOK'
<1>1. Front(wire[c], n) \in Seq(Unit) /\ Rest(wire[c], n) \in Seq(Unit)
  BY FrontProperties, RestProperties DEF TypeOK
<1>2. sock[c] \o Front(wire[c], n) \in Seq(Unit)
  BY <1>1, ConcatProperties DEF TypeOK
<1>3. [conn |-> c, handling |-> FALSE] \in Slot
  BY DEF Slot
<1>4. Append(slots, [conn |-> c, handling |-> FALSE]) \in Seq(Slot)
  BY <1>3, AppendProperties DEF TypeOK
<1> QED  BY <1>1, <1>2, <1>4 DEF TypeOK, Arrive

LEMMA TypeReadSize ==
  ASSUME TypeOK, ReadSize
  PROVE  TypeOK'
<1>1. Conn \in Conns /\ SizeUnits \in 0..Len(sock[Conn])
  BY SlotsType, LenProperties DEF TypeOK, ReadSize, Reading, Available, SizeUnits
<1>2. Rest(sock[Conn], SizeUnits) \in Seq(Unit)
  BY <1>1, RestProperties DEF TypeOK
<1>3. sock[Conn][1] \in Unit
  <2>1. 1 \in 1..Len(sock[Conn])
    BY <1>1 DEF SizeUnits
  <2> QED  BY <1>1, <2>1, ElementOfSeq DEF TypeOK
<1>4. sock[Conn][1].len \in Nat /\ Lengths \cup {0} \subseteq Nat
  BY <1>3, UnitType, FramingAssumption
<1>5. packetSize' \in Nat
  BY <1>4 DEF ReadSize, Declared
<1> QED  BY <1>1, <1>2, <1>5 DEF TypeOK, ReadSize

LEMMA TypeTakePacket ==
  ASSUME TypeOK, TakePacket
  PROVE  TypeOK'
<1> DEFINE s == sock[Conn]
<1>1. slots # <<>> /\ Conn \in Conns /\ s \in Seq(Unit) /\ Len(s) \in Nat /\ Len(s) > 0
  BY SlotsType, LenProperties DEF TypeOK, TakePacket, Reading, Available
<1>2. s[1] \in Unit
  BY <1>1, ElementOfSeq
<1> HIDE DEF s
<1>3. Taken(s) \subseteq 0..Len(s)
  BY <1>1, <1>2, UnitType DEF Taken, Whole
<1>4. \A n \in Taken(s) : Rest(s, n) \in Seq(Unit)
  BY <1>1, <1>3, RestProperties
<1>5. ReadAs(s) \in Nat
  BY <1>2, UnitType DEF ReadAs, Torn
<1>6. Append(handled[Conn], ReadAs(s)) \in Seq(Nat)
  BY <1>1, <1>5, AppendProperties DEF TypeOK
<1>7. [slots EXCEPT ![Len(slots)].handling = TRUE] \in Seq(Slot)
  BY <1>1, SlotsType DEF TypeOK
<1>8. \E n \in Taken(s) : sock' = [sock EXCEPT ![Conn] = Rest(s, n)]
  BY DEF TakePacket, s
<1>9. sock' \in [Conns -> Seq(Unit)]
  <2>1. PICK n \in Taken(s) : sock' = [sock EXCEPT ![Conn] = Rest(s, n)]
    BY <1>8
  <2>2. Rest(s, n) \in Seq(Unit)
    BY <1>4
  <2> QED  BY <1>1, <2>1, <2>2 DEF TypeOK
<1>10. handled' \in [Conns -> Seq(Nat)]
  BY <1>1, <1>6 DEF TypeOK, TakePacket, s
<1> QED  BY <1>7, <1>9, <1>10 DEF TypeOK, TakePacket

LEMMA TypeSlot ==
  ASSUME TypeOK, HandlerReturns \/ SlotReturns
  PROVE  TypeOK'
BY SlotsType DEF TypeOK, HandlerReturns, SlotReturns, Reading

LEMMA TypeDisconnected ==
  ASSUME TypeOK, NEW c \in Conns, Disconnected(c)
  PROVE  TypeOK'
BY DEF TypeOK, Disconnected

LEMMA TypeNext ==
  ASSUME TypeOK, [Next]_vars
  PROVE  TypeOK'
<1>1. CASE UNCHANGED vars
  BY <1>1 DEF TypeOK, vars
<1> QED
  BY <1>1, TypeSend, TypeArrive, TypeReadSize, TypeTakePacket, TypeSlot,
     TypeDisconnected DEF Next

\* However many connections share packetSize, and whatever is read out of
\* place, the size is -1 or a number, and sockets hold units.
THEOREM FramingTyped == Spec => []TypeOK
<1>1. Init => TypeOK
  BY DEF Init, TypeOK
<1>2. TypeOK /\ [Next]_vars => TypeOK'
  BY TypeNext
<1> QED  BY <1>1, <1>2, PTL DEF Spec

-----------------------------------------------------------------------------
(* The inductive invariant, for a connection that has packetSize to itself.*)

OneConnection == \A a, b \in Conns : a = b

Numbered(q) == \A i \in 1..Len(q) : q[i] = i

Sound(c) ==
  /\ Chained(Stream(c))
  /\ Standing(Stream(c), packetSize, Len(handled[c]))
  /\ c \in open => Ending(Stream(c), packetSize, Len(handled[c]), sent[c])
  /\ Numbered(handled[c])

Inv == TypeOK /\ \A c \in Conns : Sound(c)

LEMMA StreamType ==
  ASSUME TypeOK, NEW c \in Conns
  PROVE  /\ sock[c] \in Seq(Unit) /\ wire[c] \in Seq(Unit)
         /\ Stream(c) \in Seq(Unit)
         /\ Len(Stream(c)) = Len(sock[c]) + Len(wire[c])
         /\ \A i \in 1..Len(sock[c]) : Stream(c)[i] = sock[c][i]
         /\ Len(sock[c]) \in Nat /\ Len(wire[c]) \in Nat
         /\ Len(handled[c]) \in Nat /\ sent[c] \in Nat
<1>1. /\ sock[c] \in Seq(Unit) /\ wire[c] \in Seq(Unit) /\ handled[c] \in Seq(Nat)
      /\ sent[c] \in Nat
  BY DEF TypeOK
<1>2. Len(sock[c]) \in Nat /\ Len(wire[c]) \in Nat /\ Len(handled[c]) \in Nat
  BY <1>1, LenProperties
<1> DEFINE a == sock[c]
           b == wire[c]
<1>3. a \in Seq(Unit) /\ b \in Seq(Unit) /\ Len(a) \in Nat /\ Len(b) \in Nat
  BY <1>1, <1>2
<1>4. Stream(c) = a \o b
  BY DEF Stream
<1> HIDE DEF a, b
<1>5. /\ a \o b \in Seq(Unit)
      /\ Len(a \o b) = Len(a) + Len(b)
      /\ \A i \in 1..Len(a) + Len(b) :
           (a \o b)[i] = IF i <= Len(a) THEN a[i] ELSE b[i - Len(a)]
  BY <1>3, ConcatProperties
<1>6. \A i \in 1..Len(a) : i \in 1..Len(a) + Len(b) /\ i <= Len(a)
  BY <1>3
<1>7. /\ Stream(c) \in Seq(Unit)
      /\ Len(Stream(c)) = Len(a) + Len(b)
      /\ \A i \in 1..Len(a) : Stream(c)[i] = a[i]
  BY <1>4, <1>5, <1>6
<1> QED  BY <1>1, <1>2, <1>7 DEF a, b

LEMMA StreamLonger ==
  ASSUME TypeOK, NEW c \in Conns
  PROVE  Len(Stream(c)) \in Nat /\ Len(Stream(c)) >= Len(sock[c])
<1> DEFINE x == Len(sock[c])
           y == Len(wire[c])
<1>1. x \in Nat /\ y \in Nat /\ Len(Stream(c)) = x + y
  BY StreamType
<1> HIDE DEF x, y
<1>2. Len(Stream(c)) \in Nat /\ Len(Stream(c)) >= x
  BY <1>1
<1> QED  BY <1>2 DEF x

\* Nothing happens to the stream but that units move from the wire to the
\* socket.
LEMMA SoundSame ==
  ASSUME NEW c \in Conns, Sound(c), Stream(c)' = Stream(c), open' \subseteq open,
         packetSize' = packetSize, handled' = handled, sent' = sent
  PROVE  Sound(c)'
BY DEF Sound

LEMMA SoundInit ==
  ASSUME Init
  PROVE  Inv
<1>1. TypeOK
  BY DEF Init, TypeOK
<1>2. ASSUME NEW c \in Conns PROVE Sound(c)
  <2>1. sock[c] = <<>> /\ wire[c] = <<>> /\ handled[c] = <<>> /\ sent[c] = 0
        /\ packetSize = -1
    BY DEF Init
  <2>2. Stream(c) = <<>> /\ Len(Stream(c)) = 0 /\ Len(handled[c]) = 0
    BY <2>1 DEF Stream
  <2> QED  BY <2>1, <2>2 DEF Sound, Chained, Standing, Ending, Numbered
<1> QED  BY <1>1, <1>2 DEF Inv

LEMMA SoundSend ==
  ASSUME TypeOK, NEW c \in Conns, Sound(c), NEW len \in Lengths, Send(c, len)
  PROVE  Sound(c)'
<1> DEFINE s == Stream(c)
           n == sent[c]
           u == s \o Packet(n + 1, len)
<1>1. Stream(c)' = u
  <2>1. sent[c] + 1 \in Nat \ {0}
    BY DEF TypeOK
  <2>2. Packet(n + 1, len) \in Seq(Unit)
    BY <2>1, PacketType
  <2>3. sock'[c] = sock[c] /\ wire'[c] = wire[c] \o Packet(n + 1, len)
    BY DEF Send, TypeOK
  <2> DEFINE a == sock[c]
             b == wire[c]
             p == Packet(n + 1, len)
  <2>4. a \in Seq(Unit) /\ b \in Seq(Unit) /\ p \in Seq(Unit)
    BY <2>2, StreamType
  <2>5. Stream(c)' = a \o (b \o p) /\ u = (a \o b) \o p
    BY <2>3 DEF Stream
  <2> HIDE DEF a, b, p, u
  <2> QED  BY <2>4, <2>5, Associative
<1>2. /\ s \in Seq(Unit) /\ n \in Nat /\ Chained(s)
      /\ Standing(s, packetSize, Len(handled[c]))
      /\ Ending(s, packetSize, Len(handled[c]), n)
  BY StreamType DEF Sound, Send
<1>3. /\ packetSize' = packetSize /\ handled' = handled /\ sent'[c] = n + 1
      /\ Numbered(handled[c])
  BY DEF Send, TypeOK, Sound
<1> HIDE DEF s, n
<1>4. /\ Chained(u)
      /\ u # <<>> /\ LastOf(u[Len(u)]) /\ u[Len(u)].nr = n + 1
      /\ s = <<>> => u[1].nr = n + 1 /\ u[1].at = 1
      /\ s # <<>> => u[1] = s[1]
  BY <1>2, AppendChained DEF Ending
<1> HIDE DEF u
<1>5. Standing(u, packetSize, Len(handled[c]))
  BY <1>2, <1>4 DEF Standing, Ending
<1>6. Ending(u, packetSize, Len(handled[c]), n + 1)
  BY <1>4 DEF Ending
<1> QED  BY <1>1, <1>3, <1>4, <1>5, <1>6 DEF Sound

\* What arrives moves from the wire to the socket, and the stream stays.
LEMMA ArriveKeepsStream ==
  ASSUME TypeOK, NEW c \in Conns, NEW n \in 1..Len(wire[c]), Arrive(c, n)
  PROVE  Stream(c)' = Stream(c)
<1> DEFINE a == sock[c]
           b == wire[c]
<1>1. a \in Seq(Unit) /\ b \in Seq(Unit)
  BY StreamType
<1>3. n \in 0..Len(b)
  BY StreamType
<1>2. Stream(c)' = (a \o Front(b, n)) \o Rest(b, n) /\ Stream(c) = a \o b
  BY DEF Stream, Arrive, TypeOK
<1> HIDE DEF a, b
<1> QED  BY <1>1, <1>2, <1>3, MoveKeepsStream

LEMMA SoundArrive ==
  ASSUME TypeOK, NEW c \in Conns, Sound(c), NEW n \in 1..Len(wire[c]), Arrive(c, n)
  PROVE  Sound(c)'
BY ArriveKeepsStream, SoundSame DEF Arrive

LEMMA SoundSlot ==
  ASSUME NEW c \in Conns, Sound(c), HandlerReturns \/ SlotReturns
  PROVE  Sound(c)'
<1>1. Stream(c)' = Stream(c)
  BY DEF Stream, HandlerReturns, SlotReturns
<1> QED  BY <1>1, SoundSame DEF HandlerReturns, SlotReturns

LEMMA SoundStutter ==
  ASSUME NEW c \in Conns, Sound(c), UNCHANGED vars
  PROVE  Sound(c)'
<1>1. Stream(c)' = Stream(c)
  BY DEF Stream, vars
<1> QED  BY <1>1, SoundSame DEF vars

\* What the closed connection has brought is still chained.
LEMMA SoundDisconnected ==
  ASSUME TypeOK, NEW c \in Conns, Sound(c), Disconnected(c)
  PROVE  Sound(c)'
<1> DEFINE s == sock[c]
<1>1. Stream(c)' = s
  <2>1. sock'[c] = s /\ wire'[c] = <<>>
    BY DEF Disconnected, TypeOK
  <2> QED  BY <2>1, StreamType, ConcatEmptySeq DEF Stream
<1>2. Chained(s)
  BY StreamType, PrefixChained DEF Sound, Stream
<1>3. /\ s \in Seq(Unit)
      /\ s # <<>> => Stream(c) # <<>> /\ Stream(c)[1] = s[1]
  <2>1. s # <<>> => 1 \in 1..Len(s)
    BY StreamType, EmptySeq
  <2>2. s # <<>> => Len(Stream(c)) # 0
    <3>1. Len(s) \in Nat /\ Len(wire[c]) \in Nat /\ Len(Stream(c)) = Len(s) + Len(wire[c])
      BY StreamType
    <3> HIDE DEF s
    <3> QED  BY <2>1, <3>1
  <2> QED  BY <2>1, <2>2, StreamType, EmptySeq
<1>4. Standing(s, packetSize, Len(handled[c]))
  BY <1>3 DEF Sound, Standing
<1>5. /\ packetSize' = packetSize /\ handled' = handled /\ c \notin open'
      /\ Numbered(handled[c])
  BY DEF Disconnected, Sound
<1> QED  BY <1>1, <1>2, <1>4, <1>5 DEF Sound

\* The two units of the size field are those of the message that comes next.
LEMMA SizeIsRead ==
  ASSUME OneConnection, TypeOK, NEW c \in Conns, Sound(c), ReadSize
  PROVE  LET s == Stream(c) IN
         /\ SizeUnits \in 1..Len(s) /\ Stream(c)' = Rest(s, SizeUnits)
         /\ \A i \in 1..2 :
              s[i].nr = Len(handled[c]) + 1 /\ s[i].len = s[1].len /\ s[i].at = i
         /\ s[1].len \in Nat \ {0}
         /\ packetSize = -1 /\ packetSize' = s[1].len
         /\ UNCHANGED <<handled, sent, open>>
<1>1. Conn = c /\ packetSize = -1 /\ Len(sock[c]) >= SizeUnits
  <2>1. Conn \in Conns
    BY SlotsType DEF TypeOK, ReadSize, Reading
  <2>2. Conn = c
    BY <2>1 DEF OneConnection
  <2> QED  BY <2>2 DEF ReadSize, Available
<1> DEFINE s == Stream(c)
           a == sock[c]
           h == Len(handled[c])
<1>2. /\ s \in Seq(Unit) /\ Len(s) \in Nat /\ a \in Seq(Unit) /\ Len(a) \in Nat
      /\ Len(s) >= Len(a) /\ h \in Nat
      /\ \A i \in 1..Len(a) : s[i] = a[i]
  BY StreamType, StreamLonger
<1>3. Stream(c)' = Rest(s, SizeUnits)
  <2> DEFINE b == wire[c]
  <2>1. Stream(c)' = Rest(a, SizeUnits) \o b /\ s = a \o b
    BY <1>1 DEF ReadSize, TypeOK, Stream
  <2>2. b \in Seq(Unit)
    BY StreamType
  <2>3. Len(a) >= SizeUnits
    BY <1>1
  <2> HIDE DEF a, b, s
  <2>4. SizeUnits \in 0..Len(a)
    BY <1>2, <2>3 DEF SizeUnits
  <2> QED  BY <2>1, <2>2, <2>4, <1>2, ReadKeepsStream
<1>4. Chained(s) /\ Standing(s, -1, h) /\ (c \in open => Ending(s, -1, h, sent[c]))
  BY <1>1 DEF Sound
<1>5. /\ packetSize' \in Declared(a) /\ handled' = handled /\ sent' = sent /\ open' = open
      /\ Numbered(handled[c])
  BY <1>1 DEF ReadSize, Sound
<1>6. Len(a) >= SizeUnits
  BY <1>1
<1> HIDE DEF s, a, h
<1>7. 1 \in 1..Len(s) /\ 2 \in 1..Len(s) /\ 1 \in 1..Len(a) /\ 2 \in 1..Len(a) /\ s # <<>>
  BY <1>2, <1>6, EmptySeq DEF SizeUnits
<1>8. s[1].nr = h + 1 /\ s[1].at = 1 /\ s[1].len \in Nat \ {0} /\ s[1].nr \in Nat
  BY <1>2, <1>4, <1>7, ElementOfSeq, UnitType DEF Standing
<1>9. \A k \in 1..Len(s) : k - 1 <= SizeUnits + s[1].len - s[1].at =>
        s[k].nr = s[1].nr /\ s[k].len = s[1].len /\ s[k].at = s[1].at + (k - 1)
  BY <1>4, <1>7 DEF Chained
<1>10. s[2].nr = s[1].nr /\ s[2].len = s[1].len /\ s[2].at = 2
  <2>1. 2 - 1 <= SizeUnits + s[1].len - s[1].at /\ s[1].at + (2 - 1) = 2
    BY <1>8 DEF SizeUnits
  <2> QED  BY <1>7, <1>9, <2>1
<1>11. packetSize' = s[1].len
  BY <1>2, <1>5, <1>7, <1>8, <1>10 DEF Declared, SizeField
<1>12. \A i \in 1..2 : s[i].nr = h + 1 /\ s[i].len = s[1].len /\ s[i].at = i
  <2>1. \A i \in 1..2 : i = 1 \/ i = 2
    OBVIOUS
  <2> QED  BY <2>1, <1>8, <1>10
<1>13. SizeUnits \in 1..Len(s)
  BY <1>2, <1>6 DEF SizeUnits
<1> QED  BY <1>1, <1>3, <1>5, <1>8, <1>11, <1>12, <1>13 DEF s, h

LEMMA SoundReadSize ==
  ASSUME OneConnection, TypeOK, NEW c \in Conns, Sound(c), ReadSize
  PROVE  Sound(c)'
<1> DEFINE s == Stream(c)
           h == Len(handled[c])
<1>1. /\ SizeUnits \in 1..Len(s) /\ Stream(c)' = Rest(s, SizeUnits)
      /\ \A i \in 1..2 : s[i].nr = h + 1 /\ s[i].len = s[1].len /\ s[i].at = i
      /\ s[1].len \in Nat \ {0}
      /\ packetSize = -1 /\ packetSize' = s[1].len
      /\ UNCHANGED <<handled, sent, open>>
  BY SizeIsRead
<1>2. s \in Seq(Unit) /\ Len(s) \in Nat /\ h \in Nat
  BY StreamType, StreamLonger
<1>4. /\ Chained(s) /\ Standing(s, -1, h) /\ (c \in open => Ending(s, -1, h, sent[c]))
      /\ Numbered(handled[c])
  BY <1>1 DEF Sound
<1> HIDE DEF s, h
<1>7. 1 \in 1..Len(s) /\ 2 \in 1..Len(s) /\ s # <<>> /\ Len(s) >= SizeUnits
  BY <1>1, <1>2, EmptySeq DEF SizeUnits
<1>8. /\ s[1].nr = h + 1 /\ s[1].at = 1 /\ s[1].len \in Nat \ {0}
      /\ s[2].nr = s[1].nr /\ s[2].len = s[1].len /\ s[2].at = 2
  BY <1>1
<1>9. \A k \in 1..Len(s) : k - 1 <= SizeUnits + s[1].len - s[1].at =>
        s[k].nr = s[1].nr /\ s[k].len = s[1].len /\ s[k].at = s[1].at + (k - 1)
  BY <1>4, <1>7 DEF Chained
<1> DEFINE r == Rest(s, SizeUnits)
<1>12. /\ r \in Seq(Unit) /\ Len(r) = Len(s) - SizeUnits
       /\ \A i \in 1..Len(r) : r[i] = s[SizeUnits + i]
  <2>1. SizeUnits \in 0..Len(s)
    BY <1>1 DEF SizeUnits
  <2> QED  BY <1>2, <2>1, RestProperties
<1>13. Chained(r)
  BY <1>1, <1>2, <1>4, RestChained DEF SizeUnits
<1> HIDE DEF r
<1>14. Standing(r, s[1].len, h)
  <2>1. SUFFICES ASSUME r # <<>> PROVE Standing(r, s[1].len, h)
    BY DEF Standing
  <2>2. 3 \in 1..Len(s) /\ 1 \in 1..Len(r)
    BY <2>1, <1>2, <1>12, EmptySeq DEF SizeUnits
  <2>3. r[1] = s[3]
    BY <2>2, <1>12 DEF SizeUnits
  <2>4. s[3].nr = s[1].nr /\ s[3].len = s[1].len /\ s[3].at = 3
    BY <2>2, <1>8, <1>9 DEF SizeUnits
  <2> QED  BY <2>3, <2>4, <1>8 DEF Standing, SizeUnits
<1>15. ASSUME c \in open PROVE Ending(r, s[1].len, h, sent[c])
  <2>1. LastOf(s[Len(s)]) /\ s[Len(s)].nr = sent[c]
    BY <1>4, <1>7, <1>15 DEF Ending
  <2>2. Len(s) # 2
    BY <2>1, <1>8 DEF LastOf, SizeUnits
  <2>3. Len(r) \in 1..Len(r) /\ SizeUnits + Len(r) = Len(s)
    BY <2>2, <1>2, <1>7, <1>12 DEF SizeUnits
  <2>4. r # <<>> /\ r[Len(r)] = s[Len(s)]
    BY <2>3, <1>12, EmptySeq
  <2> QED  BY <2>1, <2>4 DEF Ending
<1> QED  BY <1>1, <1>4, <1>13, <1>14, <1>15 DEF Sound, r, h

\* The packet behind the size field is whole, and it is the next message.
LEMMA PacketIsTaken ==
  ASSUME OneConnection, TypeOK, NEW c \in Conns, Sound(c), TakePacket
  PROVE  LET s   == Stream(c)
             h   == Len(handled[c])
             len == s[1].len
         IN  /\ len \in 1..Len(s) /\ Stream(c)' = Rest(s, len)
             /\ LastOf(s[len])
             /\ \A k \in 1..Len(s) : k - 1 <= len - 1 => s[k].nr = h + 1
             /\ \A k \in 1..Len(s) : k - 1 = len => s[k].at = 1 /\ s[k].nr = h + 2
             /\ handled'[c] = Append(handled[c], h + 1)
             /\ packetSize' = -1 /\ UNCHANGED <<sent, open>>
<1>1. /\ Conn = c /\ packetSize # -1 /\ slots # <<>>
      /\ Len(sock[c]) > 0 /\ Len(sock[c]) >= packetSize
  <2>1. Conn \in Conns
    BY SlotsType DEF TypeOK, TakePacket, Reading
  <2>2. Conn = c
    BY <2>1 DEF OneConnection
  <2> QED  BY <2>2 DEF TakePacket, Available, Reading
<1> DEFINE s == Stream(c)
           a == sock[c]
           h == Len(handled[c])
           len == s[1].len
<1>2. /\ s \in Seq(Unit) /\ Len(s) \in Nat /\ a \in Seq(Unit) /\ Len(a) \in Nat
      /\ Len(s) >= Len(a) /\ h \in Nat /\ sent[c] \in Nat
      /\ \A i \in 1..Len(a) : s[i] = a[i]
  BY StreamType, StreamLonger
<1>3. /\ Chained(s) /\ Standing(s, packetSize, h)
      /\ c \in open => Ending(s, packetSize, h, sent[c])
      /\ Numbered(handled[c])
  BY DEF Sound
<1>4. /\ packetSize' = -1 /\ sent' = sent /\ open' = open
      /\ handled'[c] = Append(handled[c], ReadAs(a))
      /\ \E n \in Taken(a) : sock'[c] = Rest(a, n)
      /\ wire'[c] = wire[c]
  BY <1>1 DEF TakePacket, TypeOK
<1>5. Len(a) > 0 /\ Len(a) >= packetSize /\ packetSize # -1
  BY <1>1
<1>6. s = a \o wire[c] /\ Stream(c)' = sock'[c] \o wire[c] /\ wire[c] \in Seq(Unit)
  BY <1>4, StreamType DEF Stream
<1> HIDE DEF s, a, h
<1>7. 1 \in 1..Len(s) /\ 1 \in 1..Len(a) /\ s # <<>>
  BY <1>2, <1>5, EmptySeq
<1>8. s[1] \in Unit
  BY <1>2, <1>7, ElementOfSeq
<1>9. /\ s[1].nr = h + 1 /\ s[1].at = SizeUnits + 1 /\ packetSize = len
      /\ len \in Nat \ {0}
  BY <1>3, <1>5, <1>7, <1>8, UnitType DEF Standing
<1>10. a[1] = s[1]
  BY <1>2, <1>7
<1>11. Taken(a) = {len} /\ ReadAs(a) = h + 1
  BY <1>5, <1>9, <1>10 DEF Taken, ReadAs, Whole
<1>12. /\ \A k \in 1..Len(s) : k - 1 <= len - 1 => s[k].nr = h + 1
       /\ \A k \in 1..Len(s) : k - 1 = len => s[k].at = 1 /\ s[k].nr = h + 2
  <2>1. /\ SizeUnits + s[1].len - s[1].at = len - 1
        /\ SizeUnits + s[1].len - s[1].at + 1 = len
    BY <1>9 DEF SizeUnits
  <2>2. ASSUME NEW k \in 1..Len(s)
        PROVE  /\ k - 1 <= SizeUnits + s[1].len - s[1].at => s[k].nr = s[1].nr
               /\ k - 1 = SizeUnits + s[1].len - s[1].at + 1 =>
                    s[k].at = 1 /\ s[k].nr = s[1].nr + 1
    BY <1>3, <1>7 DEF Chained
  <2> QED  BY <1>2, <1>9, <2>1, <2>2
<1>13. len \in 0..Len(a) /\ len \in 0..Len(s)
  BY <1>2, <1>5, <1>9
<1> HIDE DEF len
<1>14. Stream(c)' = Rest(s, len)
  <2> DEFINE b == wire[c]
  <2>1. Stream(c)' = Rest(a, len) \o b /\ s = a \o b /\ b \in Seq(Unit)
    BY <1>4, <1>6, <1>11
  <2> HIDE DEF b
  <2>2. Rest(a, len) \o b = Rest(a \o b, len)
    BY <2>1, <1>2, <1>13, ReadKeepsStream
  <2> QED  BY <2>1, <2>2
<1>15. LastOf(s[len])
  <2>1. len \in 1..Len(s) /\ len - 1 = SizeUnits + s[1].len - s[1].at /\ 1 <= len
    BY <1>2, <1>9, <1>13 DEF SizeUnits, len
  <2>2. s[len].len = s[1].len /\ s[len].at = s[1].at + (len - 1)
    BY <1>3, <1>7, <2>1 DEF Chained
  <2>3. s[1].len = len
    BY DEF len
  <2> QED  BY <1>9, <2>2, <2>3 DEF LastOf, SizeUnits
<1>16. len \in 1..Len(s)
  BY <1>9, <1>13
<1> QED  BY <1>4, <1>11, <1>12, <1>14, <1>15, <1>16 DEF s, h, len

LEMMA SoundTakePacket ==
  ASSUME OneConnection, TypeOK, NEW c \in Conns, Sound(c), TakePacket
  PROVE  Sound(c)'
<1> DEFINE s == Stream(c)
           h == Len(handled[c])
           len == s[1].len
           r == Rest(s, len)
<1>1. /\ len \in 1..Len(s) /\ Stream(c)' = r
      /\ \A k \in 1..Len(s) : k - 1 <= len - 1 => s[k].nr = h + 1
      /\ \A k \in 1..Len(s) : k - 1 = len => s[k].at = 1 /\ s[k].nr = h + 2
      /\ handled'[c] = Append(handled[c], h + 1)
      /\ packetSize' = -1 /\ UNCHANGED <<sent, open>>
  BY PacketIsTaken
<1>2. s \in Seq(Unit) /\ Len(s) \in Nat /\ h \in Nat /\ sent[c] \in Nat
  BY StreamType, StreamLonger
<1>3. /\ Chained(s) /\ Standing(s, packetSize, h)
      /\ c \in open => Ending(s, packetSize, h, sent[c])
      /\ Numbered(handled[c])
  BY DEF Sound
<1> HIDE DEF s, h, len, r
<1>7. 1 \in 1..Len(s) /\ s # <<>> /\ len \in Nat \ {0} /\ len \in 0..Len(s)
  BY <1>1, <1>2, EmptySeq
<1>15. /\ r \in Seq(Unit) /\ Len(r) = Len(s) - len
       /\ \A i \in 1..Len(r) : r[i] = s[len + i]
  BY <1>2, <1>7, RestProperties DEF r
<1>16. Chained(r)
  BY <1>2, <1>3, <1>7, RestChained DEF r
<1>17. Standing(r, -1, h + 1)
  <2>1. SUFFICES ASSUME r # <<>> PROVE Standing(r, -1, h + 1)
    BY DEF Standing
  <2>2. 1 \in 1..Len(r)
    BY <2>1, <1>15, EmptySeq
  <2>3. len + 1 \in 1..Len(s) /\ (len + 1) - 1 = len
    BY <2>2, <1>2, <1>7, <1>15
  <2>4. r[1] = s[len + 1]
    BY <2>2, <1>15
  <2>5. s[len + 1].at = 1 /\ s[len + 1].nr = h + 2
    BY <2>3, <1>1
  <2>6. (h + 1) + 1 = h + 2
    BY <1>2
  <2> QED  BY <2>4, <2>5, <2>6 DEF Standing
<1>18. ASSUME c \in open PROVE Ending(r, -1, h + 1, sent[c])
  <2>1. LastOf(s[Len(s)]) /\ s[Len(s)].nr = sent[c]
    BY <1>3, <1>7, <1>18 DEF Ending
  <2>2. ASSUME r = <<>> PROVE h + 1 = sent[c]
    <3>1. Len(r) = 0
      BY <2>2, EmptySeq
    <3>2. Len(s) = len /\ Len(s) \in 1..Len(s) /\ Len(s) - 1 <= len - 1
      BY <3>1, <1>2, <1>7, <1>15
    <3> QED  BY <3>2, <2>1, <1>1
  <2>3. ASSUME r # <<>> PROVE r[Len(r)] = s[Len(s)]
    <3>1. Len(r) \in 1..Len(r) /\ len + Len(r) = Len(s)
      BY <2>3, <1>2, <1>7, <1>15, EmptySeq
    <3> QED  BY <3>1, <1>15
  <2> QED  BY <2>1, <2>2, <2>3 DEF Ending
<1>19. Len(handled[c])' = h + 1 /\ Numbered(handled[c])'
  <2> DEFINE q == handled[c]
  <2>1. q \in Seq(Nat) /\ Len(q) = h /\ Numbered(q)
    BY <1>3 DEF TypeOK, h
  <2>2. handled'[c] = Append(q, h + 1) /\ h + 1 \in Nat
    BY <1>1, <1>2
  <2> HIDE DEF q
  <2>3. /\ Len(Append(q, h + 1)) = h + 1
        /\ \A i \in 1..h : Append(q, h + 1)[i] = q[i]
        /\ Append(q, h + 1)[h + 1] = h + 1
    BY <2>1, <2>2, AppendProperties
  <2>4. \A i \in 1..h + 1 : i \in 1..h \/ i = h + 1
    BY <1>2
  <2>5. Numbered(Append(q, h + 1))
    BY <2>1, <2>3, <2>4 DEF Numbered
  <2> QED  BY <2>2, <2>3, <2>5
<1> QED  BY <1>1, <1>16, <1>17, <1>18, <1>19 DEF Sound, h

LEMMA InvNext ==
  ASSUME OneConnection, Inv, [Next]_vars
  PROVE  Inv'
<1>1. TypeOK /\ \A c \in Conns : Sound(c)
  BY DEF Inv
<1>2. ASSUME NEW d \in Conns, NEW len \in Lengths, Send(d, len)
      PROVE  Inv'
  <2>1. TypeOK'
    BY <1>1, <1>2, TypeSend
  <2>2. ASSUME NEW c \in Conns PROVE Sound(c)'
    <3>1. c = d
      BY DEF OneConnection
    <3> QED  BY <1>1, <1>2, <3>1, SoundSend
  <2> QED  BY <2>1, <2>2 DEF Inv
<1>3. ASSUME NEW d \in Conns, NEW n \in 1..Len(wire[d]), Arrive(d, n)
      PROVE  Inv'
  <2>1. TypeOK'
    BY <1>1, <1>3, TypeArrive
  <2>2. ASSUME NEW c \in Conns PROVE Sound(c)'
    <3>1. c = d
      BY DEF OneConnection
    <3>2. Sound(d)'
      BY <1>1, <1>3, SoundArrive
    <3> QED  BY <3>1, <3>2
  <2> QED  BY <2>1, <2>2 DEF Inv
<1>4. ASSUME NEW d \in Conns, Disconnected(d)
      PROVE  Inv'
  <2>1. TypeOK'
    BY <1>1, <1>4, TypeDisconnected
  <2>2. ASSUME NEW c \in Conns PROVE Sound(c)'
    <3>1. c = d
      BY DEF OneConnection
    <3>2. Sound(d)'
      BY <1>1, <1>4, SoundDisconnected
    <3> QED  BY <3>1, <3>2
  <2> QED  BY <2>1, <2>2 DEF Inv
<1>5. CASE ReadSize
  BY <1>1, <1>5, TypeReadSize, SoundReadSize DEF Inv
<1>6. CASE TakePacket
  BY <1>1, <1>6, TypeTakePacket, SoundTakePacket DEF Inv
<1>7. CASE HandlerReturns \/ SlotReturns
  BY <1>1, <1>7, TypeSlot, SoundSlot DEF Inv
<1>8. CASE UNCHANGED vars
  <2>1. TypeOK'
    BY <1>1, <1>8 DEF TypeOK, vars
  <2> QED  BY <1>1, <1>8, <2>1, SoundStutter DEF Inv
<1> QED  BY <1>2, <1>3, <1>4, <1>5, <1>6, <1>7, <1>8 DEF Next

\* What lies in the socket and on the wire is a chain of packets that begins
\* with the message after those handled.
THEOREM InvHolds ==
  ASSUME OneConnection
  PROVE  Spec => []Inv
<1>1. Init => Inv
  BY SoundInit
<1>2. Inv /\ [Next]_vars => Inv'
  BY InvNext
<1> QED  BY <1>1, <1>2, PTL DEF Spec

\* A connection that shares its packetSize with no other one hands over each
\* message whole, once and in order (servergears.cpp 187), for all lengths,
\* splits of the stream, nested event loops and closures.
THEOREM MessagesIntact ==
  ASSUME OneConnection
  PROVE  Spec => []Intact
<1>1. Inv => Intact
  <2>1. SUFFICES ASSUME Inv, NEW c \in Conns PROVE \A i \in DOMAIN handled[c] : handled[c][i] = i
    BY DEF Intact
  <2>2. handled[c] \in Seq(Nat) /\ Numbered(handled[c])
    BY <2>1 DEF Inv, TypeOK, Sound
  <2> QED  BY <2>2, LenProperties DEF Numbered
<1> QED  BY <1>1, InvHolds, PTL

-----------------------------------------------------------------------------
(* Nothing is left behind.                                                 *)

\* What SlotReturns asks for: no further read is possible.
Starved(c) ==
  \/ Len(sock[c]) = 0
  \/ packetSize = -1 /\ Len(sock[c]) < SizeUnits
  \/ packetSize # -1 /\ Len(sock[c]) < packetSize

\* A slot does not return before that, and what arrives when none runs starts
\* one.
ReadOut == slots = <<>> => \A c \in Conns : Starved(c)

LEMMA SlotsStay ==
  ASSUME TypeOK, TakePacket \/ HandlerReturns
  PROVE  slots' # <<>>
<1> DEFINE n == Len(slots)
<1>1. slots \in Seq(Slot) /\ slots # <<>>
  BY DEF TypeOK, TakePacket, HandlerReturns, Reading
<1>2. n \in 1..n /\ DOMAIN slots = 1..n
  BY <1>1, LenProperties, EmptySeq
<1>3. slots' = [slots EXCEPT ![n].handling = TRUE] \/ slots' = [slots EXCEPT ![n].handling = FALSE]
  BY DEF TakePacket, HandlerReturns
<1> HIDE DEF n
<1>4. DOMAIN slots' = 1..n
  BY <1>2, <1>3
<1> QED  BY <1>2, <1>4

LEMMA ReadOutNext ==
  ASSUME OneConnection, TypeOK, ReadOut, [Next]_vars
  PROVE  ReadOut'
<1> SUFFICES ASSUME slots' = <<>>, NEW c \in Conns
             PROVE  Starved(c)'
  BY DEF ReadOut
<1>1. ASSUME slots = <<>>, UNCHANGED <<sock, packetSize>>
      PROVE  Starved(c)'
  BY <1>1 DEF ReadOut, Starved
<1>2. ASSUME NEW d \in Conns, NEW len \in Lengths, Send(d, len)
      PROVE  Starved(c)'
  BY <1>1, <1>2 DEF Send
<1>3. ASSUME NEW d \in Conns, NEW n \in 1..Len(wire[d]), Arrive(d, n)
      PROVE  FALSE
  <2>1. CASE slots' = Append(slots, [conn |-> d, handling |-> FALSE])
    <3> DEFINE x == [conn |-> d, handling |-> FALSE]
    <3>1. slots \in Seq(Slot) /\ x \in Slot /\ slots' = Append(slots, x)
      BY <2>1 DEF Slot, TypeOK
    <3> HIDE DEF x
    <3> QED  BY <3>1, AppendProperties
  <2>2. CASE (\E i \in DOMAIN slots : slots[i].conn = d) /\ slots' = slots
    <3>1. DOMAIN slots = 1 .. 0
      BY <2>2
    <3> QED  BY <2>2, <3>1
  <2> QED  BY <1>3, <2>1, <2>2 DEF Arrive
<1>4. CASE ReadSize
  BY <1>4 DEF ReadSize, Reading
<1>5. CASE TakePacket \/ HandlerReturns
  BY <1>5, SlotsStay
<1>6. CASE SlotReturns
  <2>1. Conn \in Conns
    BY <1>6, SlotsType DEF TypeOK, SlotReturns, Reading
  <2>2. Conn = c
    BY <2>1 DEF OneConnection
  <2> QED  BY <1>6, <2>2 DEF SlotReturns, Starved, Available
<1>7. ASSUME NEW d \in Conns, Disconnected(d)
      PROVE  Starved(c)'
  BY <1>1, <1>7 DEF Disconnected
<1>8. CASE UNCHANGED vars
  BY <1>1, <1>8 DEF vars
<1> QED  BY <1>2, <1>3, <1>4, <1>5, <1>6, <1>7, <1>8 DEF Next

\* Where the socket has less than the next read asks for, the packet it begins
\* has not ended.
LEMMA StarvedIsOpenEnded ==
  ASSUME TypeOK, NEW c \in Conns, Sound(c), Starved(c), NEW i \in DOMAIN sock[c]
  PROVE  ~LastOf(sock[c][i])
<1> DEFINE s == Stream(c)
           a == sock[c]
           l == Len(a)
<1>1. /\ a \in Seq(Unit) /\ l \in Nat /\ s \in Seq(Unit) /\ Len(s) \in Nat
      /\ l <= Len(s)
      /\ \A k \in 1..l : s[k] = a[k]
  BY StreamType, StreamLonger
<1>2. DOMAIN a = 1..l
  BY <1>1, LenProperties
<1>3. Chained(s) /\ Standing(s, packetSize, Len(handled[c]))
  BY DEF Sound
<1>4. \/ l = 0
      \/ packetSize = -1 /\ l < SizeUnits
      \/ packetSize # -1 /\ l < packetSize
  BY DEF Starved
<1>5. i \in 1..l
  BY <1>2
<1> HIDE DEF s, a, l
<1>6. i \in 1..Len(s) /\ 1 \in 1..Len(s) /\ 1 <= i /\ s # <<>> /\ l > 0
  BY <1>1, <1>5, EmptySeq
<1>7. s[1] \in Unit /\ s[1].len \in Nat \ {0}
  BY <1>1, <1>6, ElementOfSeq, UnitType
<1>8. /\ s[1].at = IF packetSize = -1 THEN 1 ELSE SizeUnits + 1
      /\ packetSize # -1 => packetSize = s[1].len
  BY <1>3, <1>6 DEF Standing
<1>9. i - 1 < SizeUnits + s[1].len - s[1].at
  <2>1. CASE packetSize = -1
    <3>1. s[1].at = 1 /\ i = 1
      BY <1>1, <1>4, <1>5, <1>6, <1>8, <2>1 DEF SizeUnits
    <3> QED  BY <1>7, <3>1 DEF SizeUnits
  <2>2. CASE packetSize # -1
    <3>1. s[1].at = SizeUnits + 1 /\ l < s[1].len
      BY <1>4, <1>6, <1>8, <2>2
    <3> QED  BY <1>1, <1>5, <1>7, <3>1 DEF SizeUnits
  <2> QED  BY <2>1, <2>2
<1>10. s[1].at \in Nat
  BY <1>8 DEF SizeUnits
<1>11. s[i].len = s[1].len /\ s[i].at = s[1].at + (i - 1)
  <2>1. i - 1 <= SizeUnits + s[1].len - s[1].at
    BY <1>5, <1>1, <1>7, <1>9, <1>10 DEF SizeUnits
  <2> QED  BY <1>3, <1>6, <2>1 DEF Chained
<1>12. s[i].at # SizeUnits + s[i].len
  BY <1>1, <1>5, <1>7, <1>9, <1>10, <1>11 DEF SizeUnits
<1>13. a[i] = s[i]
  BY <1>1, <1>5
<1> QED  BY <1>12, <1>13 DEF LastOf, a

\* When no slot runs, no whole packet lies unread: a message does not wait for
\* data that may never come (the loop of servergears.cpp 175 reads on until the
\* socket has less than it needs), also when slots were nested.
THEOREM NothingIsLeft ==
  ASSUME OneConnection
  PROVE  Spec => []NothingLeftBehind
<1>1. Init => ReadOut
  <2>1. ASSUME Init, NEW c \in Conns PROVE sock[c] = <<>> /\ Len(sock[c]) = 0
    BY <2>1 DEF Init
  <2> QED  BY <2>1 DEF ReadOut, Starved
<1>2. Inv /\ ReadOut /\ [Next]_vars => ReadOut'
  BY ReadOutNext DEF Inv
<1>3. Inv /\ ReadOut => NothingLeftBehind
  BY StarvedIsOpenEnded DEF Inv, ReadOut, NothingLeftBehind
<1> QED  BY <1>1, <1>2, <1>3, InvHolds, PTL DEF Spec

-----------------------------------------------------------------------------
(* The messages that end in a stream.                                      *)

LEMMA LeastOf ==
  ASSUME NEW B \in SUBSET Nat, B # {}
  PROVE  \E n \in B : \A m \in B : n <= m
<1> DEFINE R == OpToRel(<, Nat)
<1>1. PICK n \in B : \A m \in B : ~ (<<m, n>> \in R)
  <2> HIDE DEF R
  <2>1. IsWellFoundedOn(R, Nat)
    BY NatLessThanWellFounded DEF R
  <2> QED  BY <2>1, WFMin
<1>2. \A m \in B : ~ (m < n)
  BY <1>1 DEF OpToRel
<1> QED  BY <1>2

\* The message that has ended with a unit, or before it.
EndedAt(u) == IF LastOf(u) THEN u.nr ELSE u.nr - 1

\* How many messages end in a stream that begins with the one after message b,
\* and the numbers of k messages after b.
Ended(s, b) == IF s = <<>> THEN 0 ELSE EndedAt(s[Len(s)]) - b
After(b, k) == [i \in 1..k |-> b + i]

LEMMA EndsFinite ==
  ASSUME NEW s, NEW n \in Nat
  PROVE  /\ IsFiniteSet(EndsUpTo(s, n)) /\ Cardinality(EndsUpTo(s, n)) \in Nat
         /\ \A m \in Nat : m <= n =>
              Cardinality(EndsUpTo(s, m)) <= Cardinality(EndsUpTo(s, n))
<1>1. IsFiniteSet(1..n)
  BY FS_Interval
<1>2. EndsUpTo(s, n) \subseteq 1..n
  BY DEF EndsUpTo
<1>3. IsFiniteSet(EndsUpTo(s, n)) /\ Cardinality(EndsUpTo(s, n)) \in Nat
  BY <1>1, <1>2, FS_Subset, FS_CardinalityType
<1>4. ASSUME NEW m \in Nat, m <= n PROVE EndsUpTo(s, m) \subseteq EndsUpTo(s, n)
  BY <1>4 DEF EndsUpTo
<1> QED  BY <1>3, <1>4, FS_Subset

\* The next unit of a stream ends a message or none.
LEMMA EndsAtNext ==
  ASSUME NEW s, NEW m \in Nat, NEW n \in Nat, n = m + 1
  PROVE  Cardinality(EndsUpTo(s, n)) =
           IF LastOf(s[n]) THEN Cardinality(EndsUpTo(s, m)) + 1
                           ELSE Cardinality(EndsUpTo(s, m))
<1> DEFINE E == EndsUpTo(s, m)
<1>1. \A i \in Int : i \in 1..n <=> i \in 1..m \/ i = n
  OBVIOUS
<1>2. EndsUpTo(s, n) = IF LastOf(s[n]) THEN E \cup {n} ELSE E
  BY <1>1 DEF EndsUpTo
<1>3. IsFiniteSet(E) /\ n \notin E
  BY EndsFinite DEF EndsUpTo
<1> HIDE DEF E
<1>4. Cardinality(E \cup {n}) = Cardinality(E) + 1
  BY <1>3, FS_AddElement
<1> QED  BY <1>2, <1>4 DEF E

LEMMA NextUnit ==
  ASSUME NEW s \in Seq(Unit), Chained(s), NEW m \in Nat, NEW n \in 1..Len(s),
         m \in 1..Len(s), n = m + 1
  PROVE  /\ LastOf(s[m]) => s[n].nr = s[m].nr + 1 /\ ~ LastOf(s[n])
         /\ ~ LastOf(s[m]) => s[n].nr = s[m].nr
<1> DEFINE u == s[m]
           v == s[n]
<1>1. /\ u.at <= SizeUnits + u.len
      /\ 1 <= SizeUnits + u.len - u.at => v.nr = u.nr /\ v.len = u.len
      /\ 1 = SizeUnits + u.len - u.at + 1 => v.at = 1 /\ v.nr = u.nr + 1
  <2>1. n - m = 1 /\ m <= n
    OBVIOUS
  <2> QED  BY <2>1 DEF Chained
<1>2. u.at \in Nat /\ u.len \in Nat /\ v.len \in Nat \ {0}
  BY ElementOfSeq, UnitType
<1> DEFINE a == u.at
           e == SizeUnits + u.len
           f == SizeUnits + v.len
<1>3. a \in Nat /\ e \in Nat /\ f \in Nat /\ f > 1
  BY <1>2 DEF SizeUnits
<1>4. /\ a <= e
      /\ 1 <= e - a => v.nr = u.nr
      /\ 1 = e - a + 1 => v.at = 1 /\ v.nr = u.nr + 1
  <2>1. /\ e - a = SizeUnits + u.len - u.at
        /\ e - a + 1 = SizeUnits + u.len - u.at + 1
    BY <1>2 DEF SizeUnits
  <2> HIDE DEF u, v
  <2> QED  BY <1>1, <2>1
<1>5. (LastOf(u) <=> a = e) /\ (LastOf(v) <=> v.at = f)
  BY DEF LastOf
<1> SUFFICES /\ LastOf(u) => v.nr = u.nr + 1 /\ ~ LastOf(v)
             /\ ~ LastOf(u) => v.nr = u.nr
  OBVIOUS
<1> HIDE DEF u, v, a, e, f
<1>6. CASE a = e
  <2>1. 1 = e - a + 1
    BY <1>3, <1>6
  <2>2. v.at = 1 /\ v.nr = u.nr + 1
    BY <1>4, <2>1
  <2> QED  BY <1>3, <1>5, <1>6, <2>2
<1>7. CASE a # e
  <2>1. 1 <= e - a
    BY <1>3, <1>4, <1>7
  <2> QED  BY <1>4, <1>5, <1>7, <2>1
<1> QED  BY <1>6, <1>7

\* Messages end in a stream one after the other.
LEMMA EndsCounted ==
  ASSUME NEW s \in Seq(Unit), Chained(s), NEW b \in Nat, s # <<>>, s[1].nr = b + 1,
         NEW k \in 1..Len(s)
  PROVE  Cardinality(EndsUpTo(s, k)) = EndedAt(s[k]) - b
<1> DEFINE Counted(n) == Cardinality(EndsUpTo(s, n)) = EndedAt(s[n]) - b
           Bad == {n \in 1..Len(s) : ~ Counted(n)}
<1>1. SUFFICES ASSUME Bad # {} PROVE FALSE
  OBVIOUS
<1>2. PICK n \in Bad : \A m \in Bad : n <= m
  <2>1. Bad \subseteq Nat
    OBVIOUS
  <2> HIDE DEF Bad
  <2> QED  BY <1>1, <2>1, LeastOf
<1>3. n \in 1..Len(s) /\ n \in Nat /\ Len(s) \in Nat /\ s[n].nr \in Nat
  BY ElementOfSeq, UnitType, LenProperties
<1>4. CASE n = 1
  <2>1. EndsUpTo(s, 0) = {}
    BY DEF EndsUpTo
  <2>2. Cardinality(EndsUpTo(s, 1)) = IF LastOf(s[1]) THEN 1 ELSE 0
    <3>1. Cardinality(EndsUpTo(s, 0)) = 0
      BY <2>1, FS_EmptySet
    <3>2. Cardinality(EndsUpTo(s, 1)) =
            IF LastOf(s[1]) THEN Cardinality(EndsUpTo(s, 0)) + 1
                            ELSE Cardinality(EndsUpTo(s, 0))
      <4>1. 1 = 0 + 1
        OBVIOUS
      <4> QED  BY <4>1, EndsAtNext
    <3> QED  BY <3>1, <3>2
  <2>3. Counted(1)
    BY <2>2 DEF EndedAt
  <2> QED  BY <1>4, <2>3
<1>5. CASE n # 1
  <2> DEFINE m == n - 1
  <2>1. m \in Nat /\ m \in 1..Len(s) /\ n = m + 1 /\ ~ (n <= m)
    BY <1>3, <1>5
  <2> HIDE DEF m
  <2>2. Counted(m)
    BY <1>2, <2>1
  <2>3. s[m].nr \in Nat /\ s[n].nr \in Nat
    BY <1>3, <2>1, ElementOfSeq, UnitType
  <2>4. Cardinality(EndsUpTo(s, n)) =
           IF LastOf(s[n]) THEN Cardinality(EndsUpTo(s, m)) + 1
                           ELSE Cardinality(EndsUpTo(s, m))
    BY <1>3, <2>1, EndsAtNext
  <2>5. /\ LastOf(s[m]) => s[n].nr = s[m].nr + 1 /\ ~ LastOf(s[n])
        /\ ~ LastOf(s[m]) => s[n].nr = s[m].nr
    BY <1>3, <2>1, NextUnit
  <2>6. Counted(n)
    <3> DEFINE x == s[m].nr
               y == s[n].nr
               p == Cardinality(EndsUpTo(s, m))
               q == Cardinality(EndsUpTo(s, n))
    <3>1. p = IF LastOf(s[m]) THEN x - b ELSE x - 1 - b
      BY <2>2 DEF EndedAt
    <3>2. /\ x \in Nat /\ y \in Nat /\ b \in Nat
          /\ q = IF LastOf(s[n]) THEN p + 1 ELSE p
          /\ LastOf(s[m]) => y = x + 1 /\ ~ LastOf(s[n])
          /\ ~ LastOf(s[m]) => y = x
      BY <2>3, <2>4, <2>5
    <3> HIDE DEF x, y, p, q
    <3>3. q = IF LastOf(s[n]) THEN y - b ELSE y - 1 - b
      BY <3>1, <3>2
    <3> QED  BY <3>3 DEF EndedAt, q, y
  <2> QED  BY <2>6
<1> QED  BY <1>4, <1>5

\* So the messages that end in a stream have the numbers after the one handled
\* last, in their order.
LEMMA EndNumbersAre ==
  ASSUME NEW s \in Seq(Unit), Chained(s), NEW b \in Nat, s # <<>> => s[1].nr = b + 1
  PROVE  Ended(s, b) \in Nat /\ EndNumbers(s) = After(b, Ended(s, b))
<1> DEFINE l == Len(s)
           E == EndsUpTo(s, l)
           c == Cardinality(E)
           Nth(k) == CHOOSE i \in E : Cardinality(EndsUpTo(s, i)) = k
<1>1. l \in Nat /\ c \in Nat
  BY LenProperties, EndsFinite
<1>2. c = Ended(s, b)
  <2>1. CASE s = <<>>
    <3>1. E = {}
      BY <2>1 DEF EndsUpTo
    <3> QED  BY <2>1, <3>1, FS_EmptySet DEF Ended
  <2>2. CASE s # <<>>
    <3>1. l \in 1..l
      BY <1>1, <2>2, EmptySeq
    <3> QED  BY <2>2, <3>1, EndsCounted DEF Ended
  <2> QED  BY <2>1, <2>2
<1>3. ASSUME NEW k \in 1..c
      PROVE  s[Nth(k)].nr = b + k
  <2> DEFINE Reached == {n \in 1..l : k <= Cardinality(EndsUpTo(s, n))}
  <2>1. s # <<>> /\ l \in 1..l
    <3>1. CASE s = <<>>
      BY <1>2, <1>3, <3>1 DEF Ended
    <3> QED  BY <1>1, <3>1, EmptySeq
  <2>2. l \in Reached /\ Reached \subseteq Nat
    BY <2>1
  <2>3. PICK n \in Reached : \A m \in Reached : n <= m
    <3> HIDE DEF Reached
    <3> QED  BY <2>2, LeastOf
  <2>4. n \in 1..l /\ n \in Nat /\ k <= Cardinality(EndsUpTo(s, n))
        /\ k \in Nat /\ 0 < k
    BY <1>1
  <2> DEFINE m == n - 1
  <2>5. m \in Nat /\ n = m + 1 /\ (m = 0 \/ m \in 1..l) /\ ~ (n <= m)
    BY <1>1, <2>4
  <2>6. Cardinality(EndsUpTo(s, m)) < k /\ Cardinality(EndsUpTo(s, m)) \in Nat
    <3>1. Cardinality(EndsUpTo(s, m)) \in Nat
      BY <2>5, EndsFinite
    <3>2. CASE m = 0
      <4>1. EndsUpTo(s, m) = {}
        BY <3>2 DEF EndsUpTo
      <4>2. Cardinality(EndsUpTo(s, m)) = 0
        BY <4>1, FS_EmptySet
      <4> QED  BY <2>4, <3>1, <4>2
    <3>3. CASE m \in 1..l
      <4>1. m \notin Reached
        BY <2>3, <2>5
      <4> HIDE DEF m
      <4> QED  BY <2>4, <3>1, <3>3, <4>1
    <3> QED  BY <2>5, <3>2, <3>3
  <2> HIDE DEF m, Reached
  <2>7. LastOf(s[n]) /\ Cardinality(EndsUpTo(s, n)) = k
    <3>1. Cardinality(EndsUpTo(s, n)) =
            IF LastOf(s[n]) THEN Cardinality(EndsUpTo(s, m)) + 1
                            ELSE Cardinality(EndsUpTo(s, m))
      BY <2>4, <2>5, EndsAtNext
    <3> QED  BY <2>4, <2>6, <3>1
  <2>8. n \in E
    BY <2>4, <2>7 DEF EndsUpTo
  <2> DEFINE j == Nth(k)
  <2>9. j \in E /\ Cardinality(EndsUpTo(s, j)) = k
    BY <2>7, <2>8
  <2> HIDE DEF j
  <2>10. j \in 1..l /\ LastOf(s[j])
    BY <2>9 DEF EndsUpTo
  <2>11. s[j].nr \in Nat
    BY <2>10, ElementOfSeq, UnitType
  <2>12. k = EndedAt(s[j]) - b
    BY <2>1, <2>9, <2>10, EndsCounted
  <2>13. s[j].nr = b + k
    BY <2>4, <2>10, <2>11, <2>12 DEF EndedAt
  <2> QED  BY <2>13 DEF j
<1>4. EndNumbers(s) = [k \in 1..c |-> s[Nth(k)].nr]
  BY DEF EndNumbers
<1> HIDE DEF Nth, c, E, l
<1>5. EndNumbers(s) = [k \in 1..c |-> b + k]
  BY <1>3, <1>4
<1> QED  BY <1>1, <1>2, <1>5 DEF After

LEMMA AfterProperties ==
  ASSUME NEW b \in Nat, NEW k \in Nat
  PROVE  /\ After(b, k) \in Seq(Nat) /\ Len(After(b, k)) = k
         /\ \A i \in 1..k : After(b, k)[i] = b + i
BY DEF After

LEMMA AfterAppend ==
  ASSUME NEW b \in Nat, NEW k \in Nat
  PROVE  Append(After(b, k), b + k + 1) = After(b, k + 1)
<1> DEFINE s == After(b, k)
           x == b + k + 1
           t == Append(s, x)
           u == After(b, k + 1)
<1>1. s \in Seq(Nat) /\ Len(s) = k /\ \A i \in 1..k : s[i] = b + i
  BY AfterProperties
<1>2. k + 1 \in Nat /\ x \in Nat
  OBVIOUS
<1>3. u \in Seq(Nat) /\ Len(u) = k + 1 /\ \A i \in 1..k+1 : u[i] = b + i
  BY <1>2, AfterProperties
<1> HIDE DEF s, u
<1>4. /\ t \in Seq(Nat) /\ Len(t) = k + 1 /\ t[k + 1] = x
      /\ \A i \in 1..k : t[i] = s[i]
  BY <1>1, <1>2, AppendProperties
<1>5. ASSUME NEW i \in 1..Len(t) PROVE t[i] = u[i]
  <2>1. i \in 1..k \/ i = k + 1
    BY <1>4
  <2> QED  BY <1>1, <1>3, <1>4, <2>1
<1> HIDE DEF t
<1>6. t = u
  BY <1>3, <1>4, <1>5, SeqEqual
<1> QED  BY <1>6 DEF t, s, u

LEMMA AfterTail ==
  ASSUME NEW b \in Nat, NEW k \in Nat, k > 0
  PROVE  /\ After(b, k) # <<>> /\ Head(After(b, k)) = b + 1
         /\ Tail(After(b, k)) = After(b + 1, k - 1)
<1> DEFINE s == After(b, k)
           t == Tail(s)
           u == After(b + 1, k - 1)
<1>1. s \in Seq(Nat) /\ Len(s) = k /\ \A i \in 1..k : s[i] = b + i
  BY AfterProperties
<1>2. b + 1 \in Nat /\ k - 1 \in Nat /\ 1 \in 1..k
  OBVIOUS
<1>3. u \in Seq(Nat) /\ Len(u) = k - 1 /\ \A i \in 1..k-1 : u[i] = b + 1 + i
  BY <1>2, AfterProperties
<1> HIDE DEF s, u
<1>4. s # <<>>
  BY <1>1, EmptySeq
<1>5. /\ Head(s) = s[1]
      /\ t \in Seq(Nat) /\ Len(t) = k - 1
      /\ \A i \in 1..k-1 : t[i] = s[i + 1]
  BY <1>1, <1>4, HeadTailProperties
<1>6. Head(s) = b + 1
  BY <1>1, <1>2, <1>5
<1>7. ASSUME NEW i \in 1..Len(t) PROVE t[i] = u[i]
  <2>1. i \in 1..k-1 /\ i + 1 \in 1..k /\ b + (i + 1) = b + 1 + i
    BY <1>5
  <2> QED  BY <1>1, <1>3, <1>5, <2>1
<1> HIDE DEF t
<1>8. t = u
  BY <1>3, <1>5, <1>7, SeqEqual
<1> QED  BY <1>4, <1>6, <1>8 DEF t, s, u

LEMMA AfterPrefix ==
  ASSUME NEW b \in Nat, NEW k \in Nat, NEW n \in 0..k
  PROVE  SubSeq(After(b, k), 1, n) = After(b, n)
<1> DEFINE s == After(b, k)
           t == Front(s, n)
           u == After(b, n)
<1>1. s \in Seq(Nat) /\ Len(s) = k /\ \A i \in 1..k : s[i] = b + i
  BY AfterProperties
<1>2. u \in Seq(Nat) /\ Len(u) = n /\ \A i \in 1..n : u[i] = b + i
  BY AfterProperties
<1> HIDE DEF s, u
<1>3. t \in Seq(Nat) /\ Len(t) = n /\ \A i \in 1..n : t[i] = s[i]
  BY <1>1, FrontProperties
<1>4. ASSUME NEW i \in 1..Len(t) PROVE t[i] = u[i]
  <2>1. i \in 1..n /\ i \in 1..k
    BY <1>3
  <2> QED  BY <1>1, <1>2, <1>3, <2>1
<1> HIDE DEF t
<1>5. t = u
  BY <1>2, <1>3, <1>4, SeqEqual
<1> QED  BY <1>5 DEF t, s, u, Front

\* Taking units from the front of a stream leaves its last unit, unless it
\* takes them all.
LEMMA RestEnded ==
  ASSUME NEW s \in Seq(Unit), NEW n \in 1..Len(s), NEW b \in Nat
  PROVE  LET r == Rest(s, n) IN
         /\ r # <<>> => r[Len(r)] = s[Len(s)]
         /\ r = <<>> => n = Len(s)
         /\ s # <<>>
<1> DEFINE r == Rest(s, n)
<1>1. Len(s) \in Nat /\ n \in 0..Len(s) /\ s # <<>>
  BY LenProperties, EmptySeq
<1>2. r \in Seq(Unit) /\ Len(r) = Len(s) - n /\ \A i \in 1..Len(s) - n : r[i] = s[n + i]
  BY <1>1, RestProperties
<1> HIDE DEF r
<1>3. ASSUME r = <<>> PROVE n = Len(s)
  BY <1>1, <1>2, <1>3
<1>4. ASSUME r # <<>> PROVE r[Len(r)] = s[Len(s)]
  <2>1. Len(r) \in 1..Len(s) - n /\ n + Len(r) = Len(s)
    BY <1>1, <1>2, <1>4, EmptySeq
  <2> QED  BY <1>1, <1>2, <1>4, <2>1
<1> QED  BY <1>1, <1>3, <1>4 DEF r

-----------------------------------------------------------------------------
(* The framing implements the channel.                                     *)

\* What is pending on a connection: the messages after those handled, and as
\* long as it is open all that were sent.
LEMMA PendingOf ==
  ASSUME NEW s \in Seq(Unit), NEW size, NEW h \in Nat, NEW last \in Nat,
         Chained(s), Standing(s, size, h)
  PROVE  /\ Ended(s, h) \in Nat
         /\ EndNumbers(s) = After(h, Ended(s, h))
         /\ Ending(s, size, h, last) => h + Ended(s, h) = last
<1>1. Ended(s, h) \in Nat /\ EndNumbers(s) = After(h, Ended(s, h))
  BY EndNumbersAre DEF Standing
<1>2. ASSUME Ending(s, size, h, last) PROVE h + Ended(s, h) = last
  <2>1. CASE s = <<>>
    BY <1>2, <2>1 DEF Ending, Ended
  <2>2. CASE s # <<>>
    BY <1>2, <2>2 DEF Ending, Ended, EndedAt
  <2> QED  BY <2>1, <2>2
<1> QED  BY <1>1, <1>2

\* How many messages are pending.
Left(c) == Ended(Stream(c), Len(handled[c]))

LEMMA PendingNow ==
  ASSUME Inv, NEW c \in Conns
  PROVE  /\ Len(handled[c]) \in Nat /\ Left(c) \in Nat
         /\ Pending(c) = After(Len(handled[c]), Left(c))
         /\ c \in open => Len(handled[c]) + Left(c) = sent[c]
<1>1. /\ Stream(c) \in Seq(Unit) /\ Len(handled[c]) \in Nat /\ sent[c] \in Nat
      /\ Sound(c)
  BY StreamType DEF Inv
<1> QED  BY <1>1, PendingOf DEF Sound, Left, Pending

LEMMA PendingNext ==
  ASSUME Inv', NEW c \in Conns
  PROVE  /\ Len(handled[c])' \in Nat /\ Left(c)' \in Nat
         /\ Pending(c)' = After(Len(handled[c])', Left(c)')
         /\ c \in open' => Len(handled[c])' + Left(c)' = sent'[c]
<1>1. /\ sock'[c] \in Seq(Unit) /\ wire'[c] \in Seq(Unit)
      /\ handled'[c] \in Seq(Nat) /\ sent'[c] \in Nat
  BY DEF Inv, TypeOK
<1>2. Stream(c)' \in Seq(Unit)
  BY <1>1, ConcatProperties DEF Stream
<1>3. Len(handled[c])' \in Nat
  BY <1>1, LenProperties
<1>4. Sound(c)'
  BY DEF Inv
<1> QED  BY <1>1, <1>2, <1>3, <1>4, PendingOf DEF Sound, Left, Pending

\* One connection: what the step does to it is what it does to all.
LEMMA OneQueue ==
  ASSUME OneConnection, NEW c \in Conns, NEW x, Pending(c)' = x
  PROVE  [d \in Conns |-> Pending(d)]' = [[d \in Conns |-> Pending(d)] EXCEPT ![c] = x]
<1>1. \A d \in Conns : d = c
  BY DEF OneConnection
<1>2. [d \in Conns |-> Pending(d)]' = [d \in Conns |-> x]
  BY <1>1
<1>3. [[d \in Conns |-> Pending(d)] EXCEPT ![c] = x] = [d \in Conns |-> x]
  BY <1>1
<1> QED  BY <1>2, <1>3

LEMMA SendIsSend ==
  ASSUME OneConnection, Inv, Inv', NEW c \in Conns, NEW len \in Lengths, Send(c, len)
  PROVE  Chan!Send(c, sent[c] + 1) /\ sent[c] + 1 \in Numbers
<1> DEFINE h == Len(handled[c])
           k == Left(c)
<1>1. c \in open /\ open' = open /\ handled' = handled /\ sent[c] < MaxSends
      /\ sent[c] \in Nat /\ sent'[c] = sent[c] + 1
  BY DEF Send, Inv, TypeOK
<1>2. h \in Nat /\ k \in Nat /\ Pending(c) = After(h, k) /\ h + k = sent[c]
  BY <1>1, PendingNow
<1>3. k' \in Nat /\ Pending(c)' = After(h, k') /\ h + k' = sent[c] + 1
  BY <1>1, PendingNext
<1> HIDE DEF h, k
<1>4. k' = k + 1 /\ sent[c] + 1 = h + k + 1
  BY <1>1, <1>2, <1>3
<1>5. Pending(c)' = Append(Pending(c), sent[c] + 1)
  BY <1>2, <1>3, <1>4, AfterAppend
<1>6. [d \in Conns |-> Pending(d)]' =
        [[d \in Conns |-> Pending(d)] EXCEPT ![c] = Append(@, sent[c] + 1)]
  BY <1>5, OneQueue
<1>7. sent[c] + 1 \in Numbers
  BY <1>1, FramingAssumption DEF Numbers
<1> QED  BY <1>1, <1>6, <1>7 DEF Chan!Send

\* Moving units and reading a size field leave what is pending.
LEMMA StreamStays ==
  ASSUME NEW c \in Conns, Stream(c)' = Stream(c)
  PROVE  Pending(c)' = Pending(c)
BY DEF Pending

LEMMA ReadSizeIsNothing ==
  ASSUME OneConnection, Inv, Inv', NEW c \in Conns, ReadSize
  PROVE  Pending(c)' = Pending(c) /\ UNCHANGED <<open, handled>>
<1> DEFINE s == Stream(c)
           h == Len(handled[c])
           k == Left(c)
           r == Rest(s, SizeUnits)
<1>1. TypeOK /\ Sound(c)
  BY DEF Inv
<1>2. /\ SizeUnits \in 1..Len(s) /\ Stream(c)' = r
      /\ \A i \in 1..2 : s[i].nr = h + 1 /\ s[i].len = s[1].len /\ s[i].at = i
      /\ s[1].len \in Nat \ {0}
      /\ UNCHANGED <<handled, open>>
  BY <1>1, SizeIsRead
<1>3. h \in Nat /\ k \in Nat /\ Pending(c) = After(h, k)
  BY PendingNow
<1>4. Pending(c)' = After(h, k')
  BY <1>2, PendingNext
<1>5. k = Ended(s, h) /\ k' = Ended(r, h)
  BY <1>2 DEF Left
<1>6. s \in Seq(Unit)
  BY <1>1, StreamType
<1> HIDE DEF s, h, k, r
<1>7. /\ r # <<>> => r[Len(r)] = s[Len(s)]
      /\ r = <<>> => SizeUnits = Len(s)
      /\ s # <<>>
  BY <1>2, <1>3, <1>6, RestEnded DEF r
<1>8. CASE r # <<>>
  BY <1>3, <1>4, <1>5, <1>7, <1>8, <1>2 DEF Ended
<1>9. CASE r = <<>>
  <2>1. s[2].nr = h + 1 /\ s[2].len \in Nat \ {0} /\ s[2].at = 2 /\ Len(s) = 2
    BY <1>2, <1>7, <1>9 DEF SizeUnits
  <2>2. ~ LastOf(s[2])
    BY <2>1 DEF LastOf, SizeUnits
  <2>3. k = (h + 1) - 1 - h /\ k' = 0
    BY <1>5, <1>7, <1>9, <2>1, <2>2 DEF Ended, EndedAt
  <2>4. k = 0
    BY <1>3, <2>3
  <2> QED  BY <1>2, <1>3, <1>4, <2>3, <2>4
<1> QED  BY <1>8, <1>9

LEMMA TakePacketIsReceive ==
  ASSUME OneConnection, Inv, Inv', NEW c \in Conns, TakePacket
  PROVE  Chan!Receive(c)
<1> DEFINE s == Stream(c)
           h == Len(handled[c])
           k == Left(c)
           len == s[1].len
           r == Rest(s, len)
<1>1. TypeOK /\ Sound(c)
  BY DEF Inv
<1>2. /\ len \in 1..Len(s) /\ Stream(c)' = r /\ LastOf(s[len])
      /\ \A i \in 1..Len(s) : i - 1 <= len - 1 => s[i].nr = h + 1
      /\ handled'[c] = Append(handled[c], h + 1)
      /\ open' = open
  BY <1>1, PacketIsTaken
<1>3. h \in Nat /\ k \in Nat /\ Pending(c) = After(h, k) /\ handled[c] \in Seq(Nat)
  BY <1>1, PendingNow DEF TypeOK
<1>4. Len(handled[c])' = h + 1 /\ h + 1 \in Nat
  BY <1>2, <1>3, AppendProperties
<1>5. k' \in Nat /\ Pending(c)' = After(h + 1, k')
  BY <1>4, PendingNext
<1>6. k = Ended(s, h) /\ k' = Ended(r, h + 1)
  BY <1>2, <1>4 DEF Left
<1>7. s \in Seq(Unit) /\ Len(s) \in Nat
  BY <1>1, StreamType, StreamLonger
<1> HIDE DEF s, h, k, r, len
<1>8. /\ r # <<>> => r[Len(r)] = s[Len(s)]
      /\ r = <<>> => len = Len(s)
      /\ s # <<>>
  BY <1>2, <1>3, <1>7, RestEnded DEF r
<1>9. k = k' + 1
  <2>1. CASE r # <<>>
    <3> DEFINE e == EndedAt(s[Len(s)])
    <3>1. k = e - h /\ k' = e - (h + 1)
      BY <1>6, <1>8, <2>1 DEF Ended
    <3>2. s[Len(s)].nr \in Nat
      BY <1>2, <1>7, ElementOfSeq, UnitType
    <3>3. e \in Int
      BY <3>2 DEF EndedAt
    <3> HIDE DEF e
    <3> QED  BY <1>3, <1>5, <3>1, <3>3
  <2>2. CASE r = <<>>
    <3>1. len = Len(s) /\ s[len].nr = h + 1
      BY <1>2, <1>7, <1>8, <2>2
    <3>2. k = (h + 1) - h /\ k' = 0
      BY <1>2, <1>6, <1>8, <2>2, <3>1 DEF Ended, EndedAt
    <3> QED  BY <1>3, <3>2
  <2> QED  BY <2>1, <2>2
<1>10. /\ Pending(c) # <<>> /\ Head(Pending(c)) = h + 1
       /\ Pending(c)' = Tail(Pending(c))
  <2> DEFINE m == k'
  <2>0. m \in Nat /\ k \in Nat /\ k = m + 1
    BY <1>3, <1>5, <1>9
  <2> HIDE DEF m
  <2>1. k > 0 /\ k - 1 = m
    BY <2>0
  <2>2. /\ After(h, k) # <<>> /\ Head(After(h, k)) = h + 1
        /\ Tail(After(h, k)) = After(h + 1, k - 1)
    BY <1>3, <2>1, AfterTail
  <2> QED  BY <1>3, <1>5, <2>1, <2>2 DEF m
<1>11. [d \in Conns |-> Pending(d)]' = [[d \in Conns |-> Pending(d)] EXCEPT ![c] = Tail(@)]
  BY <1>10, OneQueue
<1>12. handled' = [handled EXCEPT ![c] = Append(@, Head(Pending(c)))]
  <2>1. Conn = c
    <3>1. Conn \in Conns
      BY <1>1, SlotsType DEF TypeOK, TakePacket, Reading
    <3> QED  BY <3>1 DEF OneConnection
  <2>2. handled' = [handled EXCEPT ![c] = Append(@, ReadAs(sock[c]))]
    BY <2>1 DEF TakePacket
  <2>3. handled'[c] = Append(handled[c], ReadAs(sock[c]))
    BY <1>1, <2>2 DEF TypeOK
  <2> QED  BY <1>2, <1>10, <2>2, <2>3
<1> QED  BY <1>2, <1>10, <1>11, <1>12 DEF Chan!Receive

\* What had not arrived is lost, and it was behind what had.
LEMMA DisconnectedIsClose ==
  ASSUME OneConnection, Inv, Inv', NEW c \in Conns, Disconnected(c)
  PROVE  Chan!Close(c)
<1> DEFINE s == Stream(c)
           h == Len(handled[c])
           k == Left(c)
<1>1. TypeOK /\ Sound(c)
  BY DEF Inv
<1>2. c \in open /\ open' = open \ {c} /\ handled' = handled
      /\ Stream(c)' = sock[c]
  <2>1. sock'[c] = sock[c] /\ wire'[c] = <<>>
    BY <1>1 DEF Disconnected, TypeOK
  <2>2. Stream(c)' = sock[c]
    BY <1>1, <2>1, StreamType, ConcatEmptySeq DEF Stream
  <2> QED  BY <2>2 DEF Disconnected
<1>3. h \in Nat /\ k \in Nat /\ Pending(c) = After(h, k)
  BY PendingNow
<1>4. k' \in Nat /\ Pending(c)' = After(h, k')
  BY <1>2, PendingNext
<1>5. k = Ended(s, h) /\ k' = Ended(sock[c], h)
  BY <1>2 DEF Left
<1>6. /\ s \in Seq(Unit) /\ Len(s) \in Nat /\ Len(sock[c]) \in Nat
      /\ Len(s) >= Len(sock[c]) /\ \A i \in 1..Len(sock[c]) : s[i] = sock[c][i]
      /\ sock[c] \in Seq(Unit) /\ Chained(s)
      /\ s # <<>> => s[1].nr = h + 1
  BY <1>1, StreamType, StreamLonger DEF Sound, Standing
<1> DEFINE a == sock[c]
           l == Len(a)
<1> HIDE DEF s, h, k, a, l
<1>7. k' <= k
  <2>1. CASE a = <<>>
    BY <1>3, <1>5, <2>1 DEF Ended, a
  <2>2. CASE a # <<>>
    <3>1. l \in 1..Len(s) /\ Len(s) \in 1..Len(s) /\ l \in 1..l /\ s # <<>>
      BY <1>6, <2>2, EmptySeq DEF a, l
    <3>2. s[l] = a[l] /\ s[1].nr = h + 1
      BY <1>6, <3>1 DEF a, l
    <3>3. k' = EndedAt(s[l]) - h /\ k = EndedAt(s[Len(s)]) - h
      BY <1>5, <2>2, <3>1, <3>2 DEF Ended, a, l
    <3>4. k' = Cardinality(EndsUpTo(s, l)) /\ k = Cardinality(EndsUpTo(s, Len(s)))
      BY <1>3, <1>6, <3>1, <3>2, <3>3, EndsCounted
    <3>5. l \in Nat /\ l <= Len(s)
      BY <3>1
    <3> QED  BY <1>6, <3>4, <3>5, EndsFinite
  <2> QED  BY <2>1, <2>2
<1>8. k' \in 0..k /\ Pending(c)' = SubSeq(Pending(c), 1, k')
  BY <1>3, <1>4, <1>7, AfterPrefix
<1>9. Len(Pending(c)) = k
  BY <1>3, AfterProperties
<1> DEFINE n == k'
<1>10. n \in 0..Len(Pending(c)) /\ Pending(c)' = SubSeq(Pending(c), 1, n)
  BY <1>8, <1>9
<1> HIDE DEF n
<1>11. [d \in Conns |-> Pending(d)]' =
         [[d \in Conns |-> Pending(d)] EXCEPT ![c] = SubSeq(@, 1, n)]
  BY <1>10, OneQueue
<1>12. [d \in Conns |-> Pending(d)][c] = Pending(c)
  OBVIOUS
<1> QED  BY <1>2, <1>10, <1>11, <1>12 DEF Chan!Close

\* The pending messages of a connection and those handled are a channel
\* (Channel): each step of the framing sends, receives or closes there, or is
\* invisible; on a connection that has its packetSize to itself, for all
\* lengths, splits of the stream, nested event loops and closures.
THEOREM FramingIsAChannel ==
  ASSUME OneConnection
  PROVE  Spec => Chan!Init /\ [][Chan!Next]_Chan!chan
<1>1. Init => Chan!Init
  <2>1. ASSUME Init, NEW c \in Conns PROVE Pending(c) = <<>>
    <3>1. Stream(c) = <<>> /\ handled[c] = <<>>
      BY <2>1 DEF Init, Stream
    <3>2. /\ Inv
      BY <2>1, SoundInit
    <3>3. Left(c) = 0 /\ Len(handled[c]) = 0
      BY <3>1 DEF Left, Ended
    <3>4. Pending(c) = After(0, 0)
      BY <3>2, <3>3, PendingNow
    <3> QED  BY <3>4, AfterProperties, EmptySeq
  <2> QED  BY <2>1 DEF Init, Chan!Init
<1>2. Inv /\ Inv' /\ [Next]_vars => [Chan!Next]_Chan!chan
  <2> SUFFICES ASSUME Inv, Inv', [Next]_vars PROVE [Chan!Next]_Chan!chan
    OBVIOUS
  <2>0. ASSUME open' = open, handled' = handled, \A c \in Conns : Pending(c)' = Pending(c)
        PROVE  UNCHANGED Chan!chan
    BY <2>0 DEF Chan!chan
  <2>1. ASSUME NEW c \in Conns, NEW len \in Lengths, Send(c, len)
        PROVE  Chan!Next
    BY <2>1, SendIsSend DEF Chan!Next
  <2>2. ASSUME NEW c \in Conns, NEW n \in 1..Len(wire[c]), Arrive(c, n)
        PROVE  UNCHANGED Chan!chan
    <3>1. \A d \in Conns : Stream(d)' = Stream(d)
      BY <2>2, ArriveKeepsStream DEF Inv, OneConnection
    <3> QED  BY <2>0, <2>2, <3>1, StreamStays DEF Arrive
  <2>3. CASE ReadSize
    <3>1. \A c \in Conns : Pending(c)' = Pending(c)
      BY <2>3, ReadSizeIsNothing
    <3> QED  BY <2>0, <2>3, <3>1 DEF ReadSize
  <2>4. CASE TakePacket
    <3>1. Conn \in Conns
      BY <2>4, SlotsType DEF Inv, TypeOK, TakePacket, Reading
    <3>2. Chan!Receive(Conn)
      BY <2>4, <3>1, TakePacketIsReceive
    <3> QED  BY <3>1, <3>2 DEF Chan!Next
  <2>5. CASE HandlerReturns \/ SlotReturns \/ UNCHANGED vars
    <3>1. sock' = sock /\ wire' = wire /\ open' = open /\ handled' = handled
      BY <2>5 DEF HandlerReturns, SlotReturns, vars
    <3>2. \A c \in Conns : Stream(c)' = Stream(c)
      BY <3>1 DEF Stream
    <3> QED  BY <2>0, <3>1, <3>2, StreamStays
  <2>6. ASSUME NEW c \in Conns, Disconnected(c)
        PROVE  Chan!Next
    BY <2>6, DisconnectedIsClose DEF Chan!Next
  <2> QED  BY <2>1, <2>2, <2>3, <2>4, <2>5, <2>6 DEF Next
<1> QED  BY <1>1, <1>2, InvHolds, PTL DEF Spec

=============================================================================
