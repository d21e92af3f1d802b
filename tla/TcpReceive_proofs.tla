------------------------- MODULE TcpReceive_proofs -------------------------
(***************************************************************************)
(* What TcpReceive promises, for every window, stream and bound: the       *)
(* application gets the stream in order, the queue stays sorted, the       *)
(* assertions hold, the announced window is kept, acknowledgements are     *)
(* owed until they are sent, and the counts are those of ZPTCPConnection.  *)
(***************************************************************************)
EXTENDS TcpReceive, DataInduction

-----------------------------------------------------------------------------
(* The invariant                                                           *)

Segment == [seq : 0..StreamLen, data : Seq(0..(StreamLen - 1)), fin : BOOLEAN]

Pcb ==
    [nxt : 0..(StreamLen + 1), wnd : 0..WND, ann : 0..WND, edge : Nat,
     ooseq : Seq(Segment), refused : Seq(0..(StreamLen - 1)), fin : BOOLEAN,
     delay : BOOLEAN, now : BOOLEAN, closed : BOOLEAN, canRead : BOOLEAN,
     read : Seq(0..(StreamLen - 1)), eof : 0..1, acked : 0..(StreamLen + 1),
     failed : BOOLEAN]

\* A queue of segments that start at lo or later and end at or before right.
Queue(q, lo, right) ==
    /\ q \in Seq(Segment)
    /\ \A i \in 1..Len(q) :
          /\ SegmentOK(q[i]) /\ TCP_TCPLEN(q[i]) > 0
          /\ q[i].fin => i = Len(q)
          /\ lo <= q[i].seq /\ q[i].seq + TCP_TCPLEN(q[i]) <= right
    /\ \A i, j \in 1..Len(q) : i < j => SegEnd(q[i]) <= q[j].seq

\* AnnouncedIsFree of any pcb.
Free(p) ==
    /\ p.edge <= p.nxt + p.wnd
    /\ p.nxt + p.ann \in p.edge..(p.nxt + p.wnd)

\* AckOwed of any pcb.
OwedAck(p) == p.acked <= p.nxt /\ (p.acked < p.nxt => p.delay \/ p.now)

\* WindowOffered of any pcb that is not closed.
Offered(p) == p.nxt + p.wnd - p.edge < Max({MinUpd, Threshold})

\* What was delivered and what waits is the stream up to its end or rcv_nxt.
Delivered(p) ==
    p.read \o p.refused = Stream(0, IF p.closed THEN StreamLen ELSE p.nxt)

FinBit(p) == IF p.fin THEN 1 ELSE 0

\* The end of the stream waits behind refused data, or it was reported once; the
\* window is free but for what waits.
EndKept(p) ==
    /\ p.closed <=> p.nxt = StreamLen + 1
    /\ p.fin => p.closed /\ p.refused # <<>>
    /\ p.eof = 1 <=> p.closed /\ ~p.fin
    /\ p.eof = 1 => p.refused = <<>>
    /\ p.wnd + Len(p.refused) + FinBit(p) = WND

\* The invariant: the queue lies within the edge that the peer was told.
POK(p) ==
    /\ p \in Pcb
    /\ Free(p)
    /\ p.acked <= p.nxt
    /\ Delivered(p)
    /\ EndKept(p)
    /\ Queue(p.ooseq, p.nxt + 1, p.edge)
    /\ p.closed => p.ooseq = <<>>
    /\ ~p.failed

IInv == POK(pcb)

-----------------------------------------------------------------------------
(* Streams and segments                                                    *)

\* A part of the stream is a sequence of the numbers of its bytes.
LEMMA StreamSeq ==
    ASSUME NEW a \in Nat, NEW n \in Nat
    PROVE  /\ Stream(a, n) \in Seq(Nat)
           /\ Len(Stream(a, n)) = n
           /\ \A i \in 1..n : Stream(a, n)[i] = a + i - 1
           /\ a + n <= StreamLen => Stream(a, n) \in Seq(0..(StreamLen - 1))
<1>1. \A i \in 1..n : a + i - 1 \in Nat
  OBVIOUS
<1>2. a + n <= StreamLen => \A i \in 1..n : a + i - 1 \in 0..(StreamLen - 1)
  BY ReceiveAssumption
<1> QED
  BY <1>1, <1>2 DEF Stream

\* The beginning of a part of the stream, and the rest.
LEMMA StreamCut ==
    ASSUME NEW a \in Nat, NEW n \in Nat, NEW m \in 0..n
    PROVE  /\ SubSeq(Stream(a, n), 1, m) = Stream(a, m)
           /\ SubSeq(Stream(a, n), m + 1, n) = Stream(a + m, n - m)
<1> DEFINE x == Stream(a, n)
<1>0. m \in Nat /\ n - m \in Nat /\ a + m \in Nat /\ m <= n
  OBVIOUS
<1>1. x \in Seq(Nat) /\ Len(x) = n /\ \A i \in 1..n : x[i] = a + i - 1
  BY StreamSeq
<1>2. /\ Stream(a, m) \in Seq(Nat) /\ Len(Stream(a, m)) = m
      /\ \A i \in 1..m : Stream(a, m)[i] = a + i - 1
  BY <1>0, StreamSeq
<1>3. /\ Stream(a + m, n - m) \in Seq(Nat) /\ Len(Stream(a + m, n - m)) = n - m
      /\ \A i \in 1..(n - m) : Stream(a + m, n - m)[i] = a + m + i - 1
  <2> DEFINE u == a + m
             v == n - m
  <2>1. u \in Nat /\ v \in Nat
    BY <1>0
  <2> HIDE DEF u, v
  <2>2. /\ Stream(u, v) \in Seq(Nat) /\ Len(Stream(u, v)) = v
        /\ \A i \in 1..v : Stream(u, v)[i] = u + i - 1
    BY <2>1, StreamSeq
  <2> QED
    BY <2>2 DEF u, v
<1> HIDE DEF x
<1> DEFINE l == SubSeq(x, 1, m)
           r == SubSeq(x, m + 1, n)
<1>4. /\ l \in Seq(Nat) /\ Len(l) = m /\ \A i \in 1..m : l[i] = x[i]
  <2>1. /\ \A i \in 1..m : x[i] \in Nat
    BY <1>0, <1>1
  <2>2. l = [i \in 1..m |-> x[i]]
    BY <1>0, <1>1
  <2> QED
    BY <2>1, <2>2, <1>0
<1>5. /\ r \in Seq(Nat) /\ Len(r) = n - m /\ \A i \in 1..(n - m) : r[i] = x[m + i]
  <2>1. /\ \A i \in 1..(n - m) : x[m + i] \in Nat
    BY <1>0, <1>1
  <2>2. r = [i \in 1..(n - m) |-> x[m + i]]
    <3>1. r \in Seq(Nat) /\ Len(r) = n - m
      BY <1>0, <1>1
    <3>2. \A i \in 1..(n - m) : r[i] = x[m + i]
      BY <1>0, <1>1
    <3> QED
      BY <3>1, <3>2, <1>0
  <2> QED
    BY <2>1, <2>2, <1>0
<1> HIDE DEF l, r
<1>6. l = Stream(a, m)
  <2>1. \A i \in 1..m : l[i] = Stream(a, m)[i]
    BY <1>0, <1>1, <1>2, <1>4
  <2> QED
    BY <1>0, <1>2, <1>4, <2>1, SeqEqual
<1>7. r = Stream(a + m, n - m)
  <2>1. \A i \in 1..(n - m) : r[i] = Stream(a + m, n - m)[i]
    BY <1>0, <1>1, <1>3, <1>5
  <2> QED
    BY <1>0, <1>3, <1>5, <2>1, SeqEqual
<1> QED
  BY <1>6, <1>7 DEF l, r, x

\* Two parts that follow each other.
LEMMA StreamJoin ==
    ASSUME NEW a \in Nat, NEW m \in Nat, NEW n \in Nat
    PROVE  Stream(a, m) \o Stream(a + m, n) = Stream(a, m + n)
<1> DEFINE l == Stream(a, m)
           r == Stream(a + m, n)
           x == Stream(a, m + n)
<1>1. /\ l \in Seq(Nat) /\ Len(l) = m /\ \A i \in 1..m : l[i] = a + i - 1
      /\ r \in Seq(Nat) /\ Len(r) = n /\ \A i \in 1..n : r[i] = a + m + i - 1
      /\ x \in Seq(Nat) /\ Len(x) = m + n /\ \A i \in 1..(m + n) : x[i] = a + i - 1
  <2> DEFINE b == a + m
             k == m + n
  <2>1. b \in Nat /\ k \in Nat
    OBVIOUS
  <2> HIDE DEF b, k
  <2>2. /\ Stream(b, n) \in Seq(Nat) /\ Len(Stream(b, n)) = n
        /\ \A i \in 1..n : Stream(b, n)[i] = b + i - 1
    BY <2>1, StreamSeq
  <2>3. /\ Stream(a, k) \in Seq(Nat) /\ Len(Stream(a, k)) = k
        /\ \A i \in 1..k : Stream(a, k)[i] = a + i - 1
    BY <2>1, StreamSeq
  <2>4. /\ l \in Seq(Nat) /\ Len(l) = m /\ \A i \in 1..m : l[i] = a + i - 1
    BY StreamSeq
  <2> QED
    BY <2>2, <2>3, <2>4 DEF b, k
<1> HIDE DEF l, r, x
<1>2. /\ l \o r \in Seq(Nat) /\ Len(l \o r) = m + n
      /\ \A i \in 1..(m + n) : (l \o r)[i] = IF i <= m THEN l[i] ELSE r[i - m]
  BY <1>1, ConcatProperties, SMTT(30)
<1>3. \A i \in 1..(m + n) : (l \o r)[i] = x[i]
  BY <1>1, <1>2, SMTT(30)
<1>4. l \o r = x
  BY <1>1, <1>2, <1>3, SeqEqual
<1> QED
  BY <1>4 DEF l, r, x

\* A segment and its length.
LEMMA SegmentFacts ==
    ASSUME NEW s \in Segment, SegmentOK(s)
    PROVE  /\ s.seq \in Nat /\ s.seq <= StreamLen /\ s.fin \in BOOLEAN
           /\ Len(s.data) \in Nat /\ SegEnd(s) = s.seq + Len(s.data)
           /\ SegEnd(s) \in Nat /\ SegEnd(s) <= StreamLen
           /\ s.data = Stream(s.seq, Len(s.data))
           /\ TCP_TCPLEN(s) = Len(s.data) + (IF s.fin THEN 1 ELSE 0)
           /\ TCP_TCPLEN(s) \in Nat
           /\ s.fin => SegEnd(s) = StreamLen
<1>1. StreamLen \in Nat
  BY ReceiveAssumption
<1>2. Len(s.data) \in Nat
  BY LenProperties DEF Segment
<1> QED
  BY <1>1, <1>2 DEF Segment, SegmentOK, SegEnd, TCP_TCPLEN

\* A segment without a FIN that is cut at its end is the part before.
LEMMA CutRightOK ==
    ASSUME NEW s \in Segment, SegmentOK(s), NEW e \in Nat, s.seq <= e, e <= SegEnd(s)
    PROVE  LET c == CutRight(s, e)
           IN  /\ c \in Segment /\ c.seq = s.seq /\ c.fin = s.fin
               /\ c.data = Stream(s.seq, e - s.seq) /\ Len(c.data) = e - s.seq
               /\ SegEnd(c) = e /\ TCP_TCPLEN(c) = e - s.seq + (IF s.fin THEN 1 ELSE 0)
               /\ (s.fin => e = SegEnd(s)) => SegmentOK(c)
               /\ SegmentOK([c EXCEPT !.fin = FALSE])
               /\ [c EXCEPT !.fin = FALSE] \in Segment
<1> DEFINE c == CutRight(s, e)
           n == Len(s.data)
<1>1. /\ s.seq \in Nat /\ n \in Nat /\ SegEnd(s) = s.seq + n /\ s.data = Stream(s.seq, n)
      /\ SegEnd(s) <= StreamLen /\ StreamLen \in Nat
  BY SegmentFacts, ReceiveAssumption
<1>2. SubSeq(s.data, 1, e - s.seq) = Stream(s.seq, e - s.seq)
  <2>1. e - s.seq \in 0..n
    BY <1>1
  <2>2. SubSeq(Stream(s.seq, n), 1, e - s.seq) = Stream(s.seq, e - s.seq)
    BY <1>1, <2>1, StreamCut
  <2> QED
    BY <1>1, <2>2
<1>3. /\ Stream(s.seq, e - s.seq) \in Seq(0..(StreamLen - 1))
      /\ Len(Stream(s.seq, e - s.seq)) = e - s.seq
  <2>1. e - s.seq \in Nat /\ s.seq + (e - s.seq) <= StreamLen
    BY <1>1
  <2> QED
    BY <1>1, <2>1, StreamSeq
<1>4. /\ c \in Segment /\ c.seq = s.seq /\ c.fin = s.fin
      /\ c.data = Stream(s.seq, e - s.seq)
  BY <1>2, <1>3 DEF CutRight, Segment
<1> HIDE DEF c
<1>5. Len(c.data) = e - s.seq /\ SegEnd(c) = e
  BY <1>1, <1>3, <1>4 DEF SegEnd
<1>6. (s.fin => e = SegEnd(s)) => SegmentOK(c)
  BY <1>1, <1>4, <1>5 DEF SegmentOK, Segment
<1>7. SegmentOK([c EXCEPT !.fin = FALSE]) /\ [c EXCEPT !.fin = FALSE] \in Segment
  <2> DEFINE u == [c EXCEPT !.fin = FALSE]
  <2>1. u \in Segment /\ u.seq = c.seq /\ u.data = c.data /\ ~u.fin
    BY <1>4 DEF Segment
  <2> HIDE DEF u
  <2>2. SegmentOK(u)
    BY <1>1, <1>4, <1>5, <2>1 DEF SegmentOK, Segment, SegEnd
  <2> QED
    BY <2>1, <2>2 DEF u
<1> QED
  BY <1>1, <1>4, <1>5, <1>6, <1>7 DEF TCP_TCPLEN, c

\* A segment that is cut in front is the part behind.
LEMMA CutLeftOK ==
    ASSUME NEW s \in Segment, SegmentOK(s), NEW a \in Nat, s.seq <= a, a <= SegEnd(s)
    PROVE  LET c == CutLeft(s, a)
           IN  /\ c \in Segment /\ SegmentOK(c)
               /\ c.seq = a /\ c.fin = s.fin /\ SegEnd(c) = SegEnd(s)
               /\ c.seq + TCP_TCPLEN(c) = s.seq + TCP_TCPLEN(s)
<1> DEFINE c == CutLeft(s, a)
           n == Len(s.data)
<1>1. /\ s.seq \in Nat /\ n \in Nat /\ SegEnd(s) = s.seq + n /\ s.data = Stream(s.seq, n)
      /\ SegEnd(s) <= StreamLen /\ StreamLen \in Nat
      /\ s.fin => SegEnd(s) = StreamLen
  BY SegmentFacts, ReceiveAssumption
<1>2. SubSeq(s.data, a - s.seq + 1, n) = Stream(a, SegEnd(s) - a)
  <2>1. a - s.seq \in 0..n /\ s.seq + (a - s.seq) = a /\ n - (a - s.seq) = SegEnd(s) - a
    BY <1>1
  <2>2. SubSeq(Stream(s.seq, n), a - s.seq + 1, n) = Stream(s.seq + (a - s.seq), n - (a - s.seq))
    BY <1>1, <2>1, StreamCut
  <2> QED
    BY <1>1, <2>1, <2>2
<1>3. /\ Stream(a, SegEnd(s) - a) \in Seq(0..(StreamLen - 1))
      /\ Len(Stream(a, SegEnd(s) - a)) = SegEnd(s) - a
  <2>1. SegEnd(s) - a \in Nat /\ a + (SegEnd(s) - a) <= StreamLen
    BY <1>1
  <2> QED
    BY <1>1, <2>1, StreamSeq
<1>4. /\ c \in Segment /\ c.seq = a /\ c.fin = s.fin
      /\ c.data = Stream(a, SegEnd(s) - a)
  <2> DEFINE x == SubSeq(s.data, a - s.seq + 1, Len(s.data))
  <2>1. x = Stream(a, SegEnd(s) - a) /\ x \in Seq(0..(StreamLen - 1))
    BY <1>2, <1>3
  <2> HIDE DEF x
  <2>2. a \in 0..StreamLen
    BY <1>1
  <2>3. c = [s EXCEPT !.seq = a, !.data = x]
    BY DEF CutLeft, x
  <2> HIDE DEF c
  <2> QED
    BY <2>1, <2>2, <2>3 DEF Segment
<1> HIDE DEF c
<1>5. Len(c.data) = SegEnd(s) - a /\ SegEnd(c) = SegEnd(s)
  BY <1>1, <1>3, <1>4 DEF SegEnd
<1>6. SegmentOK(c)
  BY <1>1, <1>4, <1>5 DEF SegmentOK, Segment
<1>7. c.seq + TCP_TCPLEN(c) = s.seq + TCP_TCPLEN(s)
  <2> DEFINE d == IF s.fin THEN 1 ELSE 0
  <2>1. TCP_TCPLEN(s) = n + d /\ TCP_TCPLEN(c) = SegEnd(s) - a + d /\ d \in Int
    BY <1>4, <1>5 DEF TCP_TCPLEN
  <2> HIDE DEF d, n
  <2> QED
    BY <1>1, <1>4, <2>1
<1> QED
  BY <1>4, <1>5, <1>6, <1>7 DEF c

-----------------------------------------------------------------------------
(* The out-of-sequence queue                                               *)

\* The sequence number behind a segment.
Right(s) == s.seq + TCP_TCPLEN(s)

\* A queue is a sequence of segments.
LEMMA QueueSeq ==
    ASSUME NEW q, NEW lo, NEW right, Queue(q, lo, right)
    PROVE  q \in Seq(Segment) /\ Len(q) \in Nat
BY LenProperties DEF Queue

\* What a queue says of its segments.
LEMMA QueueFacts ==
    ASSUME NEW q, NEW lo, NEW right, Queue(q, lo, right), NEW i \in 1..Len(q)
    PROVE  /\ q[i] \in Segment /\ SegmentOK(q[i]) /\ TCP_TCPLEN(q[i]) > 0
           /\ q[i].fin => i = Len(q)
           /\ lo <= q[i].seq /\ Right(q[i]) <= right
           /\ q[i].seq \in Nat /\ SegEnd(q[i]) \in Nat /\ Right(q[i]) \in Nat
           /\ q[i].seq <= SegEnd(q[i]) /\ SegEnd(q[i]) <= Right(q[i])
           /\ i < Len(q) => q[i].seq < SegEnd(q[i]) /\ SegEnd(q[i]) = Right(q[i])
           /\ \A j \in 1..Len(q) : i < j => SegEnd(q[i]) <= q[j].seq
<1>1. q[i] \in Segment
  BY QueueSeq, ElementOfSeq
<1>2. /\ SegmentOK(q[i]) /\ TCP_TCPLEN(q[i]) > 0
      /\ q[i].fin => i = Len(q)
      /\ lo <= q[i].seq /\ Right(q[i]) <= right
      /\ \A j \in 1..Len(q) : i < j => SegEnd(q[i]) <= q[j].seq
  BY DEF Queue, Right
<1> DEFINE s == q[i]
           n == Len(s.data)
<1> HIDE DEF s
<1>3. /\ s.seq \in Nat /\ n \in Nat /\ SegEnd(s) = s.seq + n
      /\ TCP_TCPLEN(s) = n + (IF s.fin THEN 1 ELSE 0) /\ TCP_TCPLEN(s) \in Nat
  BY <1>1, <1>2, SegmentFacts DEF s
<1> HIDE DEF n
<1>4. /\ SegEnd(s) \in Nat /\ Right(s) \in Nat
      /\ s.seq <= SegEnd(s) /\ SegEnd(s) <= Right(s)
      /\ ~s.fin => SegEnd(s) = Right(s)
  BY <1>3 DEF Right
<1>5. i < Len(q) => ~s.fin
  BY <1>2, QueueSeq DEF s
<1>6. i < Len(q) => s.seq < SegEnd(s)
  BY <1>2, <1>3, <1>5 DEF s
<1> QED
  BY <1>1, <1>2, <1>3, <1>4, <1>5, <1>6 DEF s

\* A sequence of segments is a queue.
LEMMA QueueIs ==
    ASSUME NEW q, NEW lo, NEW right, q \in Seq(Segment),
           \A i \in 1..Len(q) :
              /\ SegmentOK(q[i]) /\ TCP_TCPLEN(q[i]) > 0
              /\ q[i].fin => i = Len(q)
              /\ lo <= q[i].seq /\ Right(q[i]) <= right,
           \A i, j \in 1..Len(q) : i < j => SegEnd(q[i]) <= q[j].seq
    PROVE  Queue(q, lo, right)
BY DEF Queue, Right

\* A queue lies within a larger window.
LEMMA QueueWider ==
    ASSUME NEW q, NEW lo, NEW right \in Nat, Queue(q, lo, right),
           NEW edge \in Nat, right <= edge
    PROVE  Queue(q, lo, edge)
<1>1. \A i \in 1..Len(q) : Right(q[i]) <= edge
  <2> TAKE i \in 1..Len(q)
  <2>1. Right(q[i]) \in Nat /\ Right(q[i]) <= right
    BY QueueFacts
  <2> QED
    BY <2>1
<1> QED
  BY <1>1 DEF Queue, Right

\* One segment is a queue.
LEMMA QueueOne ==
    ASSUME NEW s \in Segment, NEW lo, NEW right, SegmentOK(s), TCP_TCPLEN(s) > 0,
           lo <= s.seq, Right(s) <= right
    PROVE  Queue(<<s>>, lo, right) /\ Len(<<s>>) = 1 /\ <<s>>[1] = s
<1>1. <<s>> \in Seq(Segment) /\ Len(<<s>>) = 1 /\ <<s>>[1] = s
  OBVIOUS
<1>2. \A i \in 1..Len(<<s>>) : i = 1
  BY <1>1
<1>3. \A i, j \in 1..Len(<<s>>) : ~(i < j)
  BY <1>1
<1>4. Queue(<<s>>, lo, right)
  BY <1>1, <1>2, <1>3, QueueIs
<1> QED
  BY <1>1, <1>4

\* The first segments of a queue.
LEMMA QueueHead ==
    ASSUME NEW q, NEW lo, NEW right, Queue(q, lo, right), NEW n \in 0..Len(q)
    PROVE  LET h == SubSeq(q, 1, n)
           IN  /\ Queue(h, lo, right) /\ Len(h) = n
               /\ \A i \in 1..n : h[i] = q[i]
               /\ n < Len(q) => \A i \in 1..n : ~h[i].fin
<1> DEFINE h == SubSeq(q, 1, n)
<1>1. q \in Seq(Segment) /\ Len(q) \in Nat
  BY QueueSeq
<1>2. h \in Seq(Segment) /\ Len(h) = n /\ \A i \in 1..n : h[i] = q[i] /\ i \in 1..Len(q)
  BY <1>1
<1> HIDE DEF h
<1>3. n < Len(q) => \A i \in 1..n : ~h[i].fin
  BY <1>1, <1>2, QueueFacts, SMTT(30)
<1>4. \A i \in 1..Len(h) :
         /\ SegmentOK(h[i]) /\ TCP_TCPLEN(h[i]) > 0
         /\ h[i].fin => i = Len(h)
         /\ lo <= h[i].seq /\ Right(h[i]) <= right
  <2> TAKE i \in 1..Len(h)
  <2>1. i \in 1..Len(q) /\ h[i] = q[i]
    BY <1>2
  <2>2. /\ SegmentOK(h[i]) /\ TCP_TCPLEN(h[i]) > 0
        /\ lo <= h[i].seq /\ Right(h[i]) <= right
        /\ h[i].fin => i = Len(q)
    BY <2>1, QueueFacts
  <2> QED
    BY <1>1, <1>2, <2>2
<1>5. \A i, j \in 1..Len(h) : i < j => SegEnd(h[i]) <= h[j].seq
  BY <1>2, QueueFacts
<1> QED
  BY <1>2, <1>3, <1>4, <1>5, QueueIs DEF h

\* The segments of a queue behind the first n.
LEMMA QueueRest ==
    ASSUME NEW q, NEW lo, NEW right, Queue(q, lo, right), NEW n \in 0..Len(q),
           NEW low, \A i \in (n + 1)..Len(q) : low <= q[i].seq
    PROVE  LET r == SubSeq(q, n + 1, Len(q))
           IN  /\ Queue(r, low, right) /\ Len(r) = Len(q) - n
               /\ \A i \in 1..(Len(q) - n) : r[i] = q[n + i]
<1> DEFINE r == SubSeq(q, n + 1, Len(q))
<1>1. q \in Seq(Segment) /\ Len(q) \in Nat
  BY QueueSeq
<1>2. /\ r \in Seq(Segment) /\ Len(r) = Len(q) - n
      /\ \A i \in 1..Len(r) : r[i] = q[n + i] /\ n + i \in (n + 1)..Len(q)
  BY <1>1
<1> HIDE DEF r
<1>4. \A i \in 1..Len(r) :
         /\ SegmentOK(r[i]) /\ TCP_TCPLEN(r[i]) > 0
         /\ r[i].fin => i = Len(r)
         /\ low <= r[i].seq /\ Right(r[i]) <= right
  <2> TAKE i \in 1..Len(r)
  <2>1. n + i \in 1..Len(q) /\ r[i] = q[n + i] /\ low <= r[i].seq
    BY <1>2
  <2> DEFINE k == n + i
  <2> HIDE DEF k
  <2>2. k \in 1..Len(q) /\ r[i] = q[k]
    BY <2>1 DEF k
  <2>3. /\ SegmentOK(r[i]) /\ TCP_TCPLEN(r[i]) > 0
        /\ Right(r[i]) <= right
        /\ r[i].fin => k = Len(q)
    BY <2>2, QueueFacts
  <2> QED
    BY <1>1, <1>2, <2>1, <2>3 DEF k
<1>5. \A i, j \in 1..Len(r) : i < j => SegEnd(r[i]) <= r[j].seq
  <2> TAKE i, j \in 1..Len(r)
  <2> DEFINE k == n + i
             l == n + j
  <2>1. k \in 1..Len(q) /\ r[i] = q[k] /\ l \in 1..Len(q) /\ r[j] = q[l] /\ (i < j => k < l)
    BY <1>2
  <2> HIDE DEF k, l
  <2> QED
    BY <2>1, QueueFacts
<1> QED
  BY <1>1, <1>2, <1>4, <1>5, QueueIs DEF r

\* A queue without a FIN, and a queue behind it.
LEMMA QueueJoin ==
    ASSUME NEW a, NEW b, NEW lo, NEW mid, NEW right,
           Queue(a, lo, right), Queue(b, mid, right),
           lo \in Nat, mid \in Nat, lo <= mid,
           \A i \in 1..Len(a) : ~a[i].fin /\ SegEnd(a[i]) <= mid
    PROVE  Queue(a \o b, lo, right)
<1> DEFINE x == a \o b
           m == Len(a)
           n == Len(b)
<1>1. a \in Seq(Segment) /\ b \in Seq(Segment) /\ m \in Nat /\ n \in Nat
  BY QueueSeq
<1>2. /\ x \in Seq(Segment) /\ Len(x) = m + n
      /\ \A i \in 1..(m + n) : x[i] = IF i <= m THEN a[i] ELSE b[i - m]
  BY <1>1, ConcatProperties
<1> HIDE DEF x
<1>3. \A i \in 1..Len(x) :
         /\ SegmentOK(x[i]) /\ TCP_TCPLEN(x[i]) > 0
         /\ x[i].fin => i = Len(x)
         /\ lo <= x[i].seq /\ Right(x[i]) <= right
  <2> TAKE i \in 1..Len(x)
  <2>1. CASE i <= m
    <3>1. i \in 1..Len(a) /\ x[i] = a[i]
      BY <1>1, <1>2, <2>1
    <3> QED
      BY <3>1, QueueFacts
  <2>2. CASE i > m
    <3> DEFINE k == i - m
    <3>1. k \in 1..Len(b) /\ x[i] = b[k]
      BY <1>1, <1>2, <2>2
    <3> HIDE DEF k
    <3>2. /\ SegmentOK(b[k]) /\ TCP_TCPLEN(b[k]) > 0
          /\ b[k].fin => k = n
          /\ mid <= b[k].seq /\ b[k].seq \in Nat /\ Right(b[k]) <= right
      BY <3>1, QueueFacts
    <3>3. lo <= b[k].seq
      BY <3>2
    <3>4. k = n => i = Len(x)
      BY <1>1, <1>2 DEF k
    <3> QED
      BY <3>1, <3>2, <3>3, <3>4
  <2> QED
    BY <1>1, <1>2, <2>1, <2>2
<1>4. \A i, j \in 1..Len(x) : i < j => SegEnd(x[i]) <= x[j].seq
  <2> SUFFICES ASSUME NEW i \in 1..Len(x), NEW j \in 1..Len(x), i < j
               PROVE  SegEnd(x[i]) <= x[j].seq
    OBVIOUS
  <2>1. CASE j <= m
    <3>1. i \in 1..Len(a) /\ j \in 1..Len(a) /\ x[i] = a[i] /\ x[j] = a[j]
      BY <1>1, <1>2, <2>1
    <3> QED
      BY <3>1, QueueFacts
  <2>2. CASE i <= m /\ j > m
    <3> DEFINE l == j - m
    <3>1. i \in 1..Len(a) /\ l \in 1..Len(b) /\ x[i] = a[i] /\ x[j] = b[l]
      BY <1>1, <1>2, <2>2
    <3> HIDE DEF l
    <3>2. SegEnd(a[i]) \in Nat /\ SegEnd(a[i]) <= mid /\ mid <= b[l].seq /\ b[l].seq \in Nat
      BY <3>1, QueueFacts
    <3>3. SegEnd(a[i]) <= b[l].seq
      BY <3>2
    <3> QED
      BY <3>1, <3>3
  <2>3. CASE i > m
    <3> DEFINE k == i - m
               l == j - m
    <3>1. k \in 1..Len(b) /\ l \in 1..Len(b) /\ x[i] = b[k] /\ x[j] = b[l] /\ k < l
      BY <1>1, <1>2, <2>3
    <3> HIDE DEF k, l
    <3> QED
      BY <3>1, QueueFacts
  <2> QED
    BY <1>1, <1>2, <2>1, <2>2, <2>3
<1> QED
  BY <1>2, <1>3, <1>4, QueueIs DEF x

\* The segments that Covered counts are those at the head that end at end or before.
LEMMA CoveredOK ==
    ASSUME NEW q, NEW lo, NEW right, Queue(q, lo, right), NEW end \in Nat
    PROVE  LET n == Covered(q, end)
           IN  /\ n \in 0..Len(q)
               /\ \A i \in 1..n : SegEnd(q[i]) <= end
               /\ n < Len(q) => SegEnd(q[n + 1]) > end
<1> DEFINE I == {i \in 1..Len(q) : SegEnd(q[i]) > end}
           n == Covered(q, end)
<1>1. Len(q) \in Nat /\ \A i \in 1..Len(q) : SegEnd(q[i]) \in Nat
  BY QueueSeq, QueueFacts
<1>2. n = LET first == IF I # {} THEN Min(I) ELSE 0
          IN  IF first = 0 THEN Len(q) ELSE first - 1
  BY DEF Covered, SelectInSeq
<1> HIDE DEF n
<1>3. CASE I = {}
  <2>1. n = Len(q)
    BY <1>2, <1>3
  <2> HIDE DEF I
  <2>2. \A i \in 1..Len(q) : SegEnd(q[i]) <= end
    BY <1>1, <1>3 DEF I
  <2> QED
    BY <1>1, <2>1, <2>2 DEF n
<1>4. CASE I # {}
  <2>0. I \subseteq Nat
    BY <1>1
  <2>1. Min(I) \in I /\ \A k \in I : Min(I) <= k
    BY <1>4, <2>0, MinIsLeast
  <2> DEFINE m == Min(I)
  <2>2. m \in 1..Len(q) /\ SegEnd(q[m]) > end /\ n = m - 1
    BY <1>2, <1>4, <2>1
  <2>3. \A i \in 1..(m - 1) : i \in 1..Len(q) /\ i \notin I
    BY <1>1, <2>1, <2>2
  <2>4. \A i \in 1..n : SegEnd(q[i]) <= end
    BY <1>1, <2>2, <2>3
  <2> HIDE DEF I, m
  <2>5. n \in 0..Len(q) /\ n + 1 = m
    BY <1>1, <2>2
  <2> QED
    BY <2>2, <2>4, <2>5 DEF n
<1> QED
  BY <1>3, <1>4

\* A segment in front of a queue that it may overlap: the result is a queue that
\* starts where the segment does, whatever it covers.
LEMMA InsertOK ==
    ASSUME NEW c \in Segment, SegmentOK(c), TCP_TCPLEN(c) > 0,
           NEW q, NEW lo, NEW right \in Nat, Queue(q, lo, right), Right(c) <= right,
           \A i \in 1..Len(q) : /\ c.seq <= q[i].seq
                                /\ c.seq = q[i].seq => SegEnd(q[i]) <= SegEnd(c)
    PROVE  LET r == tcp_oos_insert_segment(c, q)
           IN  Queue(r, c.seq, right) /\ Len(r) \in Nat \ {0} /\ r[1].seq = c.seq
<1> DEFINE r == tcp_oos_insert_segment(c, q)
           n == Covered(q, SegEnd(c))
           merged == [c EXCEPT !.fin = \E i \in 1..n : q[i].fin]
           rest == SubSeq(q, n + 1, Len(q))
<1>0. /\ c.seq \in Nat /\ c.fin \in BOOLEAN /\ SegEnd(c) \in Nat /\ SegEnd(c) <= StreamLen
      /\ SegEnd(c) = c.seq + Len(c.data) /\ Len(c.data) \in Nat
  BY SegmentFacts
<1>1. /\ c.seq \in Nat /\ c.fin \in BOOLEAN /\ SegEnd(c) \in Nat /\ SegEnd(c) <= StreamLen
      /\ c.seq <= SegEnd(c) /\ SegEnd(c) = c.seq + Len(c.data) /\ Len(c.data) \in Nat
      /\ StreamLen \in Nat
  BY <1>0, ReceiveAssumption
<1>2. CASE c.fin
  <2>1. r = <<c>>
    BY <1>2 DEF tcp_oos_insert_segment
  <2>2. Queue(<<c>>, c.seq, right) /\ Len(<<c>>) = 1 /\ <<c>>[1] = c
    BY <1>1, QueueOne
  <2> QED
    BY <2>1, <2>2
<1>3. CASE ~c.fin
  <2>1. r = IF rest # <<>> /\ SegEnd(c) > rest[1].seq
            THEN <<CutRight(merged, rest[1].seq)>> \o rest
            ELSE <<merged>> \o rest
    BY <1>3 DEF tcp_oos_insert_segment
  <2> HIDE DEF r
  <2>2. /\ n \in 0..Len(q)
        /\ \A i \in 1..n : SegEnd(q[i]) <= SegEnd(c)
        /\ n < Len(q) => SegEnd(q[n + 1]) > SegEnd(c)
        /\ Len(q) \in Nat /\ q \in Seq(Segment)
    BY <1>1, CoveredOK, QueueSeq
  <2> HIDE DEF n
  <2>3. \A i \in (n + 1)..Len(q) : c.seq <= q[i].seq
    BY <2>2
  <2>4. /\ Queue(rest, c.seq, right) /\ Len(rest) = Len(q) - n
        /\ \A i \in 1..(Len(q) - n) : rest[i] = q[n + i]
    BY <2>2, <2>3, QueueRest
  <2> DEFINE b == \E i \in 1..n : q[i].fin
  <2>b. b \in BOOLEAN
    OBVIOUS
  <2>m. merged = [c EXCEPT !.fin = b]
    OBVIOUS
  <2> HIDE DEF b, merged
  <2>5. /\ merged \in Segment /\ merged.seq = c.seq /\ merged.data = c.data
        /\ merged.fin = b /\ merged.fin \in BOOLEAN
    BY <2>b, <2>m DEF Segment
  <2>6. SegEnd(merged) = SegEnd(c) /\ TCP_TCPLEN(merged) >= Len(c.data) /\ Len(c.data) > 0
    <3>1. SegEnd(merged) = SegEnd(c) /\ TCP_TCPLEN(c) = Len(c.data)
      BY <1>1, <1>3, <2>5 DEF SegEnd, TCP_TCPLEN
    <3>2. TCP_TCPLEN(merged) >= Len(c.data)
      <4>1. CASE merged.fin
        BY <1>1, <2>5, <4>1 DEF TCP_TCPLEN
      <4>2. CASE ~merged.fin
        BY <1>1, <2>5, <4>2 DEF TCP_TCPLEN
      <4> QED
        BY <4>1, <4>2
    <3>3. Len(c.data) > 0
      BY <3>1
    <3> QED
      BY <3>1, <3>2, <3>3
  <2>7. merged.fin =>
           n = Len(q) /\ SegEnd(c) = StreamLen /\ StreamLen + 1 <= right
    <3> SUFFICES ASSUME merged.fin
                 PROVE  n = Len(q) /\ SegEnd(c) = StreamLen /\ StreamLen + 1 <= right
      OBVIOUS
    <3>1. PICK i \in 1..n : q[i].fin
      BY <2>5 DEF b
    <3>2. i \in 1..Len(q)
      BY <2>2
    <3>3. i = Len(q) /\ q[i] \in Segment /\ SegmentOK(q[i]) /\ Right(q[i]) <= right
      BY <3>1, <3>2, QueueFacts
    <3>4. SegEnd(q[i]) = StreamLen
      BY <3>1, <3>3, SegmentFacts
    <3>5. Right(q[i]) = StreamLen + 1
      <4> DEFINE s == q[i]
      <4>1. s.seq \in Nat /\ Len(s.data) \in Nat /\ s.seq + Len(s.data) = StreamLen
        BY <3>3, <3>4, SegmentFacts
      <4>2. Right(s) = s.seq + (Len(s.data) + 1)
        BY <3>1 DEF Right, TCP_TCPLEN
      <4> QED
        BY <4>1, <4>2
    <3>6. SegEnd(q[i]) <= SegEnd(c)
      BY <2>2
    <3> QED
      BY <1>1, <2>2, <3>3, <3>4, <3>5, <3>6
  <2>8. SegmentOK(merged)
    BY <1>1, <2>5, <2>6, <2>7 DEF SegmentOK
  <2>9. TCP_TCPLEN(merged) > 0 /\ Right(merged) <= right
    <3>1. CASE merged.fin
      <4>1. Right(merged) = StreamLen + 1 /\ TCP_TCPLEN(merged) = Len(c.data) + 1
        <5>1. TCP_TCPLEN(merged) = Len(c.data) + 1
          BY <2>5, <3>1 DEF TCP_TCPLEN
        <5> QED
          BY <1>1, <2>5, <2>7, <3>1, <5>1 DEF Right
      <4> QED
        BY <1>1, <2>7, <3>1, <4>1
    <3>2. CASE ~merged.fin
      <4>1. TCP_TCPLEN(merged) = Len(c.data) /\ TCP_TCPLEN(c) = Len(c.data)
        BY <1>1, <1>3, <2>5, <3>2 DEF TCP_TCPLEN
      <4> QED
        BY <1>1, <2>5, <2>6, <4>1 DEF Right
    <3> QED
      BY <3>1, <3>2
  <2>10. CASE rest = <<>>
    <3>1. r = <<merged>>
      <4>1. <<merged>> \in Seq(Segment)
        BY <2>5
      <4>2. <<merged>> \o <<>> = <<merged>>
        BY <4>1, ConcatEmptySeq
      <4> QED
        BY <2>1, <2>10, <4>2
    <3>2. Queue(<<merged>>, c.seq, right) /\ Len(<<merged>>) = 1 /\ <<merged>>[1] = merged
      BY <1>1, <2>5, <2>8, <2>9, QueueOne
    <3> QED
      BY <2>5, <3>1, <3>2 DEF r
  <2>11. CASE rest # <<>>
    <3> DEFINE first == rest[1]
    <3>1. Len(rest) \in Nat \ {0} /\ rest \in Seq(Segment)
      BY <2>11, <2>4, QueueSeq, EmptySeq
    <3>2. n < Len(q) /\ first = q[n + 1] /\ n + 1 \in 1..Len(q)
      BY <2>2, <2>4, <3>1
    <3>r. rest[1] = first
      OBVIOUS
    <3> HIDE DEF first
    <3>3. c.seq < first.seq /\ first.seq \in Nat /\ ~merged.fin
      <4>1. c.seq <= first.seq /\ (c.seq = first.seq => SegEnd(first) <= SegEnd(c))
        BY <3>2
      <4>2. first.seq \in Nat /\ SegEnd(first) \in Nat /\ SegEnd(first) > SegEnd(c)
        BY <2>2, <3>2, QueueFacts
      <4> QED
        BY <1>1, <2>2, <2>7, <3>2, <4>1, <4>2
    <3>4. Queue(rest, first.seq, right)
      <4>1. \A i \in (n + 1)..Len(q) : first.seq <= q[i].seq
        <5> TAKE i \in (n + 1)..Len(q)
        <5>1. i \in 1..Len(q) /\ (n + 1 < i \/ n + 1 = i)
          BY <2>2
        <5>2. n + 1 < i => SegEnd(q[n + 1]) <= q[i].seq /\ q[n + 1].seq <= SegEnd(q[n + 1])
                           /\ SegEnd(q[n + 1]) \in Nat /\ q[i].seq \in Nat
          <6> DEFINE k == n + 1
          <6>1. k \in 1..Len(q)
            BY <3>2
          <6> HIDE DEF k
          <6>2. k < i => SegEnd(q[k]) <= q[i].seq /\ q[k].seq <= SegEnd(q[k])
                         /\ SegEnd(q[k]) \in Nat /\ q[i].seq \in Nat
            BY <5>1, <6>1, QueueFacts
          <6> QED
            BY <6>2 DEF k
        <5> QED
          BY <3>2, <3>3, <5>1, <5>2
      <4> QED
        BY <2>2, <4>1, QueueRest
    <3> DEFINE x == IF SegEnd(c) > first.seq THEN CutRight(merged, first.seq) ELSE merged
    <3>5. r = <<x>> \o rest
      BY <2>1, <2>11, <3>r
    <3>6. /\ x \in Segment /\ SegmentOK(x) /\ TCP_TCPLEN(x) > 0 /\ Right(x) <= right
          /\ x.seq = c.seq /\ ~x.fin /\ SegEnd(x) <= first.seq
      <4>1. CASE SegEnd(c) > first.seq
        <5>1. merged.seq <= first.seq /\ first.seq <= SegEnd(merged)
          BY <1>1, <2>5, <2>6, <3>3, <4>1
        <5>2. LET y == CutRight(merged, first.seq)
              IN  /\ y \in Segment /\ y.seq = merged.seq /\ y.fin = merged.fin
                  /\ SegEnd(y) = first.seq
                  /\ TCP_TCPLEN(y) = first.seq - merged.seq + (IF merged.fin THEN 1 ELSE 0)
                  /\ (merged.fin => first.seq = SegEnd(merged)) => SegmentOK(y)
          BY <2>5, <2>8, <3>3, <5>1, CutRightOK
        <5>3. x = CutRight(merged, first.seq)
          BY <4>1
        <5> HIDE DEF x
        <5>4. /\ x \in Segment /\ x.seq = c.seq /\ ~x.fin /\ SegEnd(x) = first.seq
              /\ TCP_TCPLEN(x) = first.seq - c.seq /\ SegmentOK(x)
          <6>1. /\ x \in Segment /\ x.seq = c.seq /\ x.fin = merged.fin
                /\ SegEnd(x) = first.seq
                /\ TCP_TCPLEN(x) = first.seq - c.seq + (IF merged.fin THEN 1 ELSE 0)
                /\ (merged.fin => first.seq = SegEnd(merged)) => SegmentOK(x)
            BY <2>5, <5>2, <5>3
          <6>2. (IF merged.fin THEN 1 ELSE 0) = 0
            BY <3>3
          <6> QED
            BY <1>1, <3>3, <6>1, <6>2
        <5>5. Right(x) = first.seq
          BY <1>1, <3>3, <5>4 DEF Right
        <5>6. first.seq <= right
          <6>1. first.seq <= Right(first) /\ Right(first) <= right /\ Right(first) \in Nat
            <7> DEFINE k == n + 1
            <7>1. k \in 1..Len(q)
              BY <3>2
            <7> HIDE DEF k
            <7>2. q[k].seq <= SegEnd(q[k]) /\ SegEnd(q[k]) <= Right(q[k]) /\ Right(q[k]) <= right
                  /\ q[k].seq \in Nat /\ SegEnd(q[k]) \in Nat /\ Right(q[k]) \in Nat
              BY <7>1, QueueFacts
            <7>3. q[k].seq <= Right(q[k])
              BY <7>2
            <7> QED
              BY <3>2, <7>2, <7>3 DEF k
          <6> QED
            BY <3>3, <6>1
        <5> QED
          BY <1>1, <3>3, <5>4, <5>5, <5>6
      <4>2. CASE ~(SegEnd(c) > first.seq)
        <5>1. x = merged
          BY <4>2
        <5> QED
          BY <1>1, <2>5, <2>6, <2>8, <2>9, <3>3, <4>2, <5>1
      <4> QED
        BY <4>1, <4>2
    <3> HIDE DEF x, rest, first
    <3>7. Queue(<<x>>, c.seq, right) /\ Len(<<x>>) = 1 /\ <<x>>[1] = x
      BY <1>1, <3>6, QueueOne
    <3>8. \A i \in 1..Len(<<x>>) : ~<<x>>[i].fin /\ SegEnd(<<x>>[i]) <= first.seq
      BY <3>6, <3>7
    <3>9. c.seq <= first.seq
      BY <1>1, <3>3
    <3>10. Queue(<<x>> \o rest, c.seq, right)
      BY <1>1, <3>3, <3>4, <3>7, <3>8, <3>9, QueueJoin
    <3>11. Len(<<x>> \o rest) = 1 + Len(rest) /\ (<<x>> \o rest)[1] = x
      BY <3>1, <3>6
    <3> QED
      BY <3>1, <3>5, <3>6, <3>10, <3>11 DEF r
  <2> QED
    BY <2>10, <2>11
<1> QED
  BY <1>1, <1>2, <1>3

\* The last segment of a queue without a FIN, trimmed to end before the new one.
LEMMA TrimLastOK ==
    ASSUME NEW q, NEW lo \in Nat, NEW right \in Nat, Queue(q, lo, right), NEW end \in Nat,
           \A i \in 1..Len(q) : q[i].seq < end /\ ~q[i].fin
    PROVE  LET r == TrimLast(q, end)
           IN  /\ Queue(r, lo, right)
               /\ \A i \in 1..Len(r) : ~r[i].fin /\ SegEnd(r[i]) <= end
<1> DEFINE r == TrimLast(q, end)
           n == Len(q)
           last == q[n]
<1>1. q \in Seq(Segment) /\ n \in Nat
  BY QueueSeq
<1>2. CASE q = <<>>
  <2>1. r = q /\ Len(r) = 0
    BY <1>2 DEF TrimLast
  <2>2. \A i \in 1..Len(r) : FALSE
    BY <2>1
  <2> QED
    BY <2>1, <2>2
<1>3. CASE q # <<>>
  <2>1. n \in Nat \ {0} /\ n \in 1..n
    BY <1>1, <1>3, EmptySeq
  <2>2. r = IF SegEnd(last) <= end THEN q
            ELSE Append(Front(q), CutRight(last, end))
    BY <1>3 DEF TrimLast, Last
  <2>3. \A i \in 1..n : i < n => SegEnd(q[i]) <= end
    <3> SUFFICES ASSUME NEW i \in 1..n, i < n
                 PROVE  SegEnd(q[i]) <= end
      OBVIOUS
    <3>1. SegEnd(q[i]) <= last.seq /\ SegEnd(q[i]) \in Nat /\ last.seq \in Nat
      BY <2>1, QueueFacts
    <3>2. last.seq < end
      BY <2>1
    <3> HIDE DEF last
    <3> QED
      BY <3>1, <3>2
  <2>4. CASE SegEnd(last) <= end
    <3>1. r = q
      BY <2>2, <2>4
    <3>2. \A i \in 1..n : SegEnd(q[i]) <= end
      BY <1>1, <2>3, <2>4
    <3> QED
      BY <3>1, <3>2
  <2>5. CASE ~(SegEnd(last) <= end)
    <3> DEFINE x == CutRight(last, end)
               front == SubSeq(q, 1, n - 1)
    <3>1. n - 1 \in 0..n /\ n - 1 \in Nat
      BY <2>1
    <3>2. /\ Queue(front, lo, right) /\ Len(front) = n - 1
          /\ \A i \in 1..(n - 1) : front[i] = q[i]
      BY <3>1, QueueHead
    <3>3. /\ last \in Segment /\ SegmentOK(last) /\ lo <= last.seq /\ last.seq \in Nat
          /\ SegEnd(last) \in Nat /\ SegEnd(last) <= Right(last) /\ Right(last) \in Nat
          /\ Right(last) <= right /\ last.seq < end /\ ~last.fin
          /\ \A i \in 1..(n - 1) : SegEnd(q[i]) <= last.seq
      BY <1>1, <2>1, QueueFacts
    <3>r. r = Append(Front(q), x)
      BY <2>2, <2>5
    <3>f. Front(q) = front
      BY DEF Front
    <3>4. last.seq <= end /\ end <= SegEnd(last)
      BY <2>5, <3>3
    <3> HIDE DEF last
    <3>5. /\ x \in Segment /\ x.seq = last.seq /\ x.fin = last.fin
          /\ SegEnd(x) = end /\ TCP_TCPLEN(x) = end - last.seq + (IF last.fin THEN 1 ELSE 0)
          /\ (last.fin => end = SegEnd(last)) => SegmentOK(x)
      BY <3>3, <3>4, CutRightOK
    <3> HIDE DEF x, front
    <3>6. TCP_TCPLEN(x) = end - last.seq
      <4>1. (IF last.fin THEN 1 ELSE 0) = 0
        BY <3>3
      <4> QED
        BY <3>3, <3>5, <4>1
    <3>7. SegmentOK(x) /\ ~x.fin /\ TCP_TCPLEN(x) > 0 /\ Right(x) = end /\ end <= right
      BY <2>5, <3>3, <3>5, <3>6 DEF Right
    <3>8. Queue(<<x>>, last.seq, right) /\ Len(<<x>>) = 1 /\ <<x>>[1] = x
      BY <3>3, <3>5, <3>7, QueueOne
    <3>9. \A i \in 1..Len(front) : ~front[i].fin /\ SegEnd(front[i]) <= last.seq
      BY <3>1, <3>2, <3>3
    <3>10. Queue(front \o <<x>>, lo, right)
      BY <3>2, <3>3, <3>8, <3>9, QueueJoin
    <3>11. front \in Seq(Segment)
      BY <3>2, QueueSeq
    <3>12. r = front \o <<x>>
      BY <3>r, <3>f, <3>5, <3>11, AppendIsConcat
    <3>13. /\ Len(r) = n /\ \A i \in 1..(n - 1) : r[i] = q[i]
           /\ r[n] = x
      BY <1>1, <2>1, <3>2, <3>5, <3>11, <3>r, <3>f
    <3> HIDE DEF r
    <3>14. \A i \in 1..Len(r) : ~r[i].fin /\ SegEnd(r[i]) <= end
      <4> TAKE i \in 1..Len(r)
      <4>1. CASE i = n
        BY <3>5, <3>7, <3>13, <4>1
      <4>2. CASE i # n
        <5>1. i \in 1..(n - 1) /\ i \in 1..n /\ i < n
          BY <1>1, <3>13, <4>2
        <5> QED
          BY <2>3, <3>13, <5>1
      <4> QED
        BY <4>1, <4>2
    <3> QED
      BY <3>10, <3>12, <3>14 DEF r
  <2> QED
    BY <2>4, <2>5
<1> QED
  BY <1>2, <1>3

\* A segment that starts in the window, cut to the window.
LEMMA CutToWindowOK ==
    ASSUME NEW s \in Segment, SegmentOK(s), TCP_TCPLEN(s) > 0,
           NEW right \in Nat, s.seq < right
    PROVE  LET c == CutToWindow(s, right)
           IN  /\ c \in Segment /\ SegmentOK(c) /\ TCP_TCPLEN(c) > 0
               /\ c.seq = s.seq /\ Right(c) <= right
               /\ Right(s) <= right => c = s
<1> DEFINE c == CutToWindow(s, right)
           n == Len(s.data)
           d == IF s.fin THEN 1 ELSE 0
<1>1. /\ s.seq \in Nat /\ n \in Nat /\ SegEnd(s) = s.seq + n /\ d \in 0..1
      /\ TCP_TCPLEN(s) = n + d /\ SegEnd(s) \in Nat
  <2>1. /\ s.seq \in Nat /\ n \in Nat /\ SegEnd(s) = s.seq + n
        /\ TCP_TCPLEN(s) = n + d /\ SegEnd(s) \in Nat
    BY SegmentFacts
  <2>2. d \in 0..1
    OBVIOUS
  <2> QED
    BY <2>1, <2>2
<1> HIDE DEF n, d
<1>2. CASE Right(s) > right
  <2> DEFINE u == CutRight(s, right)
  <2>1. c = [u EXCEPT !.fin = FALSE]
    BY <1>2 DEF CutToWindow, Right
  <2>2. s.seq <= right /\ right <= SegEnd(s)
    BY <1>1, <1>2 DEF Right
  <2>3. /\ u \in Segment /\ u.seq = s.seq /\ Len(u.data) = right - s.seq
        /\ SegmentOK([u EXCEPT !.fin = FALSE])
        /\ [u EXCEPT !.fin = FALSE] \in Segment
    BY <2>2, CutRightOK
  <2> HIDE DEF u, c
  <2>4. c.seq = s.seq /\ c.data = u.data /\ ~c.fin
    BY <2>1, <2>3 DEF Segment
  <2>5. TCP_TCPLEN(c) = right - s.seq
    BY <1>1, <2>3, <2>4 DEF TCP_TCPLEN
  <2>6. TCP_TCPLEN(c) > 0 /\ Right(c) = right
    BY <1>1, <2>4, <2>5 DEF Right
  <2>7. ~(Right(s) <= right)
    BY <1>1, <1>2 DEF Right
  <2> QED
    BY <2>1, <2>3, <2>4, <2>6, <2>7 DEF c
<1>3. CASE ~(Right(s) > right)
  <2>1. c = s
    BY <1>3 DEF CutToWindow, Right
  <2>2. Right(s) <= right
    BY <1>1, <1>3 DEF Right
  <2> QED
    BY <2>1, <2>2
<1> QED
  BY <1>2, <1>3

\* Whatever is put into a queue, overlaps and repeats: the result is a queue.
LEMMA EnqueueOK ==
    ASSUME NEW q, NEW lo \in Nat, NEW right \in Nat, Queue(q, lo, right),
           NEW s \in Segment, SegmentOK(s), TCP_TCPLEN(s) > 0,
           lo <= s.seq, Right(s) <= right, NEW window \in Nat, right <= window
    PROVE  Queue(Enqueue(q, s, window), lo, right)
<1> DEFINE r == Enqueue(q, s, window)
           I == {k \in 1..Len(q) : q[k].seq >= s.seq}
           i == SelectInSeq(q, LAMBDA o : o.seq >= s.seq)
           before == SubSeq(q, 1, i - 1)
           after == SubSeq(q, i, Len(q))
<1>0. /\ q \in Seq(Segment) /\ Len(q) \in Nat /\ s.seq \in Nat
      /\ Right(s) \in Nat /\ SegEnd(s) = s.seq + Len(s.data) /\ Len(s.data) \in Nat
      /\ \A k \in 1..Len(q) : q[k].seq \in Nat
  <2>1. /\ s.seq \in Nat /\ SegEnd(s) = s.seq + Len(s.data) /\ Len(s.data) \in Nat
        /\ TCP_TCPLEN(s) \in Nat
    BY SegmentFacts
  <2>2. Right(s) \in Nat
    BY <2>1 DEF Right
  <2>3. q \in Seq(Segment) /\ Len(q) \in Nat /\ \A k \in 1..Len(q) : q[k].seq \in Nat
    BY QueueSeq, QueueFacts
  <2> QED
    BY <2>1, <2>2, <2>3
<1>1. i = IF I # {} THEN Min(I) ELSE 0
  BY DEF SelectInSeq
<1>2. r = CASE q = <<>> -> <<s>>
            [] i = 0 /\ q # <<>> ->
                IF Last(q).fin THEN q
                ELSE Append(TrimLast(q, s.seq), CutToWindow(s, window))
            [] i > 0 ->
                IF q[i].seq > s.seq
                THEN TrimLast(before, s.seq) \o tcp_oos_insert_segment(s, after)
                ELSE IF Len(s.data) > Len(q[i].data)
                     THEN before \o tcp_oos_insert_segment(s, after)
                     ELSE q
  BY DEF Enqueue
<1> HIDE DEF r, i
<1>3. \/ i = 0 /\ I = {}
      \/ i \in 1..Len(q) /\ q[i].seq >= s.seq /\ \A k \in 1..(i - 1) : q[k].seq < s.seq
  <2>1. CASE I = {}
    BY <1>1, <2>1
  <2>2. CASE I # {}
    <3>1. I \subseteq Nat
      BY <1>0
    <3>2. i \in I /\ \A k \in I : i <= k
      BY <1>1, <2>2, <3>1, MinIsLeast
    <3>3. \A k \in 1..(i - 1) : k \in 1..Len(q) /\ k \notin I
      BY <1>0, <3>2
    <3> QED
      BY <1>0, <3>2, <3>3
  <2> QED
    BY <2>1, <2>2
<1>4. CASE q = <<>>
  <2>1. r = <<s>>
    <3>1. Len(q) = 0 /\ ~(i \in 1..Len(q))
      BY <1>4
    <3>2. i = 0
      BY <1>3, <3>1
    <3> QED
      BY <1>2, <1>4, <3>2
  <2> QED
    BY <2>1, QueueOne DEF r
<1>5. CASE q # <<>> /\ i = 0
  <2>1. I = {}
    BY <1>3, <1>5
  <2>2. r = IF Last(q).fin THEN q ELSE Append(TrimLast(q, s.seq), CutToWindow(s, window))
    BY <1>2, <1>5
  <2>3. CASE Last(q).fin
    BY <2>2, <2>3 DEF r
  <2>4. CASE ~Last(q).fin
    <3> DEFINE t == TrimLast(q, s.seq)
    <3>1. \A k \in 1..Len(q) : q[k].seq < s.seq /\ ~q[k].fin
      <4> TAKE k \in 1..Len(q)
      <4>1. k \notin I
        BY <2>1
      <4>2. q[k].seq < s.seq
        BY <1>0, <4>1
      <4>3. q[k].fin => k = Len(q)
        BY QueueFacts
      <4> QED
        BY <2>4, <4>2, <4>3 DEF Last
    <3>2. Queue(t, lo, right) /\ \A k \in 1..Len(t) : ~t[k].fin /\ SegEnd(t[k]) <= s.seq
      BY <1>0, <3>1, TrimLastOK
    <3>3. CutToWindow(s, window) = s
      <4>1. s.seq < window /\ Right(s) <= window
        <5>1. TCP_TCPLEN(s) \in Nat
          BY SegmentFacts
        <5> QED
          BY <1>0, <5>1 DEF Right
      <4> QED
        BY <4>1, CutToWindowOK
    <3>4. Queue(<<s>>, s.seq, right)
      BY <1>0, QueueOne
    <3> HIDE DEF t
    <3>5. Queue(t \o <<s>>, lo, right)
      BY <1>0, <3>2, <3>4, QueueJoin
    <3>6. t \in Seq(Segment)
      BY <3>2, QueueSeq
    <3>7. r = t \o <<s>>
      BY <2>2, <2>4, <3>3, <3>6, AppendIsConcat DEF t
    <3> QED
      BY <3>5, <3>7 DEF r
  <2> QED
    BY <2>3, <2>4
<1>6. CASE q # <<>> /\ i # 0
  <2>1. i \in 1..Len(q) /\ i > 0 /\ q[i].seq >= s.seq /\ \A k \in 1..(i - 1) : q[k].seq < s.seq
    BY <1>0, <1>3, <1>6
  <2>2. r = IF q[i].seq > s.seq
            THEN TrimLast(before, s.seq) \o tcp_oos_insert_segment(s, after)
            ELSE IF Len(s.data) > Len(q[i].data)
                 THEN before \o tcp_oos_insert_segment(s, after)
                 ELSE q
    BY <1>2, <1>6, <2>1
  <2> DEFINE m == i - 1
  <2>3. m \in 0..Len(q) /\ m < Len(q) /\ m + 1 = i
    BY <1>0, <2>1
  <2> HIDE DEF m
  <2>4. /\ Queue(SubSeq(q, 1, m), lo, right) /\ Len(SubSeq(q, 1, m)) = m
        /\ \A k \in 1..m : SubSeq(q, 1, m)[k] = q[k] /\ ~SubSeq(q, 1, m)[k].fin
    BY <2>3, QueueHead
  <2>5. /\ Queue(before, lo, right) /\ Len(before) = m
        /\ \A k \in 1..m : before[k] = q[k] /\ ~before[k].fin
    BY <2>4 DEF m
  <2>6. \A k \in i..Len(q) : s.seq <= q[k].seq /\ (i < k => s.seq < q[k].seq)
    <3> TAKE k \in i..Len(q)
    <3>1. k \in 1..Len(q) /\ (i < k \/ i = k)
      BY <1>0, <2>1
    <3>2. CASE i < k
      <4>1. /\ SegEnd(q[i]) <= q[k].seq /\ q[i].seq < SegEnd(q[i])
            /\ SegEnd(q[i]) \in Nat /\ q[k].seq \in Nat /\ q[i].seq \in Nat
        <5>1. i < Len(q)
          BY <1>0, <2>1, <3>1, <3>2
        <5> QED
          BY <2>1, <3>1, <3>2, <5>1, QueueFacts
      <4> QED
        BY <1>0, <2>1, <4>1
    <3>3. CASE i = k
      BY <1>0, <2>1, <3>3
    <3> QED
      BY <3>1, <3>2, <3>3
  <2>7. /\ Queue(after, s.seq, right) /\ Len(after) = Len(q) - m
        /\ \A k \in 1..(Len(q) - m) : after[k] = q[m + k]
    <3>1. \A k \in (m + 1)..Len(q) : s.seq <= q[k].seq
      BY <2>3, <2>6
    <3>2. /\ Queue(SubSeq(q, m + 1, Len(q)), s.seq, right)
          /\ Len(SubSeq(q, m + 1, Len(q))) = Len(q) - m
          /\ \A k \in 1..(Len(q) - m) : SubSeq(q, m + 1, Len(q))[k] = q[m + k]
      BY <2>3, <3>1, QueueRest
    <3> QED
      BY <2>3, <3>2
  <2> DEFINE x == tcp_oos_insert_segment(s, after)
  <2>8. (q[i].seq = s.seq => Len(s.data) > Len(q[i].data)) => Queue(x, s.seq, right)
    <3> SUFFICES ASSUME q[i].seq = s.seq => Len(s.data) > Len(q[i].data)
                 PROVE  Queue(x, s.seq, right)
      OBVIOUS
    <3>1. \A k \in 1..Len(after) : /\ s.seq <= after[k].seq
                                   /\ s.seq = after[k].seq => SegEnd(after[k]) <= SegEnd(s)
      <4> TAKE k \in 1..Len(after)
      <4>1. after[k] = q[m + k] /\ m + k \in i..Len(q) /\ (i < m + k \/ i = m + k)
        BY <1>0, <2>1, <2>3, <2>7, SMTT(30)
      <4>2. s.seq <= after[k].seq /\ (i < m + k => s.seq < after[k].seq)
        BY <2>6, <4>1
      <4>3. i = m + k /\ s.seq = after[k].seq => SegEnd(after[k]) <= SegEnd(s)
        <5> SUFFICES ASSUME i = m + k, s.seq = after[k].seq
                     PROVE  SegEnd(after[k]) <= SegEnd(s)
          OBVIOUS
        <5>1. after[k] = q[i] /\ Len(s.data) > Len(q[i].data)
          BY <4>1
        <5>2. SegEnd(q[i]) = s.seq + Len(q[i].data) /\ Len(q[i].data) \in Nat
          <6>1. q[i] \in Segment /\ SegmentOK(q[i])
            BY <2>1, QueueFacts
          <6>2. q[i].seq = s.seq
            BY <5>1
          <6> QED
            BY <6>1, <6>2, SegmentFacts
        <5>3. SegEnd(q[i]) <= SegEnd(s)
          <6> DEFINE v == Len(q[i].data)
                     w == Len(s.data)
          <6>1. /\ SegEnd(q[i]) = s.seq + v /\ v \in Nat /\ w > v
                /\ SegEnd(s) = s.seq + w /\ w \in Nat /\ s.seq \in Nat
            BY <1>0, <5>1, <5>2
          <6> HIDE DEF v, w
          <6> QED
            BY <6>1
        <5> QED
          BY <5>1, <5>3
      <4>4. i < m + k => ~(s.seq = after[k].seq)
        <5> DEFINE e == after[k]
        <5>1. i < m + k => s.seq < e.seq
          BY <4>2
        <5>2. e.seq = q[m + k].seq /\ m + k \in 1..Len(q)
          BY <1>0, <2>1, <4>1
        <5>3. e.seq \in Nat
          BY <1>0, <5>2
        <5> HIDE DEF e
        <5>4. i < m + k => ~(s.seq = e.seq)
          BY <1>0, <5>1, <5>3
        <5> QED
          BY <5>4 DEF e
      <4> QED
        BY <4>1, <4>2, <4>3, <4>4
    <3> HIDE DEF after
    <3> QED
      BY <2>7, <3>1, InsertOK
  <2> HIDE DEF x, before, after
  <2>9. CASE q[i].seq > s.seq
    <3> DEFINE t == TrimLast(before, s.seq)
    <3>1. r = t \o x
      BY <2>2, <2>9 DEF x
    <3>2. \A k \in 1..Len(before) : before[k].seq < s.seq /\ ~before[k].fin
      BY <2>1, <2>3, <2>5 DEF m
    <3>3. Queue(t, lo, right) /\ \A k \in 1..Len(t) : ~t[k].fin /\ SegEnd(t[k]) <= s.seq
      BY <1>0, <2>5, <3>2, TrimLastOK
    <3> HIDE DEF t
    <3>4. Queue(x, s.seq, right)
      BY <1>0, <2>1, <2>8, <2>9
    <3>5. Queue(t \o x, lo, right)
      BY <1>0, <3>3, <3>4, QueueJoin
    <3> QED
      BY <3>1, <3>5 DEF r
  <2>10. CASE ~(q[i].seq > s.seq) /\ Len(s.data) > Len(q[i].data)
    <3>1. r = before \o x
      BY <2>2, <2>10 DEF x
    <3>2. q[i].seq = s.seq
      BY <1>0, <2>1, <2>10
    <3>3. \A k \in 1..Len(before) : ~before[k].fin /\ SegEnd(before[k]) <= s.seq
      <4> TAKE k \in 1..Len(before)
      <4>1. k \in 1..Len(q) /\ k < i /\ before[k] = q[k] /\ ~before[k].fin
        BY <1>0, <2>1, <2>3, <2>5
      <4>2. SegEnd(q[k]) <= q[i].seq
        BY <2>1, <4>1, QueueFacts
      <4> QED
        BY <3>2, <4>1, <4>2
    <3>4. Queue(x, s.seq, right)
      BY <2>8, <2>10
    <3>5. Queue(before \o x, lo, right)
      BY <1>0, <2>5, <3>3, <3>4, QueueJoin
    <3> QED
      BY <3>1, <3>5 DEF r
  <2>11. CASE ~(q[i].seq > s.seq) /\ ~(Len(s.data) > Len(q[i].data))
    BY <2>2, <2>11 DEF r
  <2> QED
    BY <2>9, <2>10, <2>11
<1> QED
  BY <1>4, <1>5, <1>6

\* How far a queue goes without a gap.
LEMMA ContiguousOK ==
    ASSUME NEW q, NEW lo, NEW right, Queue(q, lo, right), Len(q) > 0
    PROVE  LET n == Contiguous(q)
           IN  /\ n \in 1..Len(q)
               /\ \A i \in 2..n : q[i].seq = Right(q[i - 1])
               /\ n < Len(q) => Right(q[n]) < q[n + 1].seq
<1> DEFINE T == {n \in 1..Len(q) :
                    \A i \in 2..n : q[i].seq = q[i - 1].seq + TCP_TCPLEN(q[i - 1])}
           n == Contiguous(q)
<1>0. Len(q) \in Nat
  BY QueueSeq
<1>1. T \subseteq Int /\ \A k \in T : k <= Len(q)
  BY <1>0
<1>2. 1 \in T
  BY <1>0
<1>3. n = Max(T)
  BY DEF Contiguous
<1> HIDE DEF n
<1>4. n \in T /\ \A k \in T : k <= n
  <2>1. T # {}
    BY <1>2
  <2>2. Len(q) \in Int
    BY <1>0
  <2> HIDE DEF T
  <2> QED
    BY <1>1, <1>3, <2>1, <2>2, MaxIsGreatest
<1>5. n \in 1..Len(q) /\ \A i \in 2..n : q[i].seq = Right(q[i - 1])
  BY <1>4 DEF Right
<1>6. n < Len(q) => Right(q[n]) < q[n + 1].seq
  <2> SUFFICES ASSUME n < Len(q)
               PROVE  Right(q[n]) < q[n + 1].seq
    OBVIOUS
  <2> DEFINE m == n + 1
  <2>1. m \in 1..Len(q) /\ m \notin T /\ n < m
    <3>1. ~(n + 1 <= n)
      BY <1>5
    <3>2. n + 1 \in 1..Len(q)
      BY <1>0, <1>5
    <3> HIDE DEF T
    <3> QED
      BY <1>4, <1>5, <3>1, <3>2
  <2>2. q[m].seq # Right(q[n])
    <3>1. PICK i \in 2..m : q[i].seq # q[i - 1].seq + TCP_TCPLEN(q[i - 1])
      BY <2>1
    <3>2. i = n + 1
      BY <1>5, <3>1 DEF Right
    <3> QED
      BY <1>5, <3>1, <3>2 DEF Right
  <2> HIDE DEF m, T
  <2>3. /\ SegEnd(q[n]) <= q[m].seq /\ SegEnd(q[n]) = Right(q[n])
        /\ Right(q[n]) \in Nat /\ q[m].seq \in Nat
    BY <1>5, <2>1, QueueFacts
  <2>4. Right(q[n]) < q[m].seq
    BY <2>2, <2>3
  <2> QED
    BY <2>4 DEF m
<1> QED
  BY <1>5, <1>6 DEF n

\* A function that joins the texts of d one after the other ends with all of them.
LEMMA FlattenIs ==
    ASSUME NEW d, NEW n \in Nat \ {0}, NEW g, Len(d) = n,
           g[1] = d[1], \A i \in 2..n : g[i] = g[i - 1] \o d[i]
    PROVE  FlattenSeq(d) = g[n]
<1> DEFINE f == CHOOSE f : f = [i \in 1..n |-> IF i = 1 THEN d[i] ELSE f[i - 1] \o d[i]]
<1>1. FlattenSeq(d) = f[n]
  BY ZenonT(60) DEF FlattenSeq
<1>2. f = [i \in 1..n |-> IF i = 1 THEN d[i] ELSE f[i - 1] \o d[i]]
  <2> DEFINE h == [i \in 1..n |-> g[i]]
             k == [i \in 1..n |-> IF i = 1 THEN d[i] ELSE h[i - 1] \o d[i]]
  <2>1. \A i \in 1..n : g[i] = IF i = 1 THEN d[i] ELSE h[i - 1] \o d[i]
    <3> SUFFICES ASSUME NEW i \in 1..n
                 PROVE  g[i] = IF i = 1 THEN d[i] ELSE h[i - 1] \o d[i]
      OBVIOUS
    <3>1. i # 1 => i \in 2..n /\ h[i - 1] = g[i - 1]
      OBVIOUS
    <3> QED
      BY <3>1
  <2>2. h = k
    BY <2>1
  <2> HIDE DEF h
  <2> QED
    BY <2>2, Zenon
<1> HIDE DEF f
<1> DEFINE T == {i \in 1..n : f[i] = g[i]}
<1>3. 1 \in T
  <2>1. 1 \in 1..n
    OBVIOUS
  <2>2. f[1] = d[1]
    BY <1>2, <2>1
  <2>3. g[1] = d[1]
    BY <2>1
  <2> QED
    BY <2>1, <2>2, <2>3
<1>4. \A i \in 1..(n - 1) : i \in T => i + 1 \in T
  <2> SUFFICES ASSUME NEW i \in 1..(n - 1), i \in T
               PROVE  i + 1 \in T
    OBVIOUS
  <2> DEFINE k == i + 1
  <2>1. k \in 1..n /\ k # 1 /\ k - 1 = i
    OBVIOUS
  <2> HIDE DEF k
  <2>2. f[k] = f[k - 1] \o d[k]
    BY <1>2, <2>1
  <2>3. g[k] = g[k - 1] \o d[k]
    <3>1. k \in 2..n
      BY <2>1
    <3> QED
      BY <3>1
  <2>4. f[k] = g[k]
    BY <2>1, <2>2, <2>3
  <2> QED
    BY <2>1, <2>4 DEF k
<1>5. 1..n \subseteq T
  <2>1. 1 \in Int /\ n \in Int
    OBVIOUS
  <2> HIDE DEF T
  <2> QED
    BY <1>3, <1>4, <2>1, IntervalInduction
<1>6. n \in 1..n
  OBVIOUS
<1> QED
  BY <1>1, <1>5, <1>6

\* The text of segments that follow each other is the part of the stream that
\* they cover.
LEMMA FlattenStream ==
    ASSUME NEW q, NEW lo, NEW right, Queue(q, lo, right), NEW n \in 1..Len(q),
           \A i \in 2..n : q[i].seq = Right(q[i - 1])
    PROVE  /\ FlattenSeq([i \in 1..n |-> q[i].data])
                 = Stream(q[1].seq, SegEnd(q[n]) - q[1].seq)
           /\ q[1].seq <= SegEnd(q[n])
<1> DEFINE d == [i \in 1..n |-> q[i].data]
           a == q[1].seq
           g == [i \in 1..n |-> Stream(a, SegEnd(q[i]) - a)]
<1>0. Len(q) \in Nat /\ n \in Nat \ {0} /\ 1 \in 1..Len(q)
  BY QueueSeq
<1>1. Len(d) = n
  BY <1>0
<1>2. \A i \in 1..n : /\ i \in 1..Len(q) /\ q[i].seq \in Nat /\ SegEnd(q[i]) \in Nat
                      /\ q[i].seq <= SegEnd(q[i])
                      /\ q[i].data = Stream(q[i].seq, SegEnd(q[i]) - q[i].seq)
  <2> TAKE i \in 1..n
  <2>1. i \in 1..Len(q)
    BY <1>0
  <2>2. /\ q[i] \in Segment /\ SegmentOK(q[i]) /\ q[i].seq \in Nat /\ SegEnd(q[i]) \in Nat
        /\ q[i].seq <= SegEnd(q[i])
    BY <2>1, QueueFacts
  <2>3. Len(q[i].data) \in Nat /\ SegEnd(q[i]) = q[i].seq + Len(q[i].data)
        /\ q[i].data = Stream(q[i].seq, Len(q[i].data))
    BY <2>2, SegmentFacts
  <2>4. Len(q[i].data) = SegEnd(q[i]) - q[i].seq
    <3> DEFINE v == Len(q[i].data)
               u == q[i].seq
    <3>1. v \in Nat /\ u \in Nat /\ SegEnd(q[i]) = u + v
      BY <2>2, <2>3
    <3> HIDE DEF u, v
    <3>2. v = SegEnd(q[i]) - u
      BY <3>1
    <3> QED
      BY <3>2 DEF u, v
  <2> QED
    BY <2>1, <2>2, <2>3, <2>4
<1>3. a \in Nat /\ \A i \in 1..n : a <= q[i].seq
  <2>1. a \in Nat /\ a <= SegEnd(q[1]) /\ SegEnd(q[1]) \in Nat
    BY <1>0, QueueFacts
  <2> SUFFICES ASSUME NEW i \in 1..n
               PROVE  a <= q[i].seq
    BY <2>1
  <2>2. CASE i = 1
    BY <2>1, <2>2
  <2>3. CASE i # 1
    <3>1. SegEnd(q[1]) <= q[i].seq
      <4>1. 1 < i
        BY <2>3
      <4> QED
        BY <1>0, <1>2, <4>1, QueueFacts
    <3> HIDE DEF a
    <3> QED
      BY <1>2, <2>1, <3>1
  <2> QED
    BY <2>2, <2>3
<1>4. \A i \in 2..n : g[i] = g[i - 1] \o d[i]
  <2> SUFFICES ASSUME NEW i \in 2..n
               PROVE  g[i] = g[i - 1] \o d[i]
    OBVIOUS
  <2> DEFINE j == i - 1
             b == q[i].seq
             c == SegEnd(q[i])
  <2>1. j \in 1..n /\ i \in 1..n /\ j < Len(q) /\ j \in 1..Len(q) /\ i \in 1..Len(q)
    BY <1>0
  <2>2. SegEnd(q[j]) = b
    <3> HIDE DEF j
    <3>1. SegEnd(q[j]) = Right(q[j])
      BY <2>1, QueueFacts
    <3>2. b = Right(q[i - 1])
      BY <2>1
    <3> QED
      BY <3>1, <3>2 DEF j
  <2>3. g[j] = Stream(a, b - a) /\ g[i] = Stream(a, c - a) /\ d[i] = Stream(b, c - b)
    BY <1>2, <2>1, <2>2
  <2>4. a \in Nat /\ b \in Nat /\ c \in Nat /\ a <= b /\ b <= c
    BY <1>2, <1>3
  <2> HIDE DEF a, b, c, d, g
  <2> DEFINE u == b - a
             v == c - b
  <2>5. u \in Nat /\ v \in Nat /\ a + u = b /\ u + v = c - a
    BY <2>4
  <2>6. Stream(a, u) \o Stream(a + u, v) = Stream(a, u + v)
    <3> HIDE DEF u, v
    <3> QED
      BY <2>4, <2>5, StreamJoin
  <2> QED
    BY <2>3, <2>5, <2>6
<1>5. g[1] = d[1]
  BY <1>0, <1>2
<1>7. FlattenSeq(d) = g[n]
  <2> HIDE DEF d, g, a
  <2>1. n \in Nat \ {0} /\ Len(d) = n
    BY <1>0, <1>1
  <2>2. \A i \in 2..n : g[i] = g[i - 1] \o d[i]
    BY <1>4
  <2>3. g[1] = d[1]
    BY <1>5
  <2> QED
    BY <2>1, <2>2, <2>3, FlattenIs
<1>8. g[n] = Stream(a, SegEnd(q[n]) - a)
  BY <1>0
<1>9. a <= SegEnd(q[n])
  <2>1. n \in 1..n
    BY <1>0
  <2>2. a <= q[n].seq /\ q[n].seq <= SegEnd(q[n]) /\ q[n].seq \in Nat /\ SegEnd(q[n]) \in Nat
    BY <1>2, <1>3, <2>1
  <2> HIDE DEF a
  <2> QED
    BY <1>3, <2>2
<1> QED
  BY <1>7, <1>8, <1>9

-----------------------------------------------------------------------------
(* Acknowledgements and the announced window                               *)

\* Nothing but what concerns acknowledgements and the announced window differs.
Content(p, r) ==
    /\ r.nxt = p.nxt /\ r.wnd = p.wnd /\ r.ooseq = p.ooseq /\ r.refused = p.refused
    /\ r.fin = p.fin /\ r.closed = p.closed /\ r.canRead = p.canRead
    /\ r.read = p.read /\ r.eof = p.eof /\ r.failed = p.failed

\* What tcp_output and the functions that ask for an acknowledgement do.
Sent(p, r) ==
    /\ r \in Pcb /\ Free(r) /\ Content(p, r)
    /\ p.edge <= r.edge
    /\ r.acked <= r.nxt
    /\ OwedAck(p) => OwedAck(r)

\* Nothing holds back what tcp_output is asked to send.
Prompt == NagleMayHold = FALSE /\ AckMayFail = FALSE

\* The window that is worth an announcement.
Due == Max({MinUpd, Threshold})

\* It is at least either of the two.
LEMMA DueFacts == Due \in Nat /\ MinUpd <= Due /\ Threshold <= Due
<1>1. {MinUpd, Threshold} \subseteq Int /\ {MinUpd, Threshold} # {}
  BY ReceiveAssumption
<1>2. WND \in Int /\ \A k \in {MinUpd, Threshold} : k <= WND
  BY ReceiveAssumption
<1>3. /\ Max({MinUpd, Threshold}) \in {MinUpd, Threshold}
      /\ \A k \in {MinUpd, Threshold} : k <= Max({MinUpd, Threshold})
  BY <1>1, <1>2, MaxIsGreatest
<1> QED
  BY <1>3, ReceiveAssumption DEF Due

\* The fields of a pcb.
LEMMA PcbFacts ==
    ASSUME NEW p \in Pcb
    PROVE  /\ p.nxt \in Nat /\ p.nxt <= StreamLen + 1 /\ p.wnd \in Nat /\ p.wnd <= WND
           /\ p.ann \in Nat /\ p.ann <= WND /\ p.edge \in Nat /\ p.acked \in Nat
           /\ p.acked <= StreamLen + 1
           /\ p.eof \in Nat /\ p.fin \in BOOLEAN /\ p.closed \in BOOLEAN
           /\ p.canRead \in BOOLEAN /\ p.failed \in BOOLEAN
           /\ p.delay \in BOOLEAN /\ p.now \in BOOLEAN
           /\ p.refused \in Seq(0..(StreamLen - 1)) /\ p.read \in Seq(0..(StreamLen - 1))
           /\ p.ooseq \in Seq(Segment)
           /\ Len(p.refused) \in Nat /\ Len(p.read) \in Nat
           /\ WND \in Nat /\ WND > 0 /\ StreamLen \in Nat
<1>1. /\ p.nxt \in 0..(StreamLen + 1) /\ p.wnd \in 0..WND
      /\ p.ann \in 0..WND /\ p.edge \in Nat /\ p.acked \in 0..(StreamLen + 1)
      /\ p.eof \in 0..1 /\ p.fin \in BOOLEAN /\ p.closed \in BOOLEAN
      /\ p.canRead \in BOOLEAN /\ p.failed \in BOOLEAN
      /\ p.delay \in BOOLEAN /\ p.now \in BOOLEAN
      /\ p.refused \in Seq(0..(StreamLen - 1)) /\ p.read \in Seq(0..(StreamLen - 1))
      /\ p.ooseq \in Seq(Segment)
  BY DEF Pcb
<1>2. WND \in Nat /\ WND > 0 /\ StreamLen \in Nat
  BY ReceiveAssumption
<1>3. Len(p.refused) \in Nat /\ Len(p.read) \in Nat
  BY <1>1, LenProperties
<1> QED
  BY <1>1, <1>2, <1>3

\* An announcement tells the edge that rcv_ann_wnd was computed for.
LEMMA AnnounceOK ==
    ASSUME NEW p \in Pcb, Free(p)
    PROVE  Sent(p, Announce(p)) /\ Announce(p).edge = p.nxt + p.ann
           /\ Announce(p).acked = p.nxt
<1> DEFINE r == Announce(p)
<1>1. /\ p.nxt \in Nat /\ p.nxt <= StreamLen + 1 /\ p.wnd \in Nat /\ p.ann \in Nat
      /\ p.edge \in Nat /\ StreamLen \in Nat
  BY PcbFacts
<1>2. p.edge <= p.nxt + p.wnd /\ p.edge <= p.nxt + p.ann /\ p.nxt + p.ann <= p.nxt + p.wnd
  BY <1>1 DEF Free
<1>3. /\ r \in Pcb /\ Content(p, r) /\ r.edge = p.nxt + p.ann /\ r.acked = p.nxt
      /\ r.ann = p.ann
  <2> DEFINE e == p.nxt + p.ann
             a == p.nxt
  <2>1. e \in Nat /\ a \in 0..(StreamLen + 1)
    BY <1>1
  <2>2. r = [p EXCEPT !.edge = e, !.acked = a, !.delay = FALSE, !.now = FALSE]
    BY DEF Announce
  <2>3. a = p.nxt
    OBVIOUS
  <2> HIDE DEF e, r, a
  <2>4. /\ r \in Pcb /\ r.edge = e /\ r.acked = a /\ r.ann = p.ann
    BY <2>1, <2>2 DEF Pcb
  <2>5. Content(p, r)
    BY <2>2 DEF Content, Pcb
  <2> QED
    BY <2>3, <2>4, <2>5 DEF e
<1> HIDE DEF r
<1>4. Free(r)
  BY <1>1, <1>2, <1>3 DEF Free, Content
<1>5. OwedAck(r) /\ r.acked <= r.nxt
  BY <1>1, <1>3 DEF OwedAck, Content
<1> QED
  BY <1>2, <1>3, <1>4, <1>5 DEF Sent, r

\* An acknowledgement that there is no memory for stays due.
LEMMA EmptyAckOK ==
    ASSUME NEW p \in Pcb, Free(p), p.acked <= p.nxt, NEW r \in tcp_send_empty_ack(p)
    PROVE  Sent(p, r) /\ (Prompt => r = Announce(p))
<1>1. CASE r = Announce(p)
  BY <1>1, AnnounceOK
<1>2. CASE AckMayFail /\ r = NoMemory(p)
  <2>1. r \in Pcb /\ Content(p, r) /\ r.edge = p.edge /\ r.acked = p.acked /\ r.ann = p.ann /\ r.delay
    BY <1>2 DEF NoMemory, Content, Pcb
  <2>2. Free(r)
    BY <2>1 DEF Free, Content
  <2>3. OwedAck(r) /\ r.acked <= r.nxt
    BY <2>1 DEF OwedAck, Content
  <2>4. p.edge <= r.edge
    BY <2>1, PcbFacts
  <2>5. ~Prompt
    BY <1>2 DEF Prompt
  <2> QED
    BY <2>1, <2>2, <2>3, <2>4, <2>5 DEF Sent
<1> QED
  BY <1>1, <1>2 DEF tcp_send_empty_ack

\* What is asked for may be held back: nothing that matters changes.
LEMMA SentSame ==
    ASSUME NEW p \in Pcb, Free(p), p.acked <= p.nxt
    PROVE  Sent(p, p)
BY PcbFacts DEF Sent, Content

\* tcp_output sends, fails or waits.
LEMMA OutputOK ==
    ASSUME NEW p \in Pcb, Free(p), p.acked <= p.nxt, NEW r \in tcp_output(p)
    PROVE  Sent(p, r) /\ (Prompt /\ p.now => r = Announce(p))
<1>1. CASE r \in tcp_send_empty_ack(p)
  BY <1>1, EmptyAckOK
<1>2. CASE r = Announce(p)
  BY <1>2, AnnounceOK
<1>3. CASE r = p /\ (p.now => ~Prompt)
  BY <1>3, SentSame
<1>4. r \in tcp_send_empty_ack(p) \/ r = Announce(p) \/ (r = p /\ (p.now => ~Prompt))
  BY DEF tcp_output, Prompt
<1> QED
  BY <1>1, <1>2, <1>3, <1>4

\* The window to announce is computed within the buffer, and not left of the edge.
LEMMA UpdateOK ==
    ASSUME NEW p \in Pcb, p.edge <= p.nxt + p.wnd
    PROVE  LET u == tcp_update_rcv_ann_wnd(p)
           IN  /\ u \in Pcb /\ Free(u) /\ Content(p, u)
               /\ u.edge = p.edge /\ u.acked = p.acked /\ u.delay = p.delay /\ u.now = p.now
               /\ Inflation(p) > 0 => u.ann = p.wnd
<1> DEFINE u == tcp_update_rcv_ann_wnd(p)
           a == IF Inflation(p) > 0 THEN p.wnd
                ELSE IF p.nxt > p.edge THEN 0 ELSE p.edge - p.nxt
<1>1. /\ p.nxt \in Nat /\ p.wnd \in Nat /\ p.wnd <= WND /\ WND \in Nat
      /\ p.ann \in Nat /\ p.edge \in Nat
  BY PcbFacts
<1>2. MinUpd \in Nat /\ MinUpd > 0
  BY ReceiveAssumption
<1>3. Inflation(p) > 0 => p.edge <= p.nxt + p.wnd
  OBVIOUS
<1>4. a \in 0..WND /\ p.nxt + a >= p.edge /\ p.nxt + a <= p.nxt + p.wnd
  <2>1. CASE Inflation(p) > 0
    BY <1>1, <2>1
  <2>2. CASE ~(Inflation(p) > 0)
    BY <1>1, <2>2
  <2> QED
    BY <2>1, <2>2
<1>5. Inflation(p) > 0 => a = p.wnd
  OBVIOUS
<1>6. u = [p EXCEPT !.ann = a]
  BY DEF tcp_update_rcv_ann_wnd
<1> HIDE DEF u, a
<1>7. /\ u \in Pcb /\ Content(p, u) /\ u.ann = a
      /\ u.edge = p.edge /\ u.acked = p.acked /\ u.delay = p.delay /\ u.now = p.now
  BY <1>4, <1>6 DEF Pcb, Content
<1>8. Free(u)
  <2>1. p.nxt + a \in p.edge..(p.nxt + p.wnd)
    BY <1>1, <1>4
  <2> QED
    BY <1>7, <2>1 DEF Free, Content
<1> QED
  BY <1>5, <1>7, <1>8 DEF u

\* Bytes that the application has taken: the window grows by them, and is announced
\* if that is worth it.
LEMMA RecvedOK ==
    ASSUME NEW p \in Pcb, p.edge <= p.nxt + p.wnd, p.acked <= p.nxt,
           NEW n \in Nat, p.wnd + n <= WND, NEW r \in tcp_recved(p, n)
    PROVE  /\ Sent([p EXCEPT !.wnd = @ + n], r)
           /\ Prompt => Offered(r)
<1> DEFINE q == [p EXCEPT !.wnd = @ + n]
           u == tcp_update_rcv_ann_wnd(q)
<1>1. r \in (IF Inflation(q) >= Threshold THEN tcp_output(tcp_ack_now(u)) ELSE {u})
  BY DEF tcp_recved
<1>2. /\ p.nxt \in Nat /\ p.wnd \in Nat /\ p.edge \in Nat /\ p.acked \in Nat /\ WND \in Nat
  BY PcbFacts
<1>3. /\ q \in Pcb /\ q.wnd = p.wnd + n /\ q.nxt = p.nxt /\ q.edge = p.edge
      /\ q.acked = p.acked /\ q.delay = p.delay /\ q.now = p.now
  <2>1. p.wnd + n \in 0..WND
    BY <1>2
  <2> QED
    BY <2>1 DEF Pcb
<1> HIDE DEF q
<1>4. q.edge <= q.nxt + q.wnd
  BY <1>2, <1>3
<1>5. /\ u \in Pcb /\ Free(u) /\ Content(q, u)
      /\ u.edge = q.edge /\ u.acked = q.acked /\ u.delay = q.delay /\ u.now = q.now
      /\ Inflation(q) > 0 => u.ann = q.wnd
  BY <1>3, <1>4, UpdateOK
<1> HIDE DEF u
<1>6. CASE Inflation(q) >= Threshold
  <2> DEFINE v == tcp_ack_now(u)
  <2>1. /\ v \in Pcb /\ Content(u, v) /\ v.edge = u.edge /\ v.acked = u.acked
        /\ v.ann = u.ann /\ v.now
    BY <1>5 DEF tcp_ack_now, Pcb, Content
  <2>2. r \in tcp_output(v)
    BY <1>1, <1>6
  <2> HIDE DEF v
  <2>3. Free(v)
    BY <1>5, <2>1 DEF Free, Content
  <2>4. v.acked <= v.nxt
    BY <1>3, <1>5, <2>1 DEF Content
  <2>5. Sent(v, r) /\ (Prompt => r = Announce(v))
    BY <2>1, <2>2, <2>3, <2>4, OutputOK
  <2>6. OwedAck(v)
    BY <2>1, <2>4 DEF OwedAck
  <2>7. Content(q, r)
    BY <1>5, <2>1, <2>5 DEF Sent, Content
  <2>8. q.edge <= r.edge
    BY <1>3, <1>5, <2>1, <2>5 DEF Sent
  <2>9. Sent(q, r)
    BY <2>5, <2>6, <2>7, <2>8 DEF Sent
  <2>10. Prompt => Offered(r)
    <3> SUFFICES ASSUME Prompt
                 PROVE  Offered(r)
      OBVIOUS
    <3>1. r.edge = v.nxt + v.ann
      BY <2>1, <2>3, <2>5, AnnounceOK
    <3>2. Inflation(q) > 0
      <4>1. Threshold \in Nat /\ Threshold > 0
        BY ReceiveAssumption
      <4>2. Inflation(q) \in Int
        BY <1>2, <1>3 DEF Inflation
      <4> QED
        BY <1>6, <4>1, <4>2
    <3>3. v.nxt = q.nxt /\ v.ann = q.wnd
      BY <1>5, <2>1, <3>2 DEF Content
    <3>4. r.nxt + r.wnd - r.edge = 0
      BY <1>2, <1>3, <2>7, <3>1, <3>3 DEF Content
    <3>5. 0 < Due
      BY DueFacts, ReceiveAssumption
    <3> QED
      BY <3>4, <3>5 DEF Offered, Due
  <2> QED
    BY <2>9, <2>10 DEF q
<1>7. CASE ~(Inflation(q) >= Threshold)
  <2>1. r = u
    BY <1>1, <1>7
  <2>2. q.edge <= r.edge /\ r.acked <= r.nxt
    BY <1>2, <1>3, <1>5, <2>1 DEF Content
  <2>3. OwedAck(q) => OwedAck(r)
    BY <1>5, <2>1 DEF OwedAck, Content
  <2>4. Sent(q, r)
    BY <1>5, <2>1, <2>2, <2>3 DEF Sent
  <2>5. r.nxt + r.wnd - r.edge < Due
    <3>1. r.nxt = q.nxt /\ r.wnd = q.wnd /\ r.edge = q.edge
      BY <1>5, <2>1 DEF Content
    <3>2. q.nxt \in Nat /\ q.wnd \in Nat /\ q.edge \in Nat
      BY <1>2, <1>3
    <3>3. /\ Due \in Nat /\ MinUpd <= Due /\ Threshold <= Due /\ MinUpd \in Nat /\ Threshold \in Nat
      BY DueFacts, ReceiveAssumption
    <3> QED
      BY <1>7, <3>1, <3>2, <3>3 DEF Inflation
  <2>6. Offered(r)
    BY <2>5 DEF Offered, Due
  <2> QED
    BY <2>4, <2>6 DEF q
<1> QED
  BY <1>6, <1>7

-----------------------------------------------------------------------------
(* Delivery                                                                *)

\* What the functions of the receive path leave alone, and what they keep.
Kept(p, r) ==
    /\ r \in Pcb /\ Free(r)
    /\ p.edge <= r.edge
    /\ r.acked <= r.nxt
    /\ OwedAck(p) => OwedAck(r)
    /\ r.nxt = p.nxt /\ r.ooseq = p.ooseq /\ r.closed = p.closed /\ r.failed = p.failed

\* Neither an acknowledgement nor a window update that is due is forgotten.
Owing(p) == OwedAck(p) /\ (~p.closed => Offered(p))

\* A step of the receiver: the invariant holds, the edge does not retreat.
Good(p, r) ==
    /\ POK(r)
    /\ p.edge <= r.edge
    /\ Prompt /\ Owing(p) => Owing(r)

\* The counts that ZPTCPConnection keeps of a pcb.
RxOf(p) == [nxt |-> p.nxt, wnd |-> p.wnd, refused |-> Len(p.refused),
            fin |-> p.fin, canRead |-> p.canRead, read |-> Len(p.read),
            eof |-> p.eof]

\* Two steps that keep these keep them together.
LEMMA KeptTransitive ==
    ASSUME NEW p \in Pcb, NEW q, NEW r, Kept(p, q), Kept(q, r)
    PROVE  Kept(p, r)
<1>1. p.edge \in Nat /\ q.edge \in Nat /\ r.edge \in Nat
  BY PcbFacts DEF Kept
<1>2. p.edge <= q.edge /\ q.edge <= r.edge
  BY DEF Kept
<1>3. p.edge <= r.edge
  BY <1>1, <1>2
<1> QED
  BY <1>3 DEF Kept

\* Two of these in a row are one.
LEMMA SentTransitive ==
    ASSUME NEW p \in Pcb, NEW q, NEW r, Sent(p, q), Sent(q, r)
    PROVE  Sent(p, r)
<1>1. p.edge \in Nat /\ q.edge \in Nat /\ r.edge \in Nat
  BY PcbFacts DEF Sent
<1>2. p.edge <= q.edge /\ q.edge <= r.edge
  BY DEF Sent
<1>3. p.edge <= r.edge
  BY <1>1, <1>2
<1>4. Content(p, r)
  BY DEF Sent, Content
<1> QED
  BY <1>3, <1>4 DEF Sent

\* The application takes the text if it has asked for it, or it waits.
LEMMA RecvOK ==
    ASSUME NEW p \in Pcb, Free(p), p.acked <= p.nxt, p.refused = <<>>,
           NEW text \in Seq(0..(StreamLen - 1)), p.wnd + Len(text) <= WND,
           NEW r \in zp_tcp_recv(p, text)
    PROVE  /\ Kept(p, r) /\ r.fin = p.fin /\ r.eof = p.eof /\ ~r.canRead
           /\ p.canRead => /\ r.refused = <<>> /\ r.read = p.read \o text
                           /\ r.wnd = p.wnd + Len(text)
                           /\ Prompt => Offered(r)
           /\ ~p.canRead => /\ r.refused = text /\ r.read = p.read /\ r.wnd = p.wnd
                            /\ Offered(p) => Offered(r)
<1>1. /\ p.nxt \in Nat /\ p.wnd \in Nat /\ p.edge \in Nat /\ p.acked \in Nat
      /\ p.read \in Seq(0..(StreamLen - 1)) /\ Len(text) \in Nat
  BY PcbFacts, LenProperties
<1>2. CASE p.canRead
  <2> DEFINE q == [p EXCEPT !.canRead = FALSE, !.read = @ \o text]
             n == Len(text)
             w == [q EXCEPT !.wnd = @ + n]
  <2>1. p.read \o text \in Seq(0..(StreamLen - 1))
    BY <1>1, ConcatProperties
  <2>2. /\ q \in Pcb /\ q.read = p.read \o text /\ ~q.canRead /\ q.refused = <<>>
        /\ q.nxt = p.nxt /\ q.wnd = p.wnd /\ q.edge = p.edge /\ q.acked = p.acked
        /\ q.ooseq = p.ooseq /\ q.fin = p.fin /\ q.eof = p.eof /\ q.closed = p.closed
        /\ q.failed = p.failed /\ q.delay = p.delay /\ q.now = p.now
    BY <2>1 DEF Pcb
  <2>3. r \in tcp_recved(q, n)
    BY <1>2 DEF zp_tcp_recv
  <2> HIDE DEF q, n
  <2>4. n \in Nat /\ q.wnd + n <= WND /\ q.edge <= q.nxt + q.wnd /\ q.acked <= q.nxt
    BY <1>1, <2>2 DEF n, Free
  <2>5. Sent(w, r) /\ (Prompt => Offered(r))
    BY <2>2, <2>3, <2>4, RecvedOK
  <2>6. /\ w.wnd = p.wnd + n /\ w.read = q.read /\ w.canRead = q.canRead /\ w.refused = q.refused
        /\ w.nxt = q.nxt /\ w.edge = q.edge /\ w.acked = q.acked
        /\ w.ooseq = q.ooseq /\ w.fin = q.fin /\ w.eof = q.eof /\ w.closed = q.closed
        /\ w.failed = q.failed /\ w.delay = q.delay /\ w.now = q.now
    BY <2>2 DEF Pcb
  <2> HIDE DEF w
  <2>7. OwedAck(p) => OwedAck(r)
    BY <2>2, <2>5, <2>6 DEF Sent, OwedAck
  <2>8. Kept(p, r)
    BY <2>2, <2>5, <2>6, <2>7 DEF Sent, Content, Kept
  <2>9. /\ r.fin = p.fin /\ r.eof = p.eof /\ ~r.canRead
        /\ r.refused = <<>> /\ r.read = p.read \o text /\ r.wnd = p.wnd + Len(text)
    BY <2>2, <2>5, <2>6 DEF Sent, Content, n
  <2> QED
    BY <1>2, <2>5, <2>8, <2>9
<1>3. CASE ~p.canRead
  <2>1. r = [p EXCEPT !.refused = text]
    BY <1>3 DEF zp_tcp_recv
  <2>2. /\ r \in Pcb /\ r.refused = text /\ r.canRead = p.canRead
        /\ r.nxt = p.nxt /\ r.wnd = p.wnd /\ r.edge = p.edge /\ r.acked = p.acked
        /\ r.ooseq = p.ooseq /\ r.fin = p.fin /\ r.eof = p.eof /\ r.closed = p.closed
        /\ r.failed = p.failed /\ r.delay = p.delay /\ r.now = p.now /\ r.ann = p.ann
        /\ r.read = p.read
    BY <2>1 DEF Pcb
  <2>3. Free(r) /\ (OwedAck(p) => OwedAck(r)) /\ (Offered(p) => Offered(r))
    BY <2>2 DEF Free, OwedAck, Offered
  <2>4. p.edge <= r.edge
    BY <1>1, <2>2
  <2>5. Kept(p, r)
    BY <2>2, <2>3, <2>4 DEF Kept
  <2> QED
    BY <1>3, <2>2, <2>3, <2>5
<1> QED
  BY <1>2, <1>3

\* The end of the stream is reported, or waits behind refused data.
LEMMA GotFinOK ==
    ASSUME NEW p \in Pcb, Free(p), p.acked <= p.nxt, p.eof = 0,
           p.refused = <<>> => p.wnd < WND
    PROVE  LET g == GotFin(p)
           IN  /\ Kept(p, g) /\ g.canRead = p.canRead /\ g.read = p.read /\ g.refused = p.refused
               /\ p.refused = <<>> => g.fin = p.fin /\ g.eof = 1 /\ g.wnd = p.wnd + 1
               /\ p.refused # <<>> => g.fin /\ g.eof = 0 /\ g.wnd = p.wnd
<1> DEFINE g == GotFin(p)
<1>1. /\ p.nxt \in Nat /\ p.wnd \in Nat /\ p.edge \in Nat /\ p.acked \in Nat /\ p.ann \in Nat
      /\ WND \in Nat
  BY PcbFacts
<1>2. CASE p.refused = <<>>
  <2> DEFINE x == IF p.wnd # WND THEN p.wnd + 1 ELSE p.wnd
             y == p.eof + 1
  <2>1. g = [p EXCEPT !.wnd = x, !.eof = y]
    BY <1>2 DEF GotFin
  <2>2. x = p.wnd + 1 /\ x \in 0..WND /\ y = 1
    BY <1>1, <1>2
  <2> HIDE DEF g, x, y
  <2>3. /\ g \in Pcb /\ g.wnd = p.wnd + 1 /\ g.eof = 1
        /\ g.refused = p.refused /\ g.canRead = p.canRead
        /\ g.nxt = p.nxt /\ g.edge = p.edge /\ g.acked = p.acked /\ g.ann = p.ann
        /\ g.ooseq = p.ooseq /\ g.fin = p.fin /\ g.closed = p.closed
        /\ g.failed = p.failed /\ g.delay = p.delay /\ g.now = p.now
        /\ g.read = p.read
    <3>1. g \in Pcb
      <4>1. y \in 0..1
        BY <2>2
      <4> QED
        BY <2>1, <2>2, <4>1, ZenonT(30) DEF Pcb
    <3>2. g.wnd = x /\ g.eof = y
      BY <2>1 DEF Pcb
    <3>3. /\ g.refused = p.refused /\ g.canRead = p.canRead
          /\ g.nxt = p.nxt /\ g.edge = p.edge /\ g.acked = p.acked /\ g.ann = p.ann
          /\ g.ooseq = p.ooseq /\ g.fin = p.fin /\ g.closed = p.closed
          /\ g.failed = p.failed /\ g.delay = p.delay /\ g.now = p.now
          /\ g.read = p.read
      BY <2>1 DEF Pcb
    <3> QED
      BY <2>2, <3>1, <3>2, <3>3
  <2>4. Free(g)
    <3>1. p.edge <= p.nxt + p.wnd /\ p.edge <= p.nxt + p.ann /\ p.nxt + p.ann <= p.nxt + p.wnd
      BY <1>1 DEF Free
    <3>2. /\ p.edge <= p.nxt + (p.wnd + 1)
          /\ p.nxt + p.ann \in p.edge..(p.nxt + (p.wnd + 1))
      BY <1>1, <3>1
    <3> QED
      BY <2>3, <3>2 DEF Free
  <2>5. OwedAck(p) => OwedAck(g)
    BY <2>3 DEF OwedAck
  <2>6. Kept(p, g)
    BY <1>1, <2>3, <2>4, <2>5 DEF Kept
  <2> QED
    BY <1>2, <2>3, <2>6 DEF g
<1>3. CASE p.refused # <<>>
  <2>1. g = [p EXCEPT !.fin = TRUE]
    BY <1>3 DEF GotFin
  <2> HIDE DEF g
  <2>2. /\ g \in Pcb /\ g.wnd = p.wnd /\ g.eof = p.eof
        /\ g.refused = p.refused /\ g.canRead = p.canRead
        /\ g.nxt = p.nxt /\ g.edge = p.edge /\ g.acked = p.acked /\ g.ann = p.ann
        /\ g.ooseq = p.ooseq /\ g.fin /\ g.closed = p.closed
        /\ g.failed = p.failed /\ g.delay = p.delay /\ g.now = p.now
        /\ g.read = p.read
    BY <2>1, ZenonT(30) DEF Pcb
  <2>3. Free(g) /\ (OwedAck(p) => OwedAck(g))
    BY <2>2 DEF Free, OwedAck
  <2>4. Kept(p, g)
    BY <1>1, <2>2, <2>3 DEF Kept
  <2> QED
    BY <1>3, <2>2, <2>4 DEF g
<1> QED
  BY <1>2, <1>3

\* Records of counts.
RxSet == [nxt : Nat, wnd : Nat, refused : Nat, fin : BOOLEAN, canRead : BOOLEAN,
          read : Nat, eof : Nat]

\* The counts of a pcb are such a record.
LEMMA RxOfSet ==
    ASSUME NEW p \in Pcb
    PROVE  RxOf(p) \in RxSet
BY PcbFacts DEF RxOf, RxSet

\* Records of counts with the same fields are the same.
LEMMA RxEqual ==
    ASSUME NEW R \in RxSet, NEW S \in RxSet,
           R.nxt = S.nxt, R.wnd = S.wnd, R.refused = S.refused, R.fin = S.fin,
           R.canRead = S.canRead, R.read = S.read, R.eof = S.eof
    PROVE  R = S
BY SMTT(60) DEF RxSet

\* What tcp_process_refused_data of ZPTCPConnection does when it is all taken.
LEMMA CoreProcess ==
    ASSUME NEW R \in RxSet, R.refused # 0, R.canRead,
           R.wnd + R.refused + (IF R.fin THEN 1 ELSE 0) = WND,
           NEW S \in RxSet, S.nxt = R.nxt, S.wnd = WND, S.refused = 0, S.fin = FALSE,
           S.canRead = FALSE, S.read = R.read + R.refused,
           S.eof = R.eof + (IF R.fin THEN 1 ELSE 0)
    PROVE  S = Core!tcp_process_refused_data(R, conn, -1)
<1> DEFINE T == Core!tcp_process_refused_data(R, conn, -1)
           w == R.wnd + R.refused
           x == R.read + R.refused
           y == IF R.fin THEN R.eof + 1 ELSE R.eof
<1>1. /\ R.nxt \in Nat /\ R.wnd \in Nat /\ R.refused \in Nat /\ R.fin \in BOOLEAN
      /\ R.canRead \in BOOLEAN /\ R.read \in Nat /\ R.eof \in Nat /\ WND \in Nat
  BY ReceiveAssumption DEF RxSet
<1>2. /\ w <= WND /\ w \in Nat /\ x \in Nat /\ y \in Nat
      /\ (IF R.fin THEN (IF w # WND THEN w + 1 ELSE w) ELSE w) = WND
      /\ S.eof = y
  BY <1>1
<1>3. T = [R EXCEPT !.canRead = FALSE, !.read = x, !.refused = 0, !.fin = FALSE,
                    !.wnd = IF R.fin THEN (IF w # WND THEN w + 1 ELSE w) ELSE w,
                    !.eof = y]
  BY <1>2 DEF Core!tcp_process_refused_data, Core!Takes, Core!tcp_recved,
        Core!FreedLen, Core!FinCredit, Core!EofReport, conn
<1> HIDE DEF T, x, y
<1>4. T = [R EXCEPT !.canRead = FALSE, !.read = x, !.refused = 0, !.fin = FALSE,
                    !.wnd = WND, !.eof = y]
  BY <1>2, <1>3
<1> HIDE DEF w
<1>5. T \in RxSet
  BY <1>1, <1>2, <1>4, ZenonT(60) DEF RxSet
<1>6. /\ T.nxt = R.nxt /\ T.wnd = WND /\ T.refused = 0 /\ T.fin = FALSE
      /\ T.canRead = FALSE /\ T.read = x /\ T.eof = y
  BY <1>4 DEF RxSet
<1>7. S.read = x
  BY DEF x
<1>8. S = T
  BY <1>2, <1>5, <1>6, <1>7, RxEqual
<1> QED
  BY <1>8 DEF T

\* What AcceptInSequence of ZPTCPConnection does with k bytes and a FIN or not.
LEMMA CoreAccept ==
    ASSUME NEW R \in RxSet, R.refused = 0, R.fin = FALSE, R.wnd = WND,
           NEW k \in Nat, NEW f \in BOOLEAN, NEW e \in Nat, e = IF f THEN 1 ELSE 0,
           k + e > 0, k + e <= WND,
           NEW S \in RxSet, S.nxt = R.nxt + k + e,
           k > 0 /\ R.canRead =>
              /\ S.canRead = FALSE /\ S.read = R.read + k /\ S.refused = 0
              /\ S.fin = FALSE /\ S.wnd = WND /\ S.eof = R.eof + e,
           k > 0 /\ ~R.canRead =>
              /\ S.canRead = FALSE /\ S.read = R.read /\ S.refused = k
              /\ S.fin = f /\ S.wnd = WND - k - e /\ S.eof = R.eof,
           k = 0 =>
              /\ S.canRead = R.canRead /\ S.read = R.read /\ S.refused = 0
              /\ S.fin = FALSE /\ S.wnd = WND /\ S.eof = R.eof + 1
    PROVE  S = Core!AcceptInSequence(R, conn, k, f, -1)
<1> DEFINE T == Core!AcceptInSequence(R, conn, k, f, -1)
           taken == k > 0 /\ R.canRead
           kept == k > 0 /\ ~taken
           low == R.wnd - k - e
           wnd == IF taken THEN (IF low + k <= WND THEN low + k
                                 ELSE IF low + k = WND + 1 THEN WND ELSE low + k - WND - 1)
                           ELSE low
           v1 == R.nxt + k + e
           v2 == R.canRead /\ ~taken
           v3 == IF taken THEN R.read + k ELSE R.read
           v4 == IF kept THEN k ELSE 0
           v5 == f /\ kept
           v6 == IF f /\ ~kept THEN (IF wnd # WND THEN wnd + 1 ELSE wnd) ELSE wnd
           v7 == IF f /\ ~kept THEN R.eof + 1 ELSE R.eof
<1>1. /\ R.nxt \in Nat /\ R.wnd \in Nat /\ R.refused \in Nat /\ R.fin \in BOOLEAN
      /\ R.canRead \in BOOLEAN /\ R.read \in Nat /\ R.eof \in Nat /\ WND \in Nat
  BY ReceiveAssumption DEF RxSet
<1>2. T = [R EXCEPT !.nxt = v1, !.canRead = v2, !.read = v3, !.refused = v4,
                    !.fin = v5, !.wnd = v6, !.eof = v7]
  BY DEF Core!AcceptInSequence, Core!Takes, Core!tcp_recved, Core!ReportFin,
        Core!FreedLen, Core!FinCredit, Core!EofReport, conn
<1>3. low \in Nat /\ low + k <= WND /\ low + k + e = WND
  BY <1>1
<1>4. wnd = IF taken THEN low + k ELSE low
  BY <1>3
<1>5. /\ v1 \in Nat /\ v2 \in BOOLEAN /\ v3 \in Nat /\ v4 \in Nat /\ v5 \in BOOLEAN
      /\ v7 \in Nat
  BY <1>1
<1> HIDE DEF low, wnd
<1>6. v6 \in Nat
  BY <1>1, <1>3, <1>4
<1> HIDE DEF T, taken, kept, v1, v2, v3, v4, v5, v6, v7
<1>7. T \in RxSet
  BY <1>1, <1>2, <1>5, <1>6, ZenonT(60) DEF RxSet
<1>8. /\ T.nxt = v1 /\ T.canRead = v2 /\ T.read = v3 /\ T.refused = v4
      /\ T.fin = v5 /\ T.wnd = v6 /\ T.eof = v7
  BY <1>2 DEF RxSet
<1>9. /\ S.nxt = v1 /\ S.canRead = v2 /\ S.read = v3 /\ S.refused = v4
      /\ S.fin = v5 /\ S.wnd = v6 /\ S.eof = v7
  <2>1. CASE k > 0 /\ R.canRead
    <3>1. taken /\ ~kept
      BY <2>1 DEF taken, kept
    <3>2. /\ v1 = R.nxt + k + e /\ v2 = FALSE /\ v3 = R.read + k /\ v4 = 0
          /\ v5 = FALSE
      BY <3>1 DEF v1, v2, v3, v4, v5
    <3>3. v6 = WND /\ v7 = R.eof + e
      BY <1>1, <1>3, <1>4, <3>1 DEF v6, v7
    <3> QED
      BY <2>1, <3>2, <3>3
  <2>2. CASE k > 0 /\ ~R.canRead
    <3>1. ~taken /\ kept
      BY <2>2 DEF taken, kept
    <3>2. /\ v1 = R.nxt + k + e /\ v2 = FALSE /\ v3 = R.read /\ v4 = k
          /\ v5 = f
      BY <2>2, <3>1 DEF v1, v2, v3, v4, v5
    <3>3. v6 = WND - k - e /\ v7 = R.eof
      BY <1>1, <1>3, <1>4, <3>1 DEF v6, v7, low
    <3> QED
      BY <2>2, <3>2, <3>3
  <2>3. CASE k = 0
    <3>1. ~taken /\ ~kept /\ f
      BY <2>3 DEF taken, kept
    <3>2. /\ v1 = R.nxt + k + e /\ v2 = R.canRead /\ v3 = R.read /\ v4 = 0
          /\ v5 = FALSE
      BY <1>1, <3>1 DEF v1, v2, v3, v4, v5
    <3>3. v6 = WND /\ v7 = R.eof + 1
      BY <1>1, <1>3, <1>4, <2>3, <3>1 DEF v6, v7, low
    <3> QED
      BY <2>3, <3>2, <3>3 DEF v1
  <2> QED
    BY <2>1, <2>2, <2>3
<1>10. S = T
  BY <1>7, <1>8, <1>9, RxEqual
<1> QED
  BY <1>10 DEF T

\* Refused data is offered again: as ZPTCPConnection counts it.
LEMMA ProcessOK ==
    ASSUME NEW p, POK(p), NEW r \in tcp_process_refused_data(p)
    PROVE  /\ Good(p, r)
           /\ RxOf(r) = Core!tcp_process_refused_data(RxOf(p), conn, -1)
           /\ r.closed = p.closed /\ r.nxt = p.nxt
<1>1. /\ p \in Pcb /\ Free(p) /\ p.acked <= p.nxt /\ Delivered(p) /\ EndKept(p)
      /\ Queue(p.ooseq, p.nxt + 1, p.edge) /\ (p.closed => p.ooseq = <<>>) /\ ~p.failed
  BY DEF POK
<1>2. /\ p.nxt \in Nat /\ p.wnd \in Nat /\ p.wnd <= WND /\ p.edge \in Nat /\ p.acked \in Nat
      /\ WND \in Nat /\ p.refused \in Seq(0..(StreamLen - 1)) /\ Len(p.refused) \in Nat
      /\ p.read \in Seq(0..(StreamLen - 1)) /\ Len(p.read) \in Nat
      /\ p.fin \in BOOLEAN /\ p.closed \in BOOLEAN /\ p.eof \in Nat /\ p.canRead \in BOOLEAN
  BY <1>1, PcbFacts
<1>3. p.refused = <<>> <=> Len(p.refused) = 0
  BY <1>2, EmptySeq
<1>4. CASE p.refused = <<>> \/ ~p.canRead
  <2>1. r = p
    BY <1>4 DEF tcp_process_refused_data
  <2>2. RxOf(p).refused = 0 \/ ~RxOf(p).canRead
    BY <1>3, <1>4 DEF RxOf
  <2>3. RxOf(p) = Core!tcp_process_refused_data(RxOf(p), conn, -1)
    BY <2>2 DEF Core!tcp_process_refused_data, Core!Takes
  <2> QED
    BY <1>2, <2>1, <2>3 DEF Good
<1>5. CASE p.refused # <<>> /\ p.canRead
  <2> DEFINE q == [p EXCEPT !.refused = <<>>, !.fin = FALSE]
  <2>1. PICK t \in zp_tcp_recv(q, p.refused) : r = IF p.fin THEN GotFin(t) ELSE t
    BY <1>5 DEF tcp_process_refused_data
  <2>2. /\ q \in Pcb /\ q.refused = <<>> /\ ~q.fin
        /\ q.nxt = p.nxt /\ q.wnd = p.wnd /\ q.edge = p.edge /\ q.acked = p.acked
        /\ q.ooseq = p.ooseq /\ q.eof = p.eof /\ q.closed = p.closed /\ q.canRead
        /\ q.failed = p.failed /\ q.delay = p.delay /\ q.now = p.now /\ q.ann = p.ann
        /\ q.read = p.read
    <3>1. <<>> \in Seq(0..(StreamLen - 1))
      OBVIOUS
    <3> QED
      BY <1>1, <1>5, <3>1 DEF Pcb
  <2> HIDE DEF q
  <2>3. Free(q) /\ (OwedAck(p) => OwedAck(q)) /\ q.acked <= q.nxt
    BY <1>1, <2>2 DEF Free, OwedAck
  <2>4. p.wnd + Len(p.refused) + FinBit(p) = WND /\ FinBit(p) = IF p.fin THEN 1 ELSE 0
    BY <1>1 DEF EndKept, FinBit
  <2>5. q.wnd + Len(p.refused) <= WND
    BY <1>2, <2>2, <2>4
  <2>6. /\ Kept(q, t) /\ t.fin = q.fin /\ t.eof = q.eof /\ ~t.canRead
        /\ t.refused = <<>> /\ t.read = q.read \o p.refused
        /\ t.wnd = q.wnd + Len(p.refused) /\ (Prompt => Offered(t))
    <3>1. p.refused \in Seq(0..(StreamLen - 1))
      BY <1>2
    <3>2. t \in zp_tcp_recv(q, p.refused)
      OBVIOUS
    <3>3. q \in Pcb /\ Free(q) /\ q.acked <= q.nxt /\ q.refused = <<>> /\ q.canRead
      BY <2>2, <2>3
    <3> DEFINE text == p.refused
    <3>4. text \in Seq(0..(StreamLen - 1)) /\ t \in zp_tcp_recv(q, text)
          /\ q.wnd + Len(text) <= WND
      BY <2>5, <3>1, <3>2
    <3> HIDE DEF text
    <3>5. /\ Kept(q, t) /\ t.fin = q.fin /\ t.eof = q.eof /\ ~t.canRead
          /\ q.canRead => /\ t.refused = <<>> /\ t.read = q.read \o text
                          /\ t.wnd = q.wnd + Len(text)
                          /\ Prompt => Offered(t)
      BY <3>3, <3>4, RecvOK
    <3> QED
      BY <3>3, <3>5 DEF text
  <2>7. /\ t \in Pcb /\ Free(t) /\ p.edge <= t.edge /\ t.acked <= t.nxt
        /\ (OwedAck(p) => OwedAck(t)) /\ t.nxt = p.nxt /\ t.ooseq = p.ooseq
        /\ t.closed = p.closed /\ ~t.failed /\ ~t.fin /\ t.eof = p.eof
        /\ t.read = p.read \o p.refused /\ t.wnd = p.wnd + Len(p.refused)
    BY <1>1, <2>2, <2>3, <2>6 DEF Kept
  <2>8. p.closed => t.closed
    BY <2>7
  <2>9. CASE ~p.fin
    <3>1. r = t
      BY <2>1, <2>9
    <3>2. t.wnd = WND
      BY <1>2, <2>4, <2>7, <2>9
    <3>3. EndKept(t)
      <4>1. p.closed <=> p.nxt = StreamLen + 1
        BY <1>1 DEF EndKept
      <4>2. p.eof = 1 <=> p.closed /\ ~p.fin
        BY <1>1 DEF EndKept
      <4>3. Len(t.refused) = 0 /\ FinBit(t) = 0
        BY <2>6, <2>7 DEF FinBit
      <4>4. t.wnd + Len(t.refused) + FinBit(t) = WND
        BY <1>2, <3>2, <4>3
      <4> QED
        BY <2>6, <2>7, <2>9, <4>1, <4>2, <4>4 DEF EndKept
    <3>4. Delivered(t)
      <4>1. t.read \o t.refused = t.read
        BY <2>6, <2>7, PcbFacts, ConcatEmptySeq
      <4> QED
        BY <1>1, <2>7, <4>1 DEF Delivered
    <3>5. Queue(t.ooseq, t.nxt + 1, t.edge)
      <4>1. p.edge <= t.edge /\ p.edge \in Nat /\ t.edge \in Nat
        BY <1>2, <2>7, PcbFacts
      <4> QED
        BY <1>1, <2>7, <4>1, QueueWider
    <3>6. POK(t)
      BY <1>1, <2>7, <3>3, <3>4, <3>5 DEF POK
    <3>7. Good(p, r)
      BY <2>6, <2>7, <3>1, <3>6 DEF Good, Owing
    <3>8. RxOf(r) = Core!tcp_process_refused_data(RxOf(p), conn, -1)
      <4>1. Len(t.read) = Len(p.read) + Len(p.refused) /\ Len(t.refused) = 0
        BY <1>2, <2>6, <2>7, ConcatProperties
      <4> DEFINE R == RxOf(p)
                 S == RxOf(t)
      <4>2. R \in RxSet /\ S \in RxSet
        BY <1>1, <2>7, RxOfSet
      <4>3. /\ R.nxt = p.nxt /\ R.wnd = p.wnd /\ R.refused = Len(p.refused) /\ R.fin = p.fin
            /\ R.canRead = p.canRead /\ R.read = Len(p.read) /\ R.eof = p.eof
            /\ S.nxt = t.nxt /\ S.wnd = t.wnd /\ S.refused = Len(t.refused) /\ S.fin = t.fin
            /\ S.canRead = t.canRead /\ S.read = Len(t.read) /\ S.eof = t.eof
        BY DEF RxOf
      <4> HIDE DEF R, S
      <4>4. (IF R.fin THEN 1 ELSE 0) = 0
        BY <2>9, <4>3
      <4>5. /\ R.refused # 0 /\ R.canRead /\ R.wnd + R.refused + 0 = WND
            /\ S.nxt = R.nxt /\ S.wnd = WND /\ S.refused = 0 /\ S.fin = FALSE
            /\ S.canRead = FALSE /\ S.read = R.read + R.refused /\ S.eof = R.eof + 0
        BY <1>2, <1>3, <1>5, <2>6, <2>7, <3>2, <4>1, <4>3
      <4>6. S = Core!tcp_process_refused_data(R, conn, -1)
        BY <4>2, <4>4, <4>5, CoreProcess
      <4> QED
        BY <3>1, <4>6 DEF R, S
    <3> QED
      BY <2>7, <3>1, <3>7, <3>8
  <2>10. CASE p.fin
    <3> DEFINE g == GotFin(t)
    <3>1. r = g
      BY <2>1, <2>10
    <3>2. t.wnd + 1 = WND /\ t.wnd < WND
      BY <1>2, <2>4, <2>7, <2>10
    <3>3. p.closed /\ p.eof # 1 /\ p.eof = 0
      <4>1. p.closed /\ p.eof # 1
        BY <1>1, <2>10 DEF EndKept
      <4>2. p.eof \in 0..1
        BY <1>1 DEF Pcb
      <4> QED
        BY <4>1, <4>2
    <3>4. /\ Kept(t, g) /\ ~g.canRead /\ g.read = t.read /\ g.refused = <<>>
          /\ g.fin = t.fin /\ g.eof = 1 /\ g.wnd = t.wnd + 1
      BY <2>6, <2>7, <3>2, <3>3, GotFinOK
    <3> HIDE DEF g
    <3>5. Kept(p, g)
      <4>1. Kept(p, t)
        BY <1>1, <2>2, <2>6, <2>7 DEF Kept
      <4> QED
        BY <1>1, <3>4, <4>1, KeptTransitive
    <3>6. EndKept(g)
      <4>1. p.nxt = StreamLen + 1
        BY <1>1, <3>3 DEF EndKept
      <4>2. Len(g.refused) = 0 /\ FinBit(g) = 0
        BY <2>7, <3>4 DEF FinBit
      <4>3. g.wnd + Len(g.refused) + FinBit(g) = WND
        BY <1>2, <3>2, <3>4, <4>2
      <4> QED
        BY <2>7, <3>3, <3>4, <3>5, <4>1, <4>3 DEF EndKept, Kept
    <3>7. Delivered(g)
      <4>1. g.read \o g.refused = g.read
        BY <3>4, <3>5, PcbFacts, ConcatEmptySeq DEF Kept
      <4>2. g.read = p.read \o p.refused /\ g.closed = p.closed /\ g.nxt = p.nxt
        BY <2>7, <3>4, <3>5 DEF Kept
      <4> QED
        BY <1>1, <4>1, <4>2 DEF Delivered
    <3>8. Queue(g.ooseq, g.nxt + 1, g.edge)
      <4>1. p.edge <= g.edge /\ p.edge \in Nat /\ g.edge \in Nat /\ g.ooseq = p.ooseq /\ g.nxt = p.nxt
        BY <1>2, <3>5, PcbFacts DEF Kept
      <4> QED
        BY <1>1, <4>1, QueueWider
    <3>9. POK(g)
      BY <1>1, <3>5, <3>6, <3>7, <3>8 DEF POK, Kept
    <3>10. Good(p, r)
      BY <3>1, <3>3, <3>5, <3>9 DEF Good, Owing, Kept
    <3>11. RxOf(r) = Core!tcp_process_refused_data(RxOf(p), conn, -1)
      <4>1. Len(g.read) = Len(p.read) + Len(p.refused) /\ Len(g.refused) = 0
        BY <1>2, <2>7, <3>4, ConcatProperties
      <4> DEFINE R == RxOf(p)
                 S == RxOf(g)
      <4>2. R \in RxSet /\ S \in RxSet
        BY <1>1, <3>5, RxOfSet DEF Kept
      <4>3. /\ R.nxt = p.nxt /\ R.wnd = p.wnd /\ R.refused = Len(p.refused) /\ R.fin = p.fin
            /\ R.canRead = p.canRead /\ R.read = Len(p.read) /\ R.eof = p.eof
            /\ S.nxt = g.nxt /\ S.wnd = g.wnd /\ S.refused = Len(g.refused) /\ S.fin = g.fin
            /\ S.canRead = g.canRead /\ S.read = Len(g.read) /\ S.eof = g.eof
        BY DEF RxOf
      <4> HIDE DEF R, S
      <4>4. (IF R.fin THEN 1 ELSE 0) = 1
        BY <2>10, <4>3
      <4>5. /\ R.refused # 0 /\ R.canRead /\ R.wnd + R.refused + 1 = WND
            /\ S.nxt = R.nxt /\ S.wnd = WND /\ S.refused = 0 /\ S.fin = FALSE
            /\ S.canRead = FALSE /\ S.read = R.read + R.refused /\ S.eof = R.eof + 1
        <5>1. g.nxt = p.nxt /\ g.canRead = FALSE /\ g.fin = FALSE
          BY <2>7, <3>4, <3>5, PcbFacts DEF Kept
        <5> QED
          BY <1>2, <1>3, <1>5, <2>7, <3>2, <3>3, <3>4, <4>1, <4>3, <5>1
      <4>6. S = Core!tcp_process_refused_data(R, conn, -1)
        BY <4>2, <4>4, <4>5, CoreProcess
      <4> QED
        BY <3>1, <4>6 DEF R, S
    <3> QED
      BY <2>7, <3>1, <3>4, <3>10, <3>11 DEF Kept
  <2> QED
    BY <1>2, <2>9, <2>10
<1> QED
  BY <1>4, <1>5

-----------------------------------------------------------------------------
(* A segment that arrives                                                  *)

\* A pcb that differs in acknowledgements and the announced window only.
LEMMA SentGood ==
    ASSUME NEW p, POK(p), NEW r, Sent(p, r)
    PROVE  Good(p, r) /\ RxOf(r) = RxOf(p) /\ r.closed = p.closed /\ r.refused = p.refused
<1>1. /\ p \in Pcb /\ Free(p) /\ p.acked <= p.nxt /\ Delivered(p) /\ EndKept(p)
      /\ Queue(p.ooseq, p.nxt + 1, p.edge) /\ (p.closed => p.ooseq = <<>>) /\ ~p.failed
  BY DEF POK
<1>2. /\ r \in Pcb /\ Free(r) /\ p.edge <= r.edge /\ r.acked <= r.nxt
      /\ (OwedAck(p) => OwedAck(r))
      /\ r.nxt = p.nxt /\ r.wnd = p.wnd /\ r.ooseq = p.ooseq /\ r.refused = p.refused
      /\ r.fin = p.fin /\ r.closed = p.closed /\ r.canRead = p.canRead
      /\ r.read = p.read /\ r.eof = p.eof /\ r.failed = p.failed
  BY DEF Sent, Content
<1>3. p.edge \in Nat /\ r.edge \in Nat /\ p.nxt \in Nat /\ p.wnd \in Nat /\ Due \in Nat
  BY <1>1, <1>2, PcbFacts, DueFacts
<1>4. Queue(r.ooseq, r.nxt + 1, r.edge)
  BY <1>1, <1>2, <1>3, QueueWider
<1>5. Delivered(r)
  BY <1>1, <1>2 DEF Delivered
<1>6. EndKept(r)
  <2>1. FinBit(r) = FinBit(p)
    BY <1>2 DEF FinBit
  <2> QED
    BY <1>1, <1>2, <2>1 DEF EndKept
<1>7. POK(r)
  BY <1>1, <1>2, <1>4, <1>5, <1>6 DEF POK
<1>8. Offered(p) => Offered(r)
  <2>1. p.nxt + p.wnd - p.edge < Due => r.nxt + r.wnd - r.edge < Due
    BY <1>2, <1>3
  <2> QED
    BY <2>1 DEF Offered, Due
<1>9. Good(p, r)
  BY <1>2, <1>7, <1>8 DEF Good, Owing
<1>10. RxOf(r) = RxOf(p)
  BY <1>2 DEF RxOf
<1> QED
  BY <1>2, <1>9, <1>10

\* Two steps that are good make a good one.
LEMMA GoodTransitive ==
    ASSUME NEW p, POK(p), NEW q, NEW r, Good(p, q), Good(q, r)
    PROVE  Good(p, r)
<1>1. p \in Pcb /\ q \in Pcb /\ r \in Pcb /\ p.edge <= q.edge /\ q.edge <= r.edge
  BY DEF Good, POK
<1>2. p.edge \in Nat /\ q.edge \in Nat /\ r.edge \in Nat
  BY <1>1, PcbFacts
<1>3. p.edge <= r.edge
  BY <1>1, <1>2
<1> QED
  BY <1>3 DEF Good

\* tcp_ack and tcp_ack_now note that an acknowledgement is due.
LEMMA AckOK ==
    ASSUME NEW p \in Pcb, Free(p), p.acked <= p.nxt, NEW a, a \in {tcp_ack(p), tcp_ack_now(p)}
    PROVE  Sent(p, a) /\ OwedAck(a) /\ a.edge = p.edge
<1>0. p.delay \in BOOLEAN /\ p.edge \in Nat
  BY PcbFacts
<1>1. /\ a \in Pcb /\ Content(p, a) /\ a.edge = p.edge /\ a.acked = p.acked /\ a.ann = p.ann
      /\ (a.delay \/ a.now)
  <2>1. CASE a = [p EXCEPT !.delay = FALSE, !.now = TRUE]
    BY <2>1 DEF Pcb, Content
  <2>2. CASE a = [p EXCEPT !.delay = TRUE]
    BY <2>2 DEF Pcb, Content
  <2>3. CASE a = [p EXCEPT !.now = TRUE]
    BY <2>3 DEF Pcb, Content
  <2> QED
    BY <2>1, <2>2, <2>3 DEF tcp_ack, tcp_ack_now
<1>2. Free(a) /\ OwedAck(a) /\ a.acked <= a.nxt
  BY <1>1 DEF Free, OwedAck, Content
<1> QED
  BY <1>0, <1>1, <1>2 DEF Sent

\* A pcb whose state becomes CLOSE_WAIT.
Closed(c) == [c EXCEPT !.closed = TRUE]

\* Only the state of c and d differs.
IsClosed(c, d) ==
    /\ d \in Pcb /\ d.edge = c.edge /\ d.closed = TRUE /\ d.failed = c.failed
    /\ d.fin = c.fin /\ d.refused = c.refused /\ d.canRead = c.canRead
    /\ d.read = c.read /\ d.wnd = c.wnd /\ d.nxt = c.nxt /\ d.ooseq = c.ooseq
    /\ d.eof = c.eof /\ d.acked = c.acked /\ d.ann = c.ann
    /\ d.delay = c.delay /\ d.now = c.now

\* Nothing else changes when the state becomes CLOSE_WAIT.
LEMMA ClosedFacts ==
    ASSUME NEW c \in Pcb
    PROVE  IsClosed(c, Closed(c))
<1> DEFINE d == Closed(c)
<1>1. d \in Pcb
  BY DEF Pcb, Closed
<1>2. /\ d.edge = c.edge /\ d.closed = TRUE /\ d.failed = c.failed
      /\ d.fin = c.fin /\ d.refused = c.refused /\ d.canRead = c.canRead
      /\ d.read = c.read /\ d.wnd = c.wnd /\ d.nxt = c.nxt /\ d.ooseq = c.ooseq
      /\ d.eof = c.eof /\ d.acked = c.acked /\ d.ann = c.ann
      /\ d.delay = c.delay /\ d.now = c.now
  BY DEF Pcb, Closed
<1> HIDE DEF d
<1>3. IsClosed(c, d)
  BY <1>1, <1>2 DEF IsClosed
<1> QED
  BY <1>3 DEF d

\* The text is passed on, or waits, and the FIN is reported behind it, or waits.
LEMMA PassOnOK ==
    ASSUME NEW p \in Pcb, Free(p), p.acked <= p.nxt, p.refused = <<>>, ~p.closed, ~p.fin,
           p.eof = 0, ~p.failed,
           NEW text \in Seq(0..(StreamLen - 1)), NEW fin \in BOOLEAN,
           NEW k \in Nat, k = Len(text), NEW e \in Nat, e = IF fin THEN 1 ELSE 0,
           k + e > 0, p.wnd + k + e = WND,
           NEW r \in PassOn(p, text, fin)
    PROVE  /\ r \in Pcb /\ Free(r) /\ p.edge <= r.edge /\ r.acked <= r.nxt /\ OwedAck(r)
           /\ r.nxt = p.nxt /\ r.ooseq = p.ooseq /\ r.closed = fin /\ ~r.failed
           /\ k > 0 /\ p.canRead =>
                 /\ ~r.canRead /\ r.read = p.read \o text /\ r.refused = <<>>
                 /\ ~r.fin /\ r.wnd = WND /\ r.eof = e
                 /\ Prompt /\ ~fin => Offered(r)
           /\ k > 0 /\ ~p.canRead =>
                 /\ ~r.canRead /\ r.read = p.read /\ r.refused = text
                 /\ r.fin = fin /\ r.wnd = WND - k - e /\ r.eof = 0
                 /\ ~fin /\ Offered(p) => Offered(r)
           /\ k = 0 =>
                 /\ r.canRead = p.canRead /\ r.read = p.read /\ r.refused = <<>>
                 /\ ~r.fin /\ r.wnd = WND /\ r.eof = 1
<1>1. /\ p.nxt \in Nat /\ p.wnd \in Nat /\ p.edge \in Nat /\ WND \in Nat
      /\ p.canRead \in BOOLEAN
  BY PcbFacts
<1> DEFINE b == tcp_ack(p)
           c == tcp_ack_now(b)
           a == IF fin THEN [c EXCEPT !.closed = TRUE] ELSE b
           passed == IF text # <<>> THEN zp_tcp_recv(a, text) ELSE {a}
<1>2. r \in (IF fin THEN {GotFin(s) : s \in passed} ELSE passed)
  BY DEF PassOn
<1>3. Sent(p, b) /\ OwedAck(b) /\ b.edge = p.edge
  BY AckOK
<1>4. Sent(b, c) /\ OwedAck(c) /\ c.edge = b.edge
  <2>1. b \in Pcb /\ Free(b) /\ b.acked <= b.nxt
    BY <1>3 DEF Sent
  <2> HIDE DEF b
  <2> QED
    BY <2>1, AckOK
<1>5. /\ a \in Pcb /\ Free(a) /\ OwedAck(a) /\ a.acked <= a.nxt
      /\ a.edge = p.edge /\ a.closed = fin /\ ~a.failed /\ ~a.fin
      /\ a.refused = <<>> /\ a.canRead = p.canRead /\ a.read = p.read /\ a.wnd = p.wnd
      /\ a.nxt = p.nxt /\ a.ooseq = p.ooseq /\ a.eof = 0
  <2>1. CASE fin
    <3> DEFINE d == [c EXCEPT !.closed = TRUE]
    <3>1. a = d
      BY <2>1
    <3> HIDE DEF b, c
    <3>2. c \in Pcb /\ Content(p, c) /\ Free(c) /\ OwedAck(c) /\ c.acked <= c.nxt
          /\ c.edge = p.edge
      BY <1>3, <1>4 DEF Sent, Content
    <3>3. /\ d \in Pcb /\ d.edge = c.edge /\ d.closed = TRUE /\ d.failed = c.failed
          /\ d.fin = c.fin /\ d.refused = c.refused /\ d.canRead = c.canRead
          /\ d.read = c.read /\ d.wnd = c.wnd /\ d.nxt = c.nxt /\ d.ooseq = c.ooseq
          /\ d.eof = c.eof /\ d.acked = c.acked /\ d.ann = c.ann /\ d.delay = c.delay
          /\ d.now = c.now
      <4>1. d = Closed(c) /\ c \in Pcb
        BY <3>2 DEF Closed
      <4> HIDE DEF d
      <4>2. IsClosed(c, d)
        BY <4>1, ClosedFacts
      <4> QED
        BY <4>2 DEF IsClosed
    <3> HIDE DEF d
    <3>4. Free(d) /\ OwedAck(d)
      BY <3>2, <3>3 DEF Free, OwedAck
    <3> QED
      BY <2>1, <3>1, <3>2, <3>3, <3>4 DEF Content
  <2>2. CASE ~fin
    <3>1. a = b
      BY <2>2
    <3> HIDE DEF a, b
    <3>2. b \in Pcb /\ Content(p, b) /\ Free(b) /\ OwedAck(b) /\ b.acked <= b.nxt
          /\ b.edge = p.edge
      BY <1>3 DEF Sent
    <3>3. /\ b.failed = p.failed /\ b.fin = p.fin /\ b.refused = p.refused
          /\ b.canRead = p.canRead /\ b.read = p.read /\ b.wnd = p.wnd /\ b.nxt = p.nxt
          /\ b.ooseq = p.ooseq /\ b.eof = p.eof /\ b.closed = p.closed
      BY <3>2 DEF Content
    <3>4. b.closed = FALSE /\ fin = FALSE /\ b.fin = FALSE /\ b.failed = FALSE
      BY <2>2, <3>2, <3>3, PcbFacts
    <3>5. b.closed = fin
      BY <3>4
    <3> QED
      BY <3>1, <3>2, <3>3, <3>4, <3>5
  <2> QED
    BY <2>1, <2>2
<1> HIDE DEF a
<1>6. text = <<>> <=> k = 0
  BY EmptySeq
<1>7. PICK s \in passed : r = IF fin THEN GotFin(s) ELSE s
  BY <1>2
<1>8. /\ s \in Pcb /\ Free(s) /\ p.edge <= s.edge /\ s.acked <= s.nxt /\ OwedAck(s)
      /\ s.nxt = p.nxt /\ s.ooseq = p.ooseq /\ s.closed = fin /\ ~s.failed
      /\ ~s.fin /\ s.eof = 0
      /\ k > 0 /\ p.canRead =>
            /\ ~s.canRead /\ s.read = p.read \o text /\ s.refused = <<>>
            /\ s.wnd = p.wnd + k
            /\ Prompt => Offered(s)
      /\ k > 0 /\ ~p.canRead =>
            /\ ~s.canRead /\ s.read = p.read /\ s.refused = text
            /\ s.wnd = p.wnd
            /\ Offered(p) => Offered(s)
      /\ k = 0 =>
            /\ s.canRead = p.canRead /\ s.read = p.read /\ s.refused = <<>>
            /\ s.wnd = p.wnd
  <2>1. CASE k = 0
    <3>1. s = a
      BY <1>6, <1>7, <2>1
    <3> QED
      BY <1>1, <1>5, <2>1, <3>1
  <2>2. CASE k > 0
    <3>1. s \in zp_tcp_recv(a, text)
      BY <1>6, <1>7, <2>2
    <3>2. a.wnd + Len(text) <= WND
      BY <1>1, <1>5
    <3>3. /\ Kept(a, s) /\ s.fin = a.fin /\ s.eof = a.eof /\ ~s.canRead
          /\ a.canRead => /\ s.refused = <<>> /\ s.read = a.read \o text
                          /\ s.wnd = a.wnd + Len(text)
                          /\ Prompt => Offered(s)
          /\ ~a.canRead => /\ s.refused = text /\ s.read = a.read /\ s.wnd = a.wnd
                           /\ Offered(a) => Offered(s)
      BY <1>5, <3>1, <3>2, RecvOK
    <3>4. Offered(p) => Offered(a)
      BY <1>5 DEF Offered
    <3>5. /\ s \in Pcb /\ Free(s) /\ p.edge <= s.edge /\ s.acked <= s.nxt /\ OwedAck(s)
          /\ s.nxt = p.nxt /\ s.ooseq = p.ooseq /\ s.closed = fin /\ ~s.failed
      BY <1>5, <3>3 DEF Kept
    <3> QED
      BY <1>5, <2>2, <3>3, <3>4, <3>5
  <2> QED
    BY <2>1, <2>2
<1> HIDE DEF passed
<1>9. CASE ~fin
  <2>1. r = s /\ e = 0
    BY <1>7, <1>9
  <2>2. k > 0 /\ p.wnd + k = WND /\ WND - k - e = p.wnd
    BY <1>1, <2>1
  <2>3. CASE p.canRead
    <3>1. s.wnd = WND
      BY <1>1, <1>8, <2>2, <2>3
    <3>2. r.fin = FALSE /\ fin = FALSE /\ ~r.fin
      BY <1>7, <1>8, <1>9, <2>1, PcbFacts
    <3> QED
      BY <1>8, <2>1, <2>2, <2>3, <3>1, <3>2
  <2>4. CASE ~p.canRead
    <3>1. s.wnd = WND - k - e
      BY <1>8, <2>2, <2>4
    <3>2. r.fin = FALSE /\ fin = FALSE /\ ~r.fin
      BY <1>7, <1>8, <1>9, <2>1, PcbFacts
    <3>3. r.fin = fin /\ r.eof = 0 /\ r.wnd = WND - k - e
      BY <1>8, <2>1, <3>1, <3>2
    <3>4. /\ ~r.canRead /\ r.read = p.read /\ r.refused = text
          /\ Offered(p) => Offered(r)
      BY <1>8, <2>1, <2>2, <2>4
    <3>5. ~(k = 0)
      BY <2>2
    <3>6. /\ r \in Pcb /\ Free(r) /\ p.edge <= r.edge /\ r.acked <= r.nxt /\ OwedAck(r)
          /\ r.nxt = p.nxt /\ r.ooseq = p.ooseq /\ r.closed = fin /\ ~r.failed
      BY <1>8, <2>1
    <3> QED
      BY <2>4, <3>3, <3>4, <3>5, <3>6
  <2> QED
    BY <1>1, <2>3, <2>4
<1>10. CASE fin
  <2>1. r = GotFin(s) /\ e = 1
    BY <1>7, <1>10
  <2>2. s.refused = <<>> => s.wnd < WND
    <3>1. s.refused = <<>> => s.wnd = p.wnd + k
      <4>1. k > 0 /\ ~p.canRead => s.refused # <<>>
        BY <1>6, <1>8
      <4> QED
        BY <1>1, <1>8, <4>1
    <3> QED
      BY <1>1, <2>1, <3>1
  <2>3. /\ Kept(s, r) /\ r.canRead = s.canRead /\ r.read = s.read /\ r.refused = s.refused
        /\ s.refused = <<>> => r.fin = s.fin /\ r.eof = 1 /\ r.wnd = s.wnd + 1
        /\ s.refused # <<>> => r.fin /\ r.eof = 0 /\ r.wnd = s.wnd
    BY <1>8, <2>1, <2>2, GotFinOK
  <2>4. /\ r \in Pcb /\ Free(r) /\ p.edge <= r.edge /\ r.acked <= r.nxt /\ OwedAck(r)
        /\ r.nxt = p.nxt /\ r.ooseq = p.ooseq /\ r.closed = fin /\ ~r.failed
    <3>1. p.edge <= s.edge /\ s.edge <= r.edge /\ s.edge \in Nat /\ r.edge \in Nat
      BY <1>8, <2>3, PcbFacts DEF Kept
    <3>2. p.edge <= r.edge
      BY <1>1, <3>1
    <3> QED
      BY <1>8, <2>3, <3>2 DEF Kept
  <2>5. CASE k > 0 /\ p.canRead
    <3>1. s.wnd + 1 = WND
      BY <1>1, <1>8, <2>1, <2>5
    <3> QED
      BY <1>8, <1>10, <2>1, <2>3, <2>4, <2>5, <3>1
  <2>6. CASE k > 0 /\ ~p.canRead
    <3>1. s.refused # <<>> /\ WND - k - e = p.wnd
      BY <1>1, <1>6, <1>8, <2>6
    <3>2. r.fin = TRUE
      BY <2>3, <2>4, <3>1, PcbFacts
    <3> QED
      BY <1>8, <1>10, <2>1, <2>3, <2>4, <2>6, <3>1, <3>2
  <2>7. CASE k = 0
    <3>1. s.wnd + 1 = WND
      BY <1>1, <1>8, <2>1, <2>7
    <3> QED
      BY <1>8, <1>10, <2>1, <2>3, <2>4, <2>7, <3>1
  <2> QED
    BY <2>5, <2>6, <2>7
<1> QED
  BY <1>9, <1>10

\* What leaves a queue that starts at lo: a part of the stream without a gap, of
\* k bytes and the FIN or not, and a queue that starts behind a gap.
LEMMA LeavesOK ==
    ASSUME NEW q, NEW lo \in Nat, NEW right \in Nat, Queue(q, lo, right),
           Len(q) > 0, q[1].seq = lo
    PROVE  LET n == Contiguous(q)
               fin == \E i \in 1..n : q[i].fin
           IN  \E k \in Nat, e \in Nat :
                  /\ FlattenSeq([i \in 1..n |-> q[i].data]) = Stream(lo, k)
                  /\ e = IF fin THEN 1 ELSE 0
                  /\ k + e > 0 /\ lo + k <= StreamLen /\ (fin => lo + k = StreamLen)
                  /\ q[n].seq + TCP_TCPLEN(q[n]) = lo + k + e /\ lo + k + e <= right
                  /\ Queue(SubSeq(q, n + 1, Len(q)), lo + k + e + 1, right)
                  /\ Len(q) = 1 => SubSeq(q, n + 1, Len(q)) = <<>>
<1> DEFINE n == Contiguous(q)
           fin == \E i \in 1..n : q[i].fin
           text == FlattenSeq([i \in 1..n |-> q[i].data])
           rest == SubSeq(q, n + 1, Len(q))
           e == IF fin THEN 1 ELSE 0
           end == SegEnd(q[n])
           k == end - lo
<1>0. Len(q) \in Nat /\ q \in Seq(Segment)
  BY QueueSeq
<1>1. /\ n \in 1..Len(q)
      /\ \A i \in 2..n : q[i].seq = Right(q[i - 1])
      /\ n < Len(q) => Right(q[n]) < q[n + 1].seq
  BY ContiguousOK
<1> HIDE DEF n
<1>2. text = Stream(lo, k) /\ lo <= end
  <2>1. /\ FlattenSeq([i \in 1..n |-> q[i].data]) = Stream(q[1].seq, SegEnd(q[n]) - q[1].seq)
        /\ q[1].seq <= SegEnd(q[n])
    BY <1>1, FlattenStream
  <2> QED
    BY <2>1
<1>3. /\ q[n] \in Segment /\ SegmentOK(q[n]) /\ TCP_TCPLEN(q[n]) > 0
      /\ q[n].fin => n = Len(q)
      /\ lo <= q[n].seq /\ Right(q[n]) <= right
      /\ q[n].seq \in Nat /\ end \in Nat /\ Right(q[n]) \in Nat
  BY <1>1, QueueFacts
<1>4. fin <=> q[n].fin
  <2>1. \A i \in 1..n : q[i].fin => i = n
    <3> TAKE i \in 1..n
    <3>1. i \in 1..Len(q) /\ n \in 1..Len(q) /\ i <= n
      BY <1>0, <1>1
    <3>2. q[i].fin => i = Len(q)
      BY <3>1, QueueFacts
    <3> QED
      BY <1>0, <3>1, <3>2
  <2>2. n \in 1..n
    BY <1>0, <1>1
  <2> QED
    BY <2>1, <2>2
<1>5. /\ end <= StreamLen /\ (q[n].fin => end = StreamLen) /\ Len(q[n].data) \in Nat
      /\ end = q[n].seq + Len(q[n].data)
      /\ TCP_TCPLEN(q[n]) = Len(q[n].data) + (IF q[n].fin THEN 1 ELSE 0)
  BY <1>3, SegmentFacts
<1>6. e \in Nat /\ e = IF q[n].fin THEN 1 ELSE 0
  BY <1>4
<1> DEFINE x == q[n].seq
           v == Len(q[n].data)
           w == TCP_TCPLEN(q[n])
<1>7. /\ x \in Nat /\ v \in Nat /\ end = x + v /\ w = v + e /\ w > 0 /\ lo <= x
      /\ x + w <= right /\ Right(q[n]) = x + w
  BY <1>3, <1>5, <1>6 DEF Right
<1> HIDE DEF e, end, x, v, w
<1>8. /\ k \in Nat /\ k + e > 0 /\ lo + k = end /\ x + w = lo + k + e /\ lo + k + e <= right
  BY <1>2, <1>3, <1>6, <1>7
<1>9. Queue(rest, x + w + 1, right)
  <2>1. \A i \in (n + 1)..Len(q) : x + w + 1 <= q[i].seq
    <3> SUFFICES ASSUME NEW i \in (n + 1)..Len(q)
                 PROVE  x + w + 1 <= q[i].seq
      OBVIOUS
    <3> DEFINE m == n + 1
    <3>1. n < Len(q) /\ m \in 1..Len(q) /\ i \in 1..Len(q) /\ m <= i
      BY <1>0, <1>1
    <3>2. x + w < q[m].seq /\ x + w \in Nat
      BY <1>1, <1>3, <1>7, <3>1
    <3> HIDE DEF m
    <3>3. q[m].seq \in Nat /\ SegEnd(q[m]) \in Nat /\ q[m].seq <= SegEnd(q[m])
          /\ (m < i => SegEnd(q[m]) <= q[i].seq)
      BY <3>1, QueueFacts
    <3>4. q[i].seq \in Nat
      BY <3>1, QueueFacts
    <3>5. CASE m = i
      BY <3>2, <3>4, <3>5
    <3>6. CASE m < i
      BY <3>2, <3>3, <3>4, <3>6
    <3> QED
      BY <1>0, <1>1, <3>1, <3>5, <3>6
  <2>2. n \in 0..Len(q)
    BY <1>0, <1>1
  <2> DEFINE low == x + w + 1
  <2>3. \A i \in (n + 1)..Len(q) : low <= q[i].seq
    BY <2>1
  <2> HIDE DEF low
  <2>4. Queue(SubSeq(q, n + 1, Len(q)), low, right)
    BY <2>2, <2>3, QueueRest
  <2> QED
    BY <2>4 DEF low
<1>10. Len(q) = 1 => rest = <<>>
  BY <1>0, <1>1
<1>11. e = IF fin THEN 1 ELSE 0
  BY DEF e
<1>12. /\ lo + k <= StreamLen /\ (fin => lo + k = StreamLen)
  BY <1>4, <1>5, <1>8
<1>13. /\ q[n].seq + TCP_TCPLEN(q[n]) = lo + k + e
       /\ Queue(rest, lo + k + e + 1, right)
  BY <1>8, <1>9 DEF x, w
<1> HIDE DEF k, fin, text, rest
<1>14. \E kk \in Nat, ee \in Nat :
          /\ text = Stream(lo, kk)
          /\ ee = IF fin THEN 1 ELSE 0
          /\ kk + ee > 0 /\ lo + kk <= StreamLen /\ (fin => lo + kk = StreamLen)
          /\ q[n].seq + TCP_TCPLEN(q[n]) = lo + kk + ee /\ lo + kk + ee <= right
          /\ Queue(rest, lo + kk + ee + 1, right)
          /\ Len(q) = 1 => rest = <<>>
  <2>1. k \in Nat /\ e \in Nat
    BY <1>6, <1>8
  <2> QED
    BY <1>2, <1>8, <1>10, <1>11, <1>12, <1>13, <2>1
<1> QED
  BY <1>14 DEF fin, text, rest, n

\* AcceptInSequence of ZPTCPConnection, with some number of bytes.
CoreAccepts(p, r) ==
    /\ ~p.closed
    /\ RxOf(p).refused = 0
    /\ \E d \in Core!InSequence(RxOf(p)) :
          RxOf(r) = Core!AcceptInSequence(
              RxOf(p), conn, Core!TrimmedLen(RxOf(p), d[1]),
              Core!TrimmedFin(RxOf(p), d[1], d[2]), -1)

\* The same room in front of the edge.
LEMMA OfferedSame ==
    ASSUME NEW p \in Pcb, NEW u \in Pcb, u.nxt + u.wnd = p.nxt + p.wnd, u.edge = p.edge,
           Offered(p)
    PROVE  Offered(u)
<1>1. /\ p.nxt \in Nat /\ p.wnd \in Nat /\ p.edge \in Nat
      /\ u.nxt \in Nat /\ u.wnd \in Nat /\ u.edge \in Nat
  BY PcbFacts
<1>2. u.nxt + u.wnd - u.edge = p.nxt + p.wnd - p.edge
  <2> DEFINE a == p.nxt
             b == p.wnd
             c == u.nxt
             d == u.wnd
             e == p.edge
  <2>1. a \in Nat /\ b \in Nat /\ c \in Nat /\ d \in Nat /\ e \in Nat /\ c + d = a + b
    BY <1>1
  <2>2. u.edge = e
    OBVIOUS
  <2> HIDE DEF a, b, c, d, e
  <2>3. c + d - e = a + b - e
    BY <2>1
  <2> QED
    BY <2>2, <2>3 DEF a, b, c, d, e
<1> QED
  BY <1>2 DEF Offered

\* The window shrinks by what it received.
LEMMA WindowSum ==
    ASSUME NEW a \in Nat, NEW b \in Nat, NEW m \in Nat, NEW l \in Nat, NEW h, NEW w,
           h = a + m, h <= l + 1, h <= a + b, w = b - (h - a)
    PROVE  w = b - m /\ w \in 0..b /\ h \in 0..(l + 1) /\ h + w = a + b
OBVIOUS

\* The first segments of a queue are taken from the window, and the window to
\* announce is computed: the edge stays where it is.
LEMMA TakeOK ==
    ASSUME NEW p \in Pcb, Free(p), p.acked <= p.nxt, p.wnd = WND,
           NEW q, NEW n, NEW h, h = q[n].seq + TCP_TCPLEN(q[n]), SubSeq(q, n + 1, Len(q)) \in Seq(Segment),
           NEW m \in Nat, h = p.nxt + m, h <= StreamLen + 1, h <= p.nxt + p.wnd
    PROVE  LET u == tcp_update_rcv_ann_wnd(Take(p, q, n))
           IN  /\ u \in Pcb /\ Free(u) /\ u.acked <= u.nxt
               /\ u.nxt = h /\ u.wnd = WND - m /\ u.ooseq = SubSeq(q, n + 1, Len(q))
               /\ u.edge = p.edge /\ u.refused = p.refused /\ u.fin = p.fin
               /\ u.closed = p.closed /\ u.canRead = p.canRead /\ u.read = p.read
               /\ u.eof = p.eof /\ u.failed = p.failed
               /\ Offered(p) => Offered(u)
<1>1. /\ p.nxt \in Nat /\ p.wnd \in Nat /\ p.edge \in Nat /\ p.acked \in Nat /\ WND \in Nat
      /\ StreamLen \in Nat
  BY PcbFacts
<1> DEFINE t == Take(p, q, n)
           u == tcp_update_rcv_ann_wnd(t)
           w == p.wnd - (h - p.nxt)
           o == SubSeq(q, n + 1, Len(q))
<1>2. w = WND - m /\ w \in 0..WND /\ h \in 0..(StreamLen + 1) /\ h + w = p.nxt + p.wnd
  <2> DEFINE a == p.nxt
             b == p.wnd
  <2>1. /\ a \in Nat /\ b \in Nat /\ b = WND /\ StreamLen \in Nat
        /\ h = a + m /\ h <= StreamLen + 1 /\ h <= a + b /\ w = b - (h - a)
    BY <1>1
  <2> HIDE DEF a, b, w
  <2>2. w = b - m /\ w \in 0..b /\ h \in 0..(StreamLen + 1) /\ h + w = a + b
    BY <2>1, WindowSum
  <2> QED
    BY <2>1, <2>2 DEF a, b
<1>3. t = [p EXCEPT !.nxt = h, !.wnd = w, !.ooseq = o]
  BY DEF Take
<1> HIDE DEF t, w, o
<1>4. t \in Pcb
  <2>1. o \in Seq(Segment)
    BY DEF o
  <2> QED
    BY <1>2, <1>3, <2>1 DEF Pcb
<1>5. /\ t.nxt = h /\ t.wnd = w /\ t.ooseq = o /\ t.edge = p.edge /\ t.acked = p.acked
      /\ t.refused = p.refused /\ t.fin = p.fin
      /\ t.closed = p.closed /\ t.canRead = p.canRead /\ t.read = p.read
      /\ t.eof = p.eof /\ t.failed = p.failed
  BY <1>3 DEF Pcb
<1>6. t.edge <= t.nxt + t.wnd
  BY <1>1, <1>2, <1>5 DEF Free
<1>7. /\ u \in Pcb /\ Free(u) /\ Content(t, u)
      /\ u.edge = t.edge /\ u.acked = t.acked
  BY <1>4, <1>6, UpdateOK
<1> HIDE DEF u
<1>8. /\ u.nxt = h /\ u.wnd = WND - m /\ u.ooseq = o /\ u.edge = p.edge
      /\ u.refused = p.refused /\ u.fin = p.fin
      /\ u.closed = p.closed /\ u.canRead = p.canRead /\ u.read = p.read
      /\ u.eof = p.eof /\ u.failed = p.failed
  BY <1>2, <1>5, <1>7 DEF Content
<1>9. u.acked <= u.nxt
  BY <1>1, <1>5, <1>7, <1>8
<1>10. Offered(p) => Offered(u)
  <2>1. u.nxt + u.wnd = p.nxt + p.wnd /\ u.edge = p.edge
    BY <1>2, <1>8
  <2> QED
    BY <1>7, <2>1, OfferedSame
<1> QED
  BY <1>7, <1>8, <1>9, <1>10 DEF u, t, o

\* The counts after a part of the stream was accepted are those of ZPTCPConnection.
LEMMA AcceptsOK ==
    ASSUME NEW p, POK(p), ~p.closed, p.refused = <<>>, ~p.fin, p.wnd = WND, p.eof = 0,
           NEW k \in Nat, NEW fin \in BOOLEAN, NEW e \in Nat, e = IF fin THEN 1 ELSE 0,
           k + e > 0, p.nxt + k <= StreamLen, fin => p.nxt + k = StreamLen, k + e <= WND,
           NEW r \in Pcb, r.nxt = p.nxt + k + e,
           k > 0 /\ p.canRead =>
              /\ ~r.canRead /\ Len(r.read) = Len(p.read) + k /\ Len(r.refused) = 0
              /\ ~r.fin /\ r.wnd = WND /\ r.eof = e,
           k > 0 /\ ~p.canRead =>
              /\ ~r.canRead /\ Len(r.read) = Len(p.read) /\ Len(r.refused) = k
              /\ r.fin = fin /\ r.wnd = WND - k - e /\ r.eof = 0,
           k = 0 =>
              /\ r.canRead = p.canRead /\ Len(r.read) = Len(p.read) /\ Len(r.refused) = 0
              /\ ~r.fin /\ r.wnd = WND /\ r.eof = 1
    PROVE  CoreAccepts(p, r)
<1> DEFINE R == RxOf(p)
           S == RxOf(r)
<1>0. /\ p \in Pcb /\ p.nxt \in Nat /\ WND \in Nat /\ StreamLen \in Nat
      /\ p.fin = FALSE /\ r.fin \in BOOLEAN /\ r.canRead \in BOOLEAN
  BY PcbFacts DEF POK
<1>1. R \in RxSet /\ S \in RxSet
  BY <1>0, RxOfSet
<1>2. /\ R.nxt = p.nxt /\ R.wnd = WND /\ R.refused = 0 /\ R.fin = FALSE
      /\ R.canRead = p.canRead /\ R.read = Len(p.read) /\ R.eof = 0
  <2>1. Len(p.refused) = 0
    BY EmptySeq
  <2> QED
    BY <1>0, <2>1 DEF RxOf
<1>3. /\ S.nxt = r.nxt /\ S.wnd = r.wnd /\ S.refused = Len(r.refused) /\ S.fin = r.fin
      /\ S.canRead = r.canRead /\ S.read = Len(r.read) /\ S.eof = r.eof
  BY DEF RxOf
<1> HIDE DEF R, S
<1>4. S = Core!AcceptInSequence(R, conn, k, fin, -1)
  <2>1. R.canRead \in BOOLEAN /\ S.canRead \in BOOLEAN /\ S.fin \in BOOLEAN
    BY <1>1 DEF RxSet
  <2>2. /\ S.nxt = R.nxt + k + e
        /\ k > 0 /\ R.canRead =>
              /\ S.canRead = FALSE /\ S.read = R.read + k /\ S.refused = 0
              /\ S.fin = FALSE /\ S.wnd = WND /\ S.eof = R.eof + e
    BY <1>2, <1>3, <2>1
  <2>3. k > 0 /\ ~R.canRead =>
           /\ S.canRead = FALSE /\ S.read = R.read /\ S.refused = k
           /\ S.fin = fin /\ S.wnd = WND - k - e /\ S.eof = R.eof
    BY <1>2, <1>3, <2>1
  <2>4. k = 0 =>
           /\ S.canRead = R.canRead /\ S.read = R.read /\ S.refused = 0
           /\ S.fin = FALSE /\ S.wnd = WND /\ S.eof = R.eof + 1
    BY <1>2, <1>3, <2>1
  <2> QED
    <3>1. R \in RxSet /\ S \in RxSet /\ R.refused = 0 /\ R.fin = FALSE /\ R.wnd = WND
      BY <1>1, <1>2
    <3>2. k \in Nat /\ fin \in BOOLEAN /\ e \in Nat /\ k + e > 0 /\ k + e <= WND
          /\ e = IF fin THEN 1 ELSE 0
      OBVIOUS
    <3> QED
      BY <2>2, <2>3, <2>4, <3>1, <3>2, CoreAccept, ZenonT(60)
<1>5. Core!TrimmedLen(R, k) = k
  BY <1>0, <1>2 DEF Core!TrimmedLen, Core!Min2
<1>6. Core!TrimmedFin(R, k, fin) = fin
  <2>1. fin => k < R.wnd
    BY <1>0, <1>2
  <2> QED
    BY <2>1 DEF Core!TrimmedFin
<1>7. <<k, fin>> \in Core!InSequence(R)
  BY <1>0, <1>2 DEF Core!InSequence
<1>8. \E d \in Core!InSequence(R) :
         S = Core!AcceptInSequence(
                 R, conn, Core!TrimmedLen(R, d[1]), Core!TrimmedFin(R, d[1], d[2]), -1)
  <2> DEFINE d == <<k, fin>>
  <2>1. d[1] = k /\ d[2] = fin
    OBVIOUS
  <2>2. d \in Core!InSequence(R)
    BY <1>7
  <2> HIDE DEF d
  <2>3. S = Core!AcceptInSequence(
                 R, conn, Core!TrimmedLen(R, d[1]), Core!TrimmedFin(R, d[1], d[2]), -1)
    BY <1>4, <1>5, <1>6, <2>1
  <2> QED
    BY <2>2, <2>3
<1> QED
  BY <1>2, <1>8 DEF CoreAccepts, R, S

\* A queue that starts at rcv_nxt is accepted up to its first gap.
LEMMA AcceptQueueOK ==
    ASSUME NEW p, POK(p), ~p.closed, p.refused = <<>>,
           NEW q, NEW right \in Nat, Queue(q, p.nxt, right), Len(q) > 0, q[1].seq = p.nxt,
           right <= p.nxt + p.wnd, right <= p.edge \/ Len(q) = 1,
           NEW r \in AcceptQueue(p, q)
    PROVE  Good(p, r) /\ CoreAccepts(p, r)
<1>1. /\ p \in Pcb /\ Free(p) /\ p.acked <= p.nxt /\ Delivered(p) /\ EndKept(p) /\ ~p.failed
  BY DEF POK
<1>2. /\ p.nxt \in Nat /\ p.wnd \in Nat /\ p.edge \in Nat /\ WND \in Nat /\ StreamLen \in Nat
      /\ p.canRead \in BOOLEAN /\ p.read \in Seq(0..(StreamLen - 1)) /\ Len(p.read) \in Nat
      /\ p.eof \in 0..1
  <2>1. p.eof \in 0..1
    BY <1>1 DEF Pcb
  <2> QED
    BY <1>1, <2>1, PcbFacts
<1>3. ~p.fin /\ p.eof = 0 /\ p.wnd = WND /\ p.read = Stream(0, p.nxt)
  <2>1. ~p.fin
    BY <1>1 DEF EndKept
  <2>2. p.eof # 1
    BY <1>1 DEF EndKept
  <2>3. p.wnd + 0 + 0 = WND
    <3>1. Len(p.refused) = 0 /\ FinBit(p) = 0
      BY <2>1, EmptySeq DEF FinBit
    <3> QED
      BY <1>1, <3>1 DEF EndKept
  <2>4. p.read \o p.refused = p.read
    BY <1>2, ConcatEmptySeq
  <2>5. p.read = Stream(0, p.nxt)
    BY <1>1, <2>4 DEF Delivered
  <2> QED
    BY <1>2, <2>1, <2>2, <2>3, <2>5
<1> DEFINE n == Contiguous(q)
           text == FlattenSeq([i \in 1..n |-> q[i].data])
           fin == \E i \in 1..n : q[i].fin
           h == q[n].seq + TCP_TCPLEN(q[n])
           rest == SubSeq(q, n + 1, Len(q))
           u == tcp_update_rcv_ann_wnd(Take(p, q, n))
<1>4. PICK k \in Nat, e \in Nat :
         /\ text = Stream(p.nxt, k)
         /\ e = IF fin THEN 1 ELSE 0
         /\ k + e > 0 /\ p.nxt + k <= StreamLen /\ (fin => p.nxt + k = StreamLen)
         /\ h = p.nxt + k + e /\ p.nxt + k + e <= right
         /\ Queue(rest, p.nxt + k + e + 1, right)
         /\ Len(q) = 1 => rest = <<>>
  BY <1>2, LeavesOK
<1>5. r \in PassOn(u, text, fin)
  <2>1. ~(h > p.nxt + p.wnd)
    BY <1>2, <1>4, SMTT(30)
  <2> QED
    BY <2>1 DEF AcceptQueue
<1>6. h <= StreamLen + 1 /\ h <= p.nxt + p.wnd /\ h \in Nat /\ k + e <= WND
      /\ (h = StreamLen + 1 <=> fin) /\ k + e \in Nat
  <2> DEFINE a == p.nxt
             b == p.wnd
  <2>1. /\ a \in Nat /\ b \in Nat /\ b = WND /\ StreamLen \in Nat
        /\ h = a + k + e /\ a + k + e <= right /\ right <= a + b
        /\ a + k <= StreamLen /\ (fin => a + k = StreamLen)
        /\ e = IF fin THEN 1 ELSE 0
    BY <1>2, <1>3, <1>4
  <2> HIDE DEF a, b, h, fin
  <2>2. h <= StreamLen + 1 /\ h <= a + b /\ h \in Nat /\ k + e <= WND
        /\ (h = StreamLen + 1 <=> fin) /\ k + e \in Nat
    BY <2>1
  <2> QED
    BY <2>2 DEF a, b
<1>7. /\ u \in Pcb /\ Free(u) /\ u.acked <= u.nxt
      /\ u.nxt = h /\ u.wnd = WND - (k + e) /\ u.ooseq = rest
      /\ u.edge = p.edge /\ u.refused = p.refused /\ u.fin = p.fin
      /\ u.closed = p.closed /\ u.canRead = p.canRead /\ u.read = p.read
      /\ u.eof = p.eof /\ u.failed = p.failed
      /\ Offered(p) => Offered(u)
  <2> DEFINE m == k + e
  <2>1. m \in Nat /\ h = p.nxt + m
    <3> DEFINE a == p.nxt
    <3>1. a \in Nat /\ h = a + k + e
      BY <1>2, <1>4
    <3> HIDE DEF a, h
    <3>2. m \in Nat /\ h = a + m
      BY <3>1
    <3> QED
      BY <3>2 DEF a
  <2>2. rest \in Seq(Segment)
    BY <1>4, QueueSeq
  <2> HIDE DEF m, n
  <2>3. /\ u \in Pcb /\ Free(u) /\ u.acked <= u.nxt
        /\ u.nxt = h /\ u.wnd = WND - m /\ u.ooseq = rest
        /\ u.edge = p.edge /\ u.refused = p.refused /\ u.fin = p.fin
        /\ u.closed = p.closed /\ u.canRead = p.canRead /\ u.read = p.read
        /\ u.eof = p.eof /\ u.failed = p.failed
        /\ Offered(p) => Offered(u)
    BY <1>1, <1>3, <1>6, <2>1, <2>2, TakeOK
  <2> QED
    BY <2>3 DEF m
<1>8. fin \in BOOLEAN
  OBVIOUS
<1> HIDE DEF u, text, fin, rest, h, n
<1>9. /\ Len(text) = k /\ text \in Seq(0..(StreamLen - 1))
  BY <1>2, <1>4, StreamSeq
<1>10. /\ r \in Pcb /\ Free(r) /\ u.edge <= r.edge /\ r.acked <= r.nxt /\ OwedAck(r)
       /\ r.nxt = u.nxt /\ r.ooseq = u.ooseq /\ r.closed = fin /\ ~r.failed
       /\ k > 0 /\ u.canRead =>
             /\ ~r.canRead /\ r.read = u.read \o text /\ r.refused = <<>>
             /\ ~r.fin /\ r.wnd = WND /\ r.eof = e
             /\ Prompt /\ ~fin => Offered(r)
       /\ k > 0 /\ ~u.canRead =>
             /\ ~r.canRead /\ r.read = u.read /\ r.refused = text
             /\ r.fin = fin /\ r.wnd = WND - k - e /\ r.eof = 0
             /\ ~fin /\ Offered(u) => Offered(r)
       /\ k = 0 =>
             /\ r.canRead = u.canRead /\ r.read = u.read /\ r.refused = <<>>
             /\ ~r.fin /\ r.wnd = WND /\ r.eof = 1
  <2>1. /\ u \in Pcb /\ Free(u) /\ u.acked <= u.nxt /\ u.refused = <<>> /\ ~u.closed /\ ~u.fin
        /\ u.eof = 0 /\ ~u.failed
    BY <1>1, <1>3, <1>7
  <2>2. /\ k = Len(text) /\ e = IF fin THEN 1 ELSE 0
    BY <1>4, <1>9
  <2>3. u.wnd + k + e = WND /\ k + e > 0
    <3> DEFINE w == u.wnd
    <3>1. w = WND - (k + e) /\ WND \in Nat /\ k + e > 0
      BY <1>2, <1>4, <1>7
    <3> HIDE DEF w, u
    <3>2. w + k + e = WND
      BY <3>1
    <3> QED
      BY <3>1, <3>2 DEF w
  <2> QED
    BY <1>5, <1>8, <1>9, <2>1, <2>2, <2>3, PassOnOK
<1>11. \/ k > 0 /\ p.canRead
       \/ k > 0 /\ ~p.canRead
       \/ k = 0 /\ e = 1 /\ fin
  BY <1>4
<1>12. /\ r \in Pcb /\ r.nxt = p.nxt + k + e /\ r.nxt = h /\ r.ooseq = rest /\ r.closed = fin
       /\ p.edge <= r.edge
  BY <1>4, <1>7, <1>10
<1>13. p.read \o text = Stream(0, p.nxt + k)
  <2> DEFINE a == 0
             x == p.nxt
  <2>1. a \in Nat /\ x \in Nat /\ a + x = x
    BY <1>2
  <2>2. p.read = Stream(a, x) /\ text = Stream(x, k)
    BY <1>3, <1>4
  <2> HIDE DEF a, x
  <2>3. Stream(a, x) \o Stream(a + x, k) = Stream(a, x + k)
    BY <2>1, StreamJoin, ZenonT(30)
  <2>4. p.read \o text = Stream(a, x + k)
    BY <2>1, <2>2, <2>3
  <2> QED
    BY <2>4 DEF a, x
<1>14. Delivered(r)
  <2>1. p.nxt + k = IF r.closed THEN StreamLen ELSE r.nxt
    BY <1>2, <1>4, <1>12
  <2>2. r.read \o r.refused = p.read \o text
    <3>1. CASE k > 0 /\ p.canRead
      <4>1. r.read = p.read \o text /\ r.refused = <<>>
        BY <1>7, <1>10, <3>1
      <4>2. r.read \in Seq(0..(StreamLen - 1))
        BY <1>12, PcbFacts
      <4> QED
        BY <4>1, <4>2, ConcatEmptySeq
    <3>2. CASE k > 0 /\ ~p.canRead
      BY <1>7, <1>10, <3>2
    <3>3. CASE k = 0
      BY <1>7, <1>9, <1>10, <3>3, EmptySeq
    <3> QED
      BY <1>11, <3>1, <3>2, <3>3
  <2> QED
    BY <1>13, <2>1, <2>2 DEF Delivered
<1>15. EndKept(r)
  <2>1. r.closed <=> r.nxt = StreamLen + 1
    BY <1>6, <1>12
  <2>2. text = <<>> <=> k = 0
    BY <1>9, EmptySeq
  <2>3. r.fin => r.closed /\ r.refused # <<>>
    BY <1>7, <1>10, <1>11, <1>12, <2>2
  <2>4. r.eof = 1 <=> r.closed /\ ~r.fin
    <3>1. r.closed = fin /\ e = IF fin THEN 1 ELSE 0
      BY <1>4, <1>12
    <3>2. CASE k > 0 /\ p.canRead
      <4>1. ~r.fin /\ r.eof = e
        BY <1>7, <1>10, <3>2
      <4> QED
        BY <3>1, <4>1
    <3>3. CASE k > 0 /\ ~p.canRead
      <4>1. r.fin = fin /\ r.eof = 0
        BY <1>7, <1>10, <3>3
      <4> QED
        BY <3>1, <4>1
    <3>4. CASE k = 0 /\ fin
      <4>1. ~r.fin /\ r.eof = 1
        BY <1>10, <3>4
      <4> QED
        BY <3>1, <3>4, <4>1
    <3> QED
      BY <1>11, <3>2, <3>3, <3>4
  <2>5. r.eof = 1 => r.refused = <<>>
    BY <1>7, <1>10, <1>11
  <2>6. r.wnd + Len(r.refused) + FinBit(r) = WND
    <3>1. CASE (k > 0 /\ p.canRead) \/ (k = 0)
      <4>1. Len(r.refused) = 0 /\ FinBit(r) = 0 /\ r.wnd = WND
        BY <1>7, <1>10, <3>1, EmptySeq DEF FinBit
      <4> QED
        BY <1>2, <4>1
    <3>2. CASE k > 0 /\ ~p.canRead
      <4>1. Len(r.refused) = k /\ FinBit(r) = e /\ r.wnd = WND - k - e
        BY <1>4, <1>7, <1>9, <1>10, <3>2 DEF FinBit
      <4> QED
        BY <1>2, <4>1
    <3> QED
      BY <1>11, <3>1, <3>2
  <2> QED
    BY <2>1, <2>3, <2>4, <2>5, <2>6 DEF EndKept
<1>16. Queue(r.ooseq, r.nxt + 1, r.edge)
  <2> DEFINE a == p.nxt + k + e + 1
  <2>1. Queue(rest, a, right) /\ r.nxt + 1 = a /\ r.ooseq = rest
    BY <1>4, <1>12
  <2>2. r.edge \in Nat
    BY <1>12, PcbFacts
  <2> HIDE DEF a
  <2>3. CASE right <= p.edge
    <3>1. right <= r.edge
      BY <1>2, <1>12, <2>2, <2>3
    <3>2. Queue(rest, a, r.edge)
      BY <2>1, <2>2, <3>1, QueueWider
    <3> QED
      BY <2>1, <3>2
  <2>4. CASE Len(q) = 1
    <3>1. rest = <<>>
      BY <1>4, <2>4
    <3>2. Queue(<<>>, a, r.edge)
      BY DEF Queue
    <3> QED
      BY <2>1, <3>1, <3>2
  <2> QED
    BY <2>3, <2>4
<1>17. r.closed => r.ooseq = <<>>
  <2> SUFFICES ASSUME r.closed
               PROVE  r.ooseq = <<>>
    OBVIOUS
  <2> DEFINE o == r.ooseq
             a == r.nxt + 1
  <2>1. Queue(o, a, r.edge) /\ a = StreamLen + 2
    BY <1>2, <1>6, <1>12, <1>16, SMTT(30)
  <2>2. o \in Seq(Segment)
    BY <1>12, PcbFacts
  <2> HIDE DEF o, a
  <2>3. o # <<>> => FALSE
    <3> SUFFICES ASSUME o # <<>>
                 PROVE  FALSE
      OBVIOUS
    <3>1. 1 \in 1..Len(o)
      BY <2>2
    <3>2. o[1] \in Segment /\ a <= o[1].seq
      BY <2>1, <3>1, QueueFacts
    <3>3. o[1].seq \in 0..StreamLen
      BY <3>2 DEF Segment
    <3> QED
      BY <1>2, <2>1, <3>2, <3>3
  <2> QED
    BY <2>3 DEF o
<1>18. POK(r)
  BY <1>10, <1>14, <1>15, <1>16, <1>17 DEF POK
<1>19. Prompt /\ Owing(p) => Owing(r)
  <2> SUFFICES ASSUME Prompt, Owing(p)
               PROVE  Owing(r)
    OBVIOUS
  <2>1. Offered(p)
    BY DEF Owing
  <2>2. ~r.closed => Offered(r)
    BY <1>7, <1>10, <1>11, <1>12, <2>1
  <2> QED
    BY <1>10, <2>2 DEF Owing
<1>20. Good(p, r)
  BY <1>12, <1>18, <1>19 DEF Good
<1>21. CoreAccepts(p, r)
  <2>1. k > 0 /\ p.canRead =>
           /\ ~r.canRead /\ Len(r.read) = Len(p.read) + k /\ Len(r.refused) = 0
           /\ ~r.fin /\ r.wnd = WND /\ r.eof = e
    <3>1. Len(p.read \o text) = Len(p.read) + k
      BY <1>2, <1>9, ConcatProperties
    <3> QED
      BY <1>7, <1>10, <3>1, EmptySeq
  <2>2. k > 0 /\ ~p.canRead =>
           /\ ~r.canRead /\ Len(r.read) = Len(p.read) /\ Len(r.refused) = k
           /\ r.fin = fin /\ r.wnd = WND - k - e /\ r.eof = 0
    BY <1>7, <1>9, <1>10
  <2>3. k = 0 =>
           /\ r.canRead = p.canRead /\ Len(r.read) = Len(p.read) /\ Len(r.refused) = 0
           /\ ~r.fin /\ r.wnd = WND /\ r.eof = 1
    BY <1>7, <1>10, EmptySeq
  <2>4. /\ e = IF fin THEN 1 ELSE 0
        /\ k + e > 0 /\ p.nxt + k <= StreamLen /\ (fin => p.nxt + k = StreamLen)
    BY <1>4
  <2> QED
    <3>1. POK(p) /\ ~p.closed /\ p.refused = <<>> /\ ~p.fin /\ p.wnd = WND /\ p.eof = 0
      BY <1>3
    <3>2. k + e <= WND /\ r \in Pcb /\ r.nxt = p.nxt + k + e
      BY <1>6, <1>12
    <3> QED
      BY <1>8, <2>1, <2>2, <2>3, <2>4, <3>1, <3>2, AcceptsOK, ZenonT(60)
<1> QED
  BY <1>20, <1>21

\* A step that only changes acknowledgements, or one after which the counts are
\* those of ZPTCPConnection.
Receives(p, r) == Good(p, r) /\ (RxOf(r) = RxOf(p) \/ CoreAccepts(p, r))

\* A segment of the peer as the receiver meets it: it ends at the announced edge, or
\* it is a probe that starts no later than rcv_nxt.
Arrives(p, s) ==
    /\ s \in Segment /\ SegmentOK(s) /\ TCP_TCPLEN(s) > 0
    /\ Right(s) <= p.edge \/ (s.seq <= p.nxt /\ TCP_TCPLEN(s) = 1)

\* Another queue.
LEMMA QueuedOK ==
    ASSUME NEW p, POK(p), NEW o, Queue(o, p.nxt + 1, p.edge), p.closed => o = <<>>,
           NEW q, q = [p EXCEPT !.ooseq = o]
    PROVE  /\ Good(p, q) /\ RxOf(q) = RxOf(p) /\ q.closed = p.closed
           /\ q.refused = p.refused /\ q.nxt = p.nxt
<1>1. /\ p \in Pcb /\ Free(p) /\ p.acked <= p.nxt /\ Delivered(p) /\ EndKept(p) /\ ~p.failed
  BY DEF POK
<1>2. o \in Seq(Segment)
  BY QueueSeq
<1>3. q \in Pcb
  BY <1>1, <1>2 DEF Pcb
<1>4. /\ q.ooseq = o /\ q.nxt = p.nxt /\ q.wnd = p.wnd /\ q.ann = p.ann /\ q.edge = p.edge
      /\ q.refused = p.refused /\ q.fin = p.fin /\ q.delay = p.delay /\ q.now = p.now
      /\ q.closed = p.closed /\ q.canRead = p.canRead /\ q.read = p.read /\ q.eof = p.eof
      /\ q.acked = p.acked /\ q.failed = p.failed
  BY <1>1 DEF Pcb
<1>5. Free(q) /\ Delivered(q) /\ (Owing(p) => Owing(q))
  BY <1>1, <1>4 DEF Free, Delivered, Owing, OwedAck, Offered
<1>6. EndKept(q)
  <2>1. FinBit(q) = FinBit(p)
    BY <1>4 DEF FinBit
  <2> QED
    BY <1>1, <1>4, <2>1 DEF EndKept
<1>7. POK(q)
  BY <1>1, <1>3, <1>4, <1>5, <1>6 DEF POK
<1>8. p.edge <= q.edge
  BY <1>1, <1>4, PcbFacts
<1>9. RxOf(q) = RxOf(p)
  BY <1>4 DEF RxOf
<1> QED
  BY <1>4, <1>5, <1>7, <1>8, <1>9 DEF Good

\* The sequence number behind a segment is a number.
LEMMA RightNat ==
    ASSUME NEW s \in Segment, SegmentOK(s)
    PROVE  Right(s) \in Nat /\ SegEnd(s) <= Right(s)
<1> DEFINE a == s.seq
           v == Len(s.data)
           d == IF s.fin THEN 1 ELSE 0
<1>1. /\ a \in Nat /\ v \in Nat /\ SegEnd(s) = a + v /\ TCP_TCPLEN(s) = v + d
  BY SegmentFacts
<1>2. d \in Nat
  OBVIOUS
<1>3. Right(s) = a + (v + d)
  BY <1>1 DEF Right
<1> HIDE DEF a, v, d
<1> QED
  BY <1>1, <1>2, <1>3

\* What is put in front of an empty queue is alone.
LEMMA InsertAlone ==
    ASSUME NEW c \in Segment
    PROVE  Len(tcp_oos_insert_segment(c, <<>>)) = 1
<1> DEFINE n == Covered(<<>>, SegEnd(c))
           merged == [c EXCEPT !.fin = \E i \in 1..n : <<>>[i].fin]
           rest == SubSeq(<<>>, n + 1, Len(<<>>))
<1>1. CASE c.fin
  BY <1>1 DEF tcp_oos_insert_segment
<1>2. CASE ~c.fin
  <2>1. SelectInSeq(<<>>, LAMBDA s : SegEnd(s) > SegEnd(c)) = 0
    <3>1. {i \in 1..Len(<<>>) : SegEnd(<<>>[i]) > SegEnd(c)} = {}
      OBVIOUS
    <3> QED
      BY <3>1 DEF SelectInSeq
  <2>2. n = 0
    BY <2>1 DEF Covered
  <2> HIDE DEF n
  <2>3. rest = <<>>
    BY <2>2
  <2> HIDE DEF merged
  <2>4. tcp_oos_insert_segment(c, <<>>) = <<merged>> \o rest
    <3>1. tcp_oos_insert_segment(c, <<>>) =
             IF rest # <<>> /\ SegEnd(c) > rest[1].seq
             THEN <<CutRight(merged, rest[1].seq)>> \o rest
             ELSE <<merged>> \o rest
      BY <1>2 DEF tcp_oos_insert_segment, n, merged
    <3> HIDE DEF rest
    <3> QED
      BY <2>3, <3>1
  <2>5. <<merged>> \in Seq({merged}) /\ Len(<<merged>>) = 1
    OBVIOUS
  <2>6. <<merged>> \o rest = <<merged>>
    BY <2>3, <2>5, ConcatEmptySeq
  <2> QED
    BY <2>4, <2>5, <2>6
<1> QED
  BY <1>1, <1>2

\* The segment that rcv_nxt waits for.
LEMMA AcceptOK ==
    ASSUME NEW p, POK(p), ~p.closed, p.refused = <<>>,
           NEW s, Arrives(p, s), s.seq = p.nxt, p.wnd > 0,
           NEW r \in Accept(p, s)
    PROVE  Good(p, r) /\ CoreAccepts(p, r)
<1>1. p \in Pcb /\ Free(p) /\ Queue(p.ooseq, p.nxt + 1, p.edge)
  BY DEF POK
<1>2. /\ p.nxt \in Nat /\ p.wnd \in Nat /\ p.edge \in Nat /\ p.edge <= p.nxt + p.wnd
  BY <1>1, PcbFacts DEF Free
<1>3. s \in Segment /\ SegmentOK(s) /\ TCP_TCPLEN(s) > 0
      /\ (Right(s) <= p.edge \/ TCP_TCPLEN(s) = 1)
  BY DEF Arrives
<1> DEFINE window == p.nxt + p.wnd
           c == CutToWindow(s, window)
           q == tcp_oos_insert_segment(c, p.ooseq)
<1>4. window \in Nat /\ s.seq < window
  BY <1>2
<1>5. r \in AcceptQueue(p, q)
  BY DEF Accept
<1>6. /\ c \in Segment /\ SegmentOK(c) /\ TCP_TCPLEN(c) > 0
      /\ c.seq = p.nxt /\ Right(c) <= window
      /\ Right(s) <= window => c = s
  <2> HIDE DEF window
  <2> QED
    BY <1>3, <1>4, CutToWindowOK
<1> HIDE DEF c, q
<1>7. CASE Right(s) <= p.edge
  <2>1. c = s
    <3> DEFINE x == Right(s)
    <3>1. x \in Nat
      BY <1>3, RightNat
    <3>2. x <= window
      <4> HIDE DEF x
      <4> QED
        BY <1>2, <1>7, <3>1 DEF x
    <3> QED
      BY <1>6, <3>2
  <2>2. \A i \in 1..Len(p.ooseq) : c.seq < p.ooseq[i].seq
    <3> TAKE i \in 1..Len(p.ooseq)
    <3>1. p.nxt + 1 <= p.ooseq[i].seq /\ p.ooseq[i].seq \in Nat
      BY <1>1, QueueFacts
    <3> QED
      BY <1>2, <1>6, <3>1
  <2>3. \A i \in 1..Len(p.ooseq) : /\ c.seq <= p.ooseq[i].seq
                                   /\ c.seq = p.ooseq[i].seq => SegEnd(p.ooseq[i]) <= SegEnd(c)
    <3> TAKE i \in 1..Len(p.ooseq)
    <3>1. p.ooseq[i].seq \in Nat
      BY <1>1, QueueFacts
    <3>2. c.seq < p.ooseq[i].seq /\ c.seq \in Nat
      BY <1>2, <1>6, <2>2
    <3> QED
      BY <3>1, <3>2
  <2> DEFINE lo == p.nxt + 1
             o == p.ooseq
             right == p.edge
  <2>4. /\ Queue(o, lo, right) /\ right \in Nat /\ Right(c) <= right
        /\ \A i \in 1..Len(o) : /\ c.seq <= o[i].seq
                                /\ c.seq = o[i].seq => SegEnd(o[i]) <= SegEnd(c)
    BY <1>1, <1>2, <1>7, <2>1, <2>3
  <2>5. q = tcp_oos_insert_segment(c, o)
    BY DEF q
  <2>6. right <= p.nxt + p.wnd /\ right <= p.edge
    BY <1>2
  <2> HIDE DEF lo, o, right
  <2>7. Queue(q, c.seq, right) /\ Len(q) \in Nat \ {0} /\ q[1].seq = c.seq
    BY <1>6, <2>4, <2>5, InsertOK
  <2>8. Queue(q, p.nxt, right) /\ Len(q) > 0 /\ q[1].seq = p.nxt
    BY <1>6, <2>7
  <2> QED
    BY <1>5, <2>4, <2>6, <2>8, AcceptQueueOK
<1>8. CASE ~(Right(s) <= p.edge)
  <2>1. p.edge <= p.nxt
    <3>1. Right(s) = p.nxt + 1
      BY <1>3, <1>8 DEF Right
    <3> QED
      BY <1>2, <1>8, <3>1
  <2>2. p.ooseq = <<>>
    <3> DEFINE o == p.ooseq
    <3>1. o \in Seq(Segment)
      BY <1>1, QueueSeq
    <3>2. \A i \in 1..Len(o) : FALSE
      <4> TAKE i \in 1..Len(o)
      <4>1. /\ p.nxt + 1 <= o[i].seq /\ Right(o[i]) <= p.edge /\ o[i].seq \in Nat
            /\ SegEnd(o[i]) \in Nat /\ Right(o[i]) \in Nat
            /\ o[i].seq <= SegEnd(o[i]) /\ SegEnd(o[i]) <= Right(o[i])
        BY <1>1, QueueFacts
      <4> HIDE DEF o
      <4> QED
        BY <1>2, <2>1, <4>1
    <3> HIDE DEF o
    <3>3. o = <<>>
      BY <3>1, <3>2
    <3> QED
      BY <3>3 DEF o
  <2> DEFINE right == Right(c)
             o == <<>>
             lo == 0
  <2>3. right \in Nat
    BY <1>6, RightNat
  <2>4. Queue(o, lo, right) /\ \A i \in 1..Len(o) : FALSE
    BY DEF Queue
  <2>5. q = tcp_oos_insert_segment(c, o) /\ Len(q) = 1
    BY <1>6, <2>2, InsertAlone DEF q
  <2>6. Right(c) <= right
    BY <2>3
  <2>7. right <= p.nxt + p.wnd
    BY <1>6
  <2> HIDE DEF right, o, lo
  <2>8. Queue(q, c.seq, right) /\ q[1].seq = c.seq
    BY <1>6, <2>3, <2>4, <2>5, <2>6, InsertOK
  <2>9. Queue(q, p.nxt, right) /\ Len(q) > 0 /\ q[1].seq = p.nxt
    BY <1>6, <2>5, <2>8
  <2> QED
    BY <1>5, <2>3, <2>5, <2>7, <2>9, AcceptQueueOK
<1> QED
  BY <1>7, <1>8

\* Acknowledgements that are sent after a step change nothing else.
LEMMA ReceivesSent ==
    ASSUME NEW p, POK(p), NEW q, Receives(p, q), NEW r, Sent(q, r)
    PROVE  Receives(p, r) /\ r.refused = q.refused /\ r.closed = q.closed
<1>1. POK(q)
  BY DEF Receives, Good
<1>2. Good(q, r) /\ RxOf(r) = RxOf(q) /\ r.closed = q.closed /\ r.refused = q.refused
  BY <1>1, SentGood
<1>3. Good(p, r)
  BY <1>2, GoodTransitive DEF Receives
<1> QED
  BY <1>2, <1>3 DEF Receives, CoreAccepts

\* A segment that comes early is queued, if there is memory, and answered.
LEMMA KeepOK ==
    ASSUME NEW p, POK(p), ~p.closed, NEW s, Arrives(p, s), p.nxt < s.seq,
           NEW r \in KeepOutOfSequence(p, s)
    PROVE  Receives(p, r)
<1>1. p \in Pcb /\ Free(p) /\ Queue(p.ooseq, p.nxt + 1, p.edge)
  BY DEF POK
<1>2. /\ p.nxt \in Nat /\ p.wnd \in Nat /\ p.edge \in Nat /\ p.edge <= p.nxt + p.wnd
  BY <1>1, PcbFacts DEF Free
<1>3. /\ s \in Segment /\ SegmentOK(s) /\ TCP_TCPLEN(s) > 0 /\ s.seq \in Nat
      /\ (Right(s) <= p.edge \/ s.seq <= p.nxt)
  BY SegmentFacts DEF Arrives
<1>4. Right(s) <= p.edge /\ p.nxt + 1 <= s.seq
  BY <1>2, <1>3
<1> DEFINE window == p.nxt + p.wnd
           lo == p.nxt + 1
           right == p.edge
           o == Enqueue(p.ooseq, s, window)
           q == [p EXCEPT !.ooseq = o]
<1>5. PICK k \in {q, p} : r \in tcp_send_empty_ack(k)
  BY DEF KeepOutOfSequence
<1>6. Queue(o, p.nxt + 1, p.edge)
  <2>1. /\ lo \in Nat /\ right \in Nat /\ window \in Nat /\ right <= window
        /\ Queue(p.ooseq, lo, right) /\ lo <= s.seq /\ Right(s) <= right
    BY <1>1, <1>2, <1>4
  <2> HIDE DEF lo, right, window
  <2>2. Queue(o, lo, right)
    BY <1>3, <2>1, EnqueueOK
  <2> QED
    BY <2>2 DEF lo, right
<1> HIDE DEF o
<1>7. Receives(p, q) /\ POK(q)
  <2>1. q = [p EXCEPT !.ooseq = o]
    OBVIOUS
  <2> HIDE DEF q
  <2>2. Good(p, q) /\ RxOf(q) = RxOf(p)
    BY <1>6, <2>1, QueuedOK, ZenonT(30)
  <2> QED
    BY <2>2 DEF Receives, Good
<1> HIDE DEF q
<1>8. Receives(p, p)
  BY <1>2 DEF Receives, Good
<1>9. Receives(p, k) /\ POK(k)
  BY <1>5, <1>7, <1>8
<1>10. Sent(k, r)
  BY <1>5, <1>9, EmptyAckOK DEF POK
<1> QED
  BY <1>9, <1>10, ReceivesSent

\* The text of a segment that does not start below rcv_nxt, or repeats what came.
LEMMA ReceiveTextOK ==
    ASSUME NEW p, POK(p), ~p.closed, p.refused = <<>>, NEW s, Arrives(p, s),
           NEW r \in ReceiveText(p, s)
    PROVE  Receives(p, r)
<1>1. p \in Pcb /\ Free(p) /\ p.acked <= p.nxt
  BY DEF POK
<1>2. p.nxt \in Nat /\ p.wnd \in Nat /\ p.edge \in Nat
  BY <1>1, PcbFacts
<1>3. s.seq \in Nat
  BY SegmentFacts DEF Arrives
<1>4. CASE ~InWindow(p, s.seq)
  <2>1. Sent(p, r)
    BY <1>1, <1>4, EmptyAckOK DEF ReceiveText
  <2>2. Receives(p, p)
    BY <1>2 DEF Receives, Good
  <2> QED
    BY <2>1, <2>2, ReceivesSent
<1>5. CASE InWindow(p, s.seq) /\ s.seq = p.nxt
  <2>1. p.wnd > 0
    BY <1>2, <1>5 DEF InWindow
  <2>2. r \in Accept(p, s)
    BY <1>5 DEF ReceiveText
  <2> QED
    BY <1>5, <2>1, <2>2, AcceptOK DEF Receives
<1>6. CASE InWindow(p, s.seq) /\ s.seq # p.nxt
  <2>1. p.nxt < s.seq
    BY <1>2, <1>3, <1>6 DEF InWindow
  <2>2. r \in KeepOutOfSequence(p, s)
    BY <1>6 DEF ReceiveText
  <2> QED
    BY <2>1, <2>2, KeepOK
<1> QED
  BY <1>4, <1>5, <1>6

\* A segment that is trimmed in front arrives like one that was not.
LEMMA TrimFrontOK ==
    ASSUME NEW p, POK(p), NEW s, Arrives(p, s)
    PROVE  Arrives(p, TrimFront(p, s))
<1>1. p.nxt \in Nat /\ p.edge \in Nat
  BY PcbFacts DEF POK
<1>2. /\ s \in Segment /\ SegmentOK(s) /\ TCP_TCPLEN(s) > 0 /\ s.seq \in Nat
      /\ (Right(s) <= p.edge \/ (s.seq <= p.nxt /\ TCP_TCPLEN(s) = 1))
      /\ TCP_TCPLEN(s) = Len(s.data) + (IF s.fin THEN 1 ELSE 0)
      /\ SegEnd(s) = s.seq + Len(s.data) /\ Len(s.data) \in Nat
  BY SegmentFacts DEF Arrives
<1>3. CASE s.seq < p.nxt /\ p.nxt < s.seq + TCP_TCPLEN(s)
  <2> DEFINE c == CutLeft(s, p.nxt)
  <2>1. TrimFront(p, s) = c
    BY <1>3 DEF TrimFront
  <2> DEFINE a == s.seq
             v == Len(s.data)
             w == TCP_TCPLEN(s)
             z == IF s.fin THEN 1 ELSE 0
             x == p.nxt
  <2>2. /\ a \in Nat /\ v \in Nat /\ w = v + z /\ SegEnd(s) = a + v /\ x \in Nat
        /\ a < x /\ x < a + w
    BY <1>1, <1>2, <1>3
  <2>3. z \in 0..1
    OBVIOUS
  <2>4. s.seq <= p.nxt /\ p.nxt <= SegEnd(s)
    <3> HIDE DEF a, v, w, z, x
    <3>1. a <= x /\ x <= a + v
      BY <2>2, <2>3
    <3> QED
      BY <2>2, <3>1 DEF a, x
  <2>5. /\ c \in Segment /\ SegmentOK(c)
        /\ c.seq = p.nxt /\ c.seq + TCP_TCPLEN(c) = s.seq + TCP_TCPLEN(s)
    BY <1>1, <1>2, <2>4, CutLeftOK
  <2> HIDE DEF c
  <2>6. TCP_TCPLEN(c) \in Nat
    BY <2>5, SegmentFacts
  <2>7. TCP_TCPLEN(c) > 0
    BY <1>1, <1>3, <2>5, <2>6
  <2>8. Right(s) <= p.edge
    <3>1. ~(w = 1)
      <4> HIDE DEF a, v, w, z, x
      <4> QED
        BY <2>2, <2>3
    <3> QED
      BY <1>2, <3>1
  <2>9. Right(c) <= p.edge
    BY <2>5, <2>8 DEF Right
  <2> QED
    BY <2>1, <2>5, <2>7, <2>9 DEF Arrives
<1>4. CASE ~(s.seq < p.nxt /\ p.nxt < s.seq + TCP_TCPLEN(s))
  BY <1>4 DEF TrimFront
<1> QED
  BY <1>3, <1>4

\* tcp_receive, of a segment of the peer or one without text.
LEMMA ReceiveOK ==
    ASSUME NEW p, POK(p), NEW seg, TCP_TCPLEN(seg) = 0 \/ (Arrives(p, seg) /\ p.refused = <<>>),
           NEW r \in tcp_receive(p, seg)
    PROVE  Receives(p, r)
<1>1. p \in Pcb /\ Free(p) /\ p.acked <= p.nxt /\ p.edge \in Nat
  BY PcbFacts DEF POK
<1>2. Receives(p, p)
  BY <1>1 DEF Receives, Good
<1>3. CASE TCP_TCPLEN(seg) = 0 \/ p.closed
  <2>1. r = p \/ r = tcp_ack_now(p)
    BY <1>3 DEF tcp_receive
  <2>2. Sent(p, r)
    BY <1>1, <2>1, SentSame, AckOK
  <2> QED
    BY <1>2, <2>2, ReceivesSent
<1>4. CASE ~(TCP_TCPLEN(seg) = 0 \/ p.closed)
  <2> DEFINE s == TrimFront(p, seg)
  <2>1. r \in ReceiveText(p, s)
    BY <1>4 DEF tcp_receive
  <2>2. Arrives(p, s)
    BY <1>4, TrimFrontOK
  <2> HIDE DEF s
  <2> QED
    BY <1>4, <2>1, <2>2, ReceiveTextOK
<1> QED
  BY <1>3, <1>4

-----------------------------------------------------------------------------
(* The blocks of timerQueue                                                *)

\* What ImplementsCore says of a step from p to r.
CoreStep(p, r) ==
    LET offered == Core!tcp_process_refused_data(RxOf(p), conn, -1)
    IN \/ RxOf(r) \in {RxOf(p), offered, [RxOf(p) EXCEPT !.canRead = TRUE]}
       \/ /\ ~p.closed
          /\ offered.refused = 0
          /\ \E d \in Core!InSequence(offered) :
                RxOf(r) = Core!AcceptInSequence(
                    offered, conn, Core!TrimmedLen(offered, d[1]),
                    Core!TrimmedFin(offered, d[1], d[2]), -1)

\* A step after refused data was offered again.
LEMMA OfferedStep ==
    ASSUME NEW p, POK(p), NEW q \in tcp_process_refused_data(p), NEW r, Receives(q, r)
    PROVE  Good(p, r) /\ CoreStep(p, r)
<1>1. /\ Good(p, q) /\ RxOf(q) = Core!tcp_process_refused_data(RxOf(p), conn, -1)
      /\ q.closed = p.closed
  BY ProcessOK
<1>2. Good(p, r)
  BY <1>1, GoodTransitive DEF Receives
<1> DEFINE offered == Core!tcp_process_refused_data(RxOf(p), conn, -1)
<1>3. CASE RxOf(r) = RxOf(q)
  BY <1>1, <1>2, <1>3 DEF CoreStep
<1>4. CASE CoreAccepts(q, r)
  <2> HIDE DEF offered
  <2>1. /\ ~p.closed
        /\ offered.refused = 0
        /\ \E d \in Core!InSequence(offered) :
              RxOf(r) = Core!AcceptInSequence(
                  offered, conn, Core!TrimmedLen(offered, d[1]),
                  Core!TrimmedFin(offered, d[1], d[2]), -1)
    BY <1>1, <1>4, Zenon DEF CoreAccepts, offered
  <2> QED
    BY <1>2, <2>1 DEF CoreStep, offered
<1> QED
  BY <1>3, <1>4 DEF Receives

\* The segments of a peer that counts the FIN in the window arrive.
LEMMA SegmentsArrive ==
    ASSUME FinAtEdge = FALSE, NEW p, POK(p), NEW seg \in Segments(p)
    PROVE  TCP_TCPLEN(seg) = 0 \/ Arrives(p, seg)
<1>1. /\ p.nxt \in Nat /\ p.edge \in Nat /\ p.acked \in Nat /\ p.acked <= p.nxt
      /\ StreamLen \in Nat
  BY PcbFacts DEF POK
<1>2. CASE seg \in TextSegments(p)
  <2>1. PICK a \in 0..StreamLen, n \in 0..StreamLen, f \in BOOLEAN : seg = Seg(a, n, f)
    BY <1>2 DEF TextSegments, AllSegments
  <2>2. /\ SegmentOK(seg) /\ TCP_TCPLEN(seg) > 0
        /\ InAnnounced(p, seg) \/ Probe(p, seg)
    BY <1>2 DEF TextSegments
  <2>3. a \in Nat /\ n \in Nat /\ seg.seq = a /\ seg.data = Stream(a, n) /\ seg.fin = f
        /\ seg = [seq |-> a, data |-> Stream(a, n), fin |-> f]
    BY <1>1, <2>1 DEF Seg
  <2>4. Len(seg.data) = n /\ SegEnd(seg) = a + n /\ a + n <= StreamLen
    <3>1. Len(Stream(a, n)) = n
      BY <2>3, StreamSeq
    <3>2. Len(seg.data) = n
      BY <2>3, <3>1
    <3>3. SegEnd(seg) = a + n
      BY <2>3, <3>2 DEF SegEnd
    <3> QED
      BY <2>2, <3>2, <3>3 DEF SegmentOK
  <2>5. Stream(a, n) \in Seq(0..(StreamLen - 1))
    BY <2>3, <2>4, StreamSeq
  <2>6. seg \in Segment
    BY <2>1, <2>3, <2>5 DEF Segment
  <2>7. InAnnounced(p, seg) => Right(seg) <= p.edge
    <3>1. TCP_TCPLEN(seg) \in Nat /\ seg.seq \in Nat
      BY <2>2, <2>6, SegmentFacts
    <3>2. InAnnounced(p, seg) => seg.seq + TCP_TCPLEN(seg) <= p.edge + 0
      BY DEF InAnnounced
    <3> QED
      BY <1>1, <3>1, <3>2 DEF Right
  <2>8. Probe(p, seg) => seg.seq <= p.nxt /\ TCP_TCPLEN(seg) = 1
    BY <1>1 DEF Probe
  <2> QED
    BY <2>2, <2>6, <2>7, <2>8 DEF Arrives
<1>3. CASE seg \in {Seg(i, 0, FALSE) : i \in 0..(StreamLen + 1)}
  <2>1. PICK i \in 0..(StreamLen + 1) : seg = Seg(i, 0, FALSE)
    BY <1>3
  <2>2. seg.data = Stream(i, 0) /\ seg.fin = FALSE /\ i \in Nat
    BY <1>1, <2>1 DEF Seg
  <2>3. Len(seg.data) = 0
    BY <2>2, StreamSeq
  <2> QED
    BY <2>2, <2>3 DEF TCP_TCPLEN
<1> QED
  BY <1>2, <1>3 DEF Segments

\* tcp_input: refused data, the segment, and what there is to send.
LEMMA InputOK ==
    ASSUME FinAtEdge = FALSE, NEW p, POK(p), NEW seg \in Segments(p),
           NEW r \in tcp_input(p, seg)
    PROVE  Good(p, r) /\ CoreStep(p, r)
<1>1. PICK q \in tcp_process_refused_data(p) :
         \/ Waits(q, seg) /\ r \in (IF q.ann = 0 THEN tcp_send_empty_ack(q) ELSE {q})
         \/ ~Waits(q, seg) /\ \E k \in tcp_receive(q, seg) :
               r \in (IF k.failed THEN {k} ELSE tcp_output(k))
  <2> DEFINE offered == tcp_process_refused_data(p)
             waiting == {q \in offered : Waits(q, seg)}
             received == UNION {tcp_receive(q, seg) : q \in offered \ waiting}
  <2>1. CASE r \in UNION {IF q.ann = 0 THEN tcp_send_empty_ack(q) ELSE {q} : q \in waiting}
    BY <2>1
  <2>2. CASE r \in UNION {IF k.failed THEN {k} ELSE tcp_output(k) : k \in received}
    BY <2>2
  <2> QED
    <3> DEFINE A == UNION {IF q.ann = 0 THEN tcp_send_empty_ack(q) ELSE {q} : q \in waiting}
               B == UNION {IF k.failed THEN {k} ELSE tcp_output(k) : k \in received}
    <3>1. r \in A \cup B
      <4>1. tcp_input(p, seg) = A \cup B
        BY Zenon DEF tcp_input
      <4> HIDE DEF A, B
      <4> QED
        BY <4>1
    <3> HIDE DEF A, B
    <3>2. r \in A \/ r \in B
      BY <3>1
    <3>3. CASE r \in A
      BY <2>1, <3>3 DEF A
    <3>4. CASE r \in B
      BY <2>2, <3>4 DEF B
    <3> QED
      BY <3>2, <3>3, <3>4
<1>2. POK(q) /\ q.nxt = p.nxt /\ p.edge <= q.edge
  BY ProcessOK DEF Good
<1>3. q \in Pcb /\ Free(q) /\ q.acked <= q.nxt /\ q.edge \in Nat /\ p.edge \in Nat
  BY <1>2, PcbFacts DEF POK
<1>4. Receives(q, q)
  BY <1>2, <1>3 DEF Receives, Good
<1>5. TCP_TCPLEN(seg) = 0 \/ Arrives(q, seg)
  <2>1. TCP_TCPLEN(seg) = 0 \/ Arrives(p, seg)
    BY SegmentsArrive
  <2>2. ASSUME Arrives(p, seg) PROVE Arrives(q, seg)
    <3>1. Right(seg) \in Nat
      BY <2>2, RightNat DEF Arrives
    <3>2. Right(seg) <= p.edge => Right(seg) <= q.edge
      BY <1>2, <1>3, <3>1
    <3> QED
      BY <1>2, <2>2, <3>2 DEF Arrives
  <2> QED
    BY <2>1, <2>2
<1>6. CASE Waits(q, seg) /\ r \in (IF q.ann = 0 THEN tcp_send_empty_ack(q) ELSE {q})
  <2>1. Sent(q, r)
    BY <1>3, <1>6, EmptyAckOK, SentSame
  <2>2. Receives(q, r)
    BY <1>2, <1>4, <2>1, ReceivesSent
  <2> QED
    BY <2>2, OfferedStep
<1>7. CASE ~Waits(q, seg) /\ \E k \in tcp_receive(q, seg) :
              r \in (IF k.failed THEN {k} ELSE tcp_output(k))
  <2>1. PICK k \in tcp_receive(q, seg) : r \in (IF k.failed THEN {k} ELSE tcp_output(k))
    BY <1>7
  <2>2. TCP_TCPLEN(seg) = 0 \/ (Arrives(q, seg) /\ q.refused = <<>>)
    <3>1. CASE TCP_TCPLEN(seg) = 0
      BY <3>1
    <3>2. CASE Arrives(q, seg)
      BY <1>7, <3>2 DEF Waits, Arrives
    <3> QED
      BY <1>5, <3>1, <3>2
  <2>3. Receives(q, k)
    BY <1>2, <2>2, ReceiveOK
  <2>4. POK(k)
    BY <2>3 DEF Receives, Good
  <2>5. k \in Pcb /\ Free(k) /\ k.acked <= k.nxt /\ ~k.failed
    BY <2>4 DEF POK
  <2>6. Sent(k, r)
    BY <2>1, <2>5, OutputOK
  <2>7. Receives(q, r)
    BY <1>2, <2>3, <2>6, ReceivesSent
  <2> QED
    BY <2>7, OfferedStep
<1> QED
  BY <1>1, <1>6, <1>7

\* The flags are cleared after the acknowledgement was asked for.
LEMMA ClearedOK ==
    ASSUME NEW p, POK(p), NEW k \in tcp_output(tcp_ack_now(p)),
           NEW q, q = [k EXCEPT !.delay = FALSE, !.now = FALSE]
    PROVE  Good(p, q) /\ RxOf(q) = RxOf(p) /\ q.closed = p.closed
<1> DEFINE a == tcp_ack_now(p)
<1>1. p \in Pcb /\ Free(p) /\ p.acked <= p.nxt
  BY DEF POK
<1>2. Sent(p, a) /\ OwedAck(a)
  BY <1>1, AckOK
<1>3. a \in Pcb /\ Free(a) /\ a.acked <= a.nxt /\ a.now
  BY <1>1, <1>2 DEF Sent, tcp_ack_now, Pcb
<1> HIDE DEF a
<1>4. Sent(a, k) /\ (Prompt => k = Announce(a))
  BY <1>3, OutputOK DEF a
<1>5. Sent(p, k)
  BY <1>1, <1>2, <1>4, SentTransitive
<1>6. Good(p, k) /\ RxOf(k) = RxOf(p) /\ k.closed = p.closed
  BY <1>5, SentGood
<1>7. POK(k) /\ k \in Pcb
  BY <1>6 DEF Good, POK
<1>8. q \in Pcb
  BY <1>7 DEF Pcb
<1>9. /\ q.ooseq = k.ooseq /\ q.nxt = k.nxt /\ q.wnd = k.wnd /\ q.ann = k.ann /\ q.edge = k.edge
      /\ q.refused = k.refused /\ q.fin = k.fin
      /\ q.closed = k.closed /\ q.canRead = k.canRead /\ q.read = k.read /\ q.eof = k.eof
      /\ q.acked = k.acked /\ q.failed = k.failed
  BY <1>7 DEF Pcb
<1>10. POK(q)
  <2>1. Free(q) /\ Delivered(q)
    BY <1>7, <1>9 DEF POK, Free, Delivered
  <2>2. EndKept(q)
    <3>1. FinBit(q) = FinBit(k)
      BY <1>9 DEF FinBit
    <3> QED
      BY <1>7, <1>9, <3>1 DEF POK, EndKept
  <2> QED
    BY <1>7, <1>8, <1>9, <2>1, <2>2 DEF POK
<1>11. Prompt /\ Owing(p) => Owing(q)
  <2> SUFFICES ASSUME Prompt, Owing(p)
               PROVE  Owing(q)
    OBVIOUS
  <2>1. Owing(k)
    BY <1>6 DEF Good
  <2>2. k.acked = a.nxt /\ k.nxt = a.nxt
    BY <1>3, <1>4, AnnounceOK DEF Sent, Content
  <2>3. OwedAck(q)
    <3>1. q.acked = q.nxt /\ q.nxt \in Nat
      BY <1>8, <1>9, <2>2, PcbFacts
    <3> QED
      BY <3>1 DEF OwedAck
  <2>4. ~q.closed => Offered(q)
    BY <1>9, <2>1 DEF Owing, Offered
  <2> QED
    BY <2>3, <2>4 DEF Owing
<1>12. RxOf(q) = RxOf(p)
  <2>1. RxOf(q) = RxOf(k)
    BY <1>9 DEF RxOf
  <2> QED
    BY <1>6, <2>1
<1> QED
  BY <1>6, <1>9, <1>10, <1>11, <1>12 DEF Good

\* The delayed acknowledgement, then the refused data.
LEMMA FastOK ==
    ASSUME NEW p, POK(p), NEW r \in tcp_fasttmr(p)
    PROVE  /\ Good(p, r) /\ r.closed = p.closed
           /\ RxOf(r) = Core!tcp_process_refused_data(RxOf(p), conn, -1)
<1>1. PICK q : /\ q = p \/ \E k \in tcp_output(tcp_ack_now(p)) :
                               q = [k EXCEPT !.delay = FALSE, !.now = FALSE]
               /\ r \in tcp_process_refused_data(q)
  BY DEF tcp_fasttmr
<1>2. Good(p, q) /\ RxOf(q) = RxOf(p) /\ q.closed = p.closed
  <2>1. CASE q = p
    BY <2>1, PcbFacts DEF Good, POK
  <2>2. CASE \E k \in tcp_output(tcp_ack_now(p)) : q = [k EXCEPT !.delay = FALSE, !.now = FALSE]
    BY <2>2, ClearedOK, ZenonT(30)
  <2> QED
    BY <1>1, <2>1, <2>2
<1>3. /\ Good(q, r) /\ r.closed = q.closed
      /\ RxOf(r) = Core!tcp_process_refused_data(RxOf(q), conn, -1)
  BY <1>1, <1>2, ProcessOK DEF Good
<1>4. Good(p, r)
  BY <1>2, <1>3, GoodTransitive
<1> QED
  BY <1>2, <1>3, <1>4

\* The queue is dropped, or not, and what there is to send is sent, or not.
LEMMA SlowOK ==
    ASSUME NEW p, POK(p), NEW r \in tcp_slowtmr(p)
    PROVE  Good(p, r) /\ RxOf(r) = RxOf(p)
<1> DEFINE d == [p EXCEPT !.ooseq = <<>>]
<1>1. PICK q \in {p, d} : r = q \/ r \in tcp_output(q)
  BY DEF tcp_slowtmr
<1>2. Good(p, d) /\ RxOf(d) = RxOf(p)
  <2> DEFINE o == <<>>
  <2>1. Queue(o, p.nxt + 1, p.edge) /\ d = [p EXCEPT !.ooseq = o] /\ o = <<>>
    BY DEF Queue
  <2> HIDE DEF o, d
  <2> QED
    BY <2>1, QueuedOK, ZenonT(30)
<1>3. Good(p, p)
  BY PcbFacts DEF Good, POK
<1> HIDE DEF d
<1>4. Good(p, q) /\ RxOf(q) = RxOf(p)
  BY <1>1, <1>2, <1>3
<1>5. CASE r = q
  BY <1>4, <1>5
<1>6. CASE r \in tcp_output(q)
  <2>1. POK(q)
    BY <1>4 DEF Good
  <2>2. Sent(q, r)
    BY <1>6, <2>1, OutputOK DEF POK
  <2>3. Good(q, r) /\ RxOf(r) = RxOf(q)
    BY <2>1, <2>2, SentGood
  <2>4. Good(p, r)
    BY <1>4, <2>3, GoodTransitive
  <2> QED
    BY <1>4, <2>3, <2>4
<1> QED
  BY <1>1, <1>5, <1>6

\* tcp_tmr: each tick the fast timer, at every other one the slow timer.
LEMMA TickOK ==
    ASSUME POK(pcb), Tick
    PROVE  Good(pcb, pcb') /\ CoreStep(pcb, pcb')
<1>1. PICK f \in tcp_fasttmr(pcb) : pcb' = f \/ pcb' \in tcp_slowtmr(f)
  BY DEF Tick
<1>2. Good(pcb, f) /\ RxOf(f) = Core!tcp_process_refused_data(RxOf(pcb), conn, -1)
  BY FastOK
<1>3. CASE pcb' = f
  BY <1>2, <1>3 DEF CoreStep
<1>4. CASE pcb' \in tcp_slowtmr(f)
  <2>1. POK(f)
    BY <1>2 DEF Good
  <2>2. Good(f, pcb') /\ RxOf(pcb') = RxOf(f)
    BY <1>4, <2>1, SlowOK
  <2>3. Good(pcb, pcb')
    BY <1>2, <2>2, GoodTransitive
  <2> QED
    BY <1>2, <2>2, <2>3 DEF CoreStep
<1> QED
  BY <1>1, <1>3, <1>4

\* The connection asks to send.
LEMMA WriteOK ==
    ASSUME POK(pcb), write
    PROVE  Good(pcb, pcb') /\ CoreStep(pcb, pcb')
<1>1. Sent(pcb, pcb')
  BY OutputOK DEF write, POK
<1>2. Good(pcb, pcb') /\ RxOf(pcb') = RxOf(pcb)
  BY <1>1, SentGood
<1> QED
  BY <1>2 DEF CoreStep

\* The application asks for data.
LEMMA ReadOK ==
    ASSUME POK(pcb), readData
    PROVE  Good(pcb, pcb') /\ CoreStep(pcb, pcb')
<1> DEFINE p == pcb
           q == pcb'
<1>1. q = [p EXCEPT !.canRead = TRUE] /\ POK(p) /\ p \in Pcb
  BY DEF readData, POK
<1> HIDE DEF p, q
<1>2. q \in Pcb
  BY <1>1 DEF Pcb
<1>3. /\ q.ooseq = p.ooseq /\ q.nxt = p.nxt /\ q.wnd = p.wnd /\ q.ann = p.ann /\ q.edge = p.edge
      /\ q.refused = p.refused /\ q.fin = p.fin /\ q.delay = p.delay /\ q.now = p.now
      /\ q.closed = p.closed /\ q.read = p.read /\ q.eof = p.eof
      /\ q.acked = p.acked /\ q.failed = p.failed /\ q.canRead = TRUE
  BY <1>1 DEF Pcb
<1>4. POK(q)
  <2>1. Free(q) /\ Delivered(q)
    BY <1>1, <1>3 DEF POK, Free, Delivered
  <2>2. EndKept(q)
    <3>1. FinBit(q) = FinBit(p)
      BY <1>3 DEF FinBit
    <3> QED
      BY <1>1, <1>3, <3>1 DEF POK, EndKept
  <2> QED
    BY <1>1, <1>2, <1>3, <2>1, <2>2 DEF POK
<1>5. Owing(p) => Owing(q)
  BY <1>3 DEF Owing, OwedAck, Offered
<1>6. p.edge <= q.edge
  BY <1>1, <1>3, PcbFacts
<1>7. Good(p, q)
  BY <1>4, <1>5, <1>6 DEF Good
<1>8. RxOf(q) = [RxOf(p) EXCEPT !.canRead = TRUE]
  <2> DEFINE R == RxOf(p)
             S == RxOf(q)
             T == [R EXCEPT !.canRead = TRUE]
  <2>1. R \in RxSet /\ S \in RxSet
    BY <1>1, <1>2, RxOfSet
  <2>2. /\ S.nxt = R.nxt /\ S.wnd = R.wnd /\ S.refused = R.refused /\ S.fin = R.fin
        /\ S.canRead = TRUE /\ S.read = R.read /\ S.eof = R.eof
    BY <1>3 DEF RxOf
  <2> HIDE DEF R, S
  <2>3. T \in RxSet
    BY <2>1 DEF RxSet
  <2>4. /\ T.nxt = R.nxt /\ T.wnd = R.wnd /\ T.refused = R.refused /\ T.fin = R.fin
        /\ T.canRead = TRUE /\ T.read = R.read /\ T.eof = R.eof
    BY <2>1 DEF RxSet
  <2> HIDE DEF T
  <2>5. S = T
    BY <2>1, <2>2, <2>3, <2>4, RxEqual
  <2> QED
    BY <2>5 DEF R, S, T
<1>9. CoreStep(p, q)
  BY <1>8 DEF CoreStep
<1> QED
  BY <1>7, <1>9 DEF p, q

-----------------------------------------------------------------------------
(* The specification                                                       *)

\* The invariant holds at first, and nothing is owed.
LEMMA InitOK == Init => POK(pcb) /\ Owing(pcb)
<1> SUFFICES ASSUME Init
             PROVE  POK(pcb) /\ Owing(pcb)
  OBVIOUS
<1>0. WND \in Nat /\ WND > 0 /\ StreamLen \in Nat
  BY ReceiveAssumption
<1>1. /\ pcb.nxt = 0 /\ pcb.wnd = WND /\ pcb.ann = WND /\ pcb.edge = WND
      /\ pcb.ooseq = <<>> /\ pcb.refused = <<>> /\ ~pcb.fin /\ ~pcb.closed
      /\ pcb.read = <<>> /\ pcb.eof = 0 /\ pcb.acked = 0 /\ ~pcb.failed
  BY DEF Init
<1>2. pcb \in Pcb
  <2>1. <<>> \in Seq(Segment) /\ <<>> \in Seq(0..(StreamLen - 1))
    OBVIOUS
  <2>2. 0 \in 0..(StreamLen + 1) /\ WND \in 0..WND /\ WND \in Nat /\ 0 \in 0..1
    BY <1>0
  <2> QED
    BY <2>1, <2>2 DEF Init, Pcb
<1>3. Free(pcb)
  BY <1>0, <1>1 DEF Free
<1>4. Delivered(pcb)
  <2>1. Stream(0, 0) = <<>>
    BY StreamSeq, EmptySeq
  <2>2. pcb.read \o pcb.refused = <<>>
    BY <1>1
  <2> QED
    BY <1>1, <2>1, <2>2 DEF Delivered
<1>5. EndKept(pcb)
  <2>1. FinBit(pcb) = 0 /\ Len(pcb.refused) = 0
    BY <1>1 DEF FinBit
  <2>2. pcb.nxt # StreamLen + 1 /\ pcb.eof # 1
    BY <1>0, <1>1
  <2>3. pcb.wnd + Len(pcb.refused) + FinBit(pcb) = WND
    BY <1>0, <1>1, <2>1
  <2> QED
    BY <1>1, <2>2, <2>3 DEF EndKept
<1>6. Queue(pcb.ooseq, pcb.nxt + 1, pcb.edge)
  BY <1>1 DEF Queue
<1>7. Owing(pcb)
  <2>1. OwedAck(pcb)
    BY <1>1 DEF OwedAck
  <2>2. pcb.nxt + pcb.wnd - pcb.edge = 0
    BY <1>0, <1>1
  <2>3. 0 < Due
    BY DueFacts, ReceiveAssumption
  <2> QED
    BY <2>1, <2>2, <2>3 DEF Owing, Offered, Due
<1> QED
  BY <1>1, <1>2, <1>3, <1>4, <1>5, <1>6, <1>7 DEF POK

\* Every step keeps the invariant, the edge and what is owed, and is one of
\* ZPTCPConnection.
LEMMA NextOK ==
    ASSUME FinAtEdge = FALSE, POK(pcb), Next
    PROVE  Good(pcb, pcb') /\ CoreStep(pcb, pcb')
<1>1. CASE Input
  <2>1. PICK seg \in Segments(pcb) : pcb' \in tcp_input(pcb, seg)
    BY <1>1 DEF Input, InputOf
  <2> QED
    BY <2>1, InputOK
<1>2. CASE Tick
  BY <1>2, TickOK
<1>3. CASE write
  BY <1>3, WriteOK
<1>4. CASE readData
  BY <1>4, ReadOK
<1> QED
  BY <1>1, <1>2, <1>3, <1>4 DEF Next

\* The invariant, of a peer that counts the FIN in the window.
LEMMA InvariantHolds ==
    ASSUME FinAtEdge = FALSE
    PROVE  Spec => []IInv
<1>1. Init => IInv
  BY InitOK DEF IInv
<1>2. IInv /\ [Next]_pcb => IInv'
  <2> SUFFICES ASSUME POK(pcb), [Next]_pcb
               PROVE  POK(pcb')
    BY DEF IInv
  <2>1. CASE Next
    BY <2>1, NextOK DEF Good
  <2>2. CASE UNCHANGED pcb
    BY <2>2
  <2> QED
    BY <2>1, <2>2
<1> QED
  BY <1>1, <1>2, PTL DEF Spec

\* The application gets the stream in order, each byte once, and the end behind all
\* of it; the queue is sorted and holds nothing that could be delivered; no
\* assertion of tcp_receive and tcp_input fails.
THEOREM ReceivedHolds ==
    ASSUME FinAtEdge = FALSE
    PROVE  Spec => []Received
<1>1. IInv => Received
  <2> SUFFICES ASSUME POK(pcb)
               PROVE  Received
    BY DEF IInv
  <2>1. /\ pcb \in Pcb /\ Free(pcb) /\ pcb.acked <= pcb.nxt /\ Delivered(pcb)
        /\ EndKept(pcb) /\ Queue(pcb.ooseq, pcb.nxt + 1, pcb.edge)
        /\ (pcb.closed => pcb.ooseq = <<>>) /\ ~pcb.failed
    BY DEF POK
  <2>2. /\ pcb.nxt \in Nat /\ pcb.nxt <= StreamLen + 1 /\ pcb.wnd \in Nat /\ pcb.wnd <= WND
        /\ pcb.edge \in Nat /\ WND \in Nat /\ StreamLen \in Nat /\ pcb.eof \in Nat
        /\ pcb.read \in Seq(0..(StreamLen - 1))
    BY <2>1, PcbFacts
  <2> DEFINE q == pcb.ooseq
             lo == pcb.nxt + 1
             right == pcb.edge
  <2>3. Queue(q, lo, right) /\ Len(q) \in Nat
    BY <2>1, QueueSeq
  <2>4. \A i \in 1..Len(q) :
           /\ SegmentOK(q[i]) /\ TCP_TCPLEN(q[i]) > 0 /\ (q[i].fin => i = Len(q))
           /\ q[i].seq > pcb.nxt
    <3> TAKE i \in 1..Len(q)
    <3>1. /\ SegmentOK(q[i]) /\ TCP_TCPLEN(q[i]) > 0 /\ (q[i].fin => i = Len(q))
          /\ lo <= q[i].seq /\ q[i].seq \in Nat
      <4> HIDE DEF q, lo, right
      <4> QED
        BY <2>3, QueueFacts
    <3> DEFINE x == q[i].seq
               y == pcb.nxt
    <3>2. x \in Nat /\ y \in Nat /\ y + 1 <= x
      BY <2>2, <3>1
    <3>3. x > y
      <4> HIDE DEF x, y
      <4> QED
        BY <3>2
    <3> HIDE DEF q, lo
    <3> QED
      BY <3>1, <3>3 DEF x, y
  <2>5. \A i \in 2..Len(q) : SegEnd(q[i - 1]) <= q[i].seq
    <3> TAKE i \in 2..Len(q)
    <3> DEFINE j == i - 1
    <3>1. j \in 1..Len(q) /\ i \in 1..Len(q) /\ j < i
      BY <2>3
    <3> HIDE DEF q, lo, right, j
    <3>2. SegEnd(q[j]) <= q[i].seq
      BY <2>3, <3>1, QueueFacts
    <3> QED
      BY <3>2 DEF j
  <2>6. TypeOK
    <3>1. pcb.edge \in 0..(WND + StreamLen + 1)
      BY <2>1, <2>2 DEF Free
    <3>2. \A i \in 1..Len(pcb.ooseq) : SegmentOK(pcb.ooseq[i])
      BY <2>4
    <3>3. /\ pcb.nxt \in 0..(StreamLen + 1) /\ pcb.wnd \in 0..WND /\ pcb.ann \in 0..WND
          /\ pcb.refused \in Seq(0..(StreamLen - 1)) /\ pcb.fin \in BOOLEAN
          /\ pcb.delay \in BOOLEAN /\ pcb.now \in BOOLEAN /\ pcb.closed \in BOOLEAN
          /\ pcb.canRead \in BOOLEAN /\ pcb.read \in Seq(0..(StreamLen - 1))
          /\ pcb.eof \in 0..1 /\ pcb.acked \in 0..(StreamLen + 1) /\ pcb.failed \in BOOLEAN
      BY <2>1 DEF Pcb
    <3> QED
      BY <3>1, <3>2, <3>3 DEF TypeOK
  <2>7. InOrder
    <3>1. pcb.eof > 0 => pcb.eof = 1
      <4>1. pcb.eof \in 0..1
        BY <2>1 DEF Pcb
      <4> QED
        BY <4>1
    <3>2. pcb.eof = 1 => Len(pcb.read) = StreamLen
      <4> SUFFICES ASSUME pcb.eof = 1
                   PROVE  Len(pcb.read) = StreamLen
        OBVIOUS
      <4>1. pcb.closed /\ pcb.refused = <<>>
        BY <2>1 DEF EndKept
      <4>2. pcb.read \o pcb.refused = pcb.read
        BY <2>2, <4>1, ConcatEmptySeq
      <4>3. pcb.read = Stream(0, StreamLen)
        BY <2>1, <4>1, <4>2 DEF Delivered
      <4>4. Len(Stream(0, StreamLen)) = StreamLen
        BY <2>2, StreamSeq
      <4> QED
        BY <4>3, <4>4
    <3>3. pcb.closed <=> pcb.nxt = StreamLen + 1
      BY <2>1 DEF EndKept
    <3> QED
      BY <2>1, <3>1, <3>2, <3>3 DEF InOrder, Delivered
  <2>8. QueueSorted
    BY <2>1, <2>4, <2>5 DEF QueueSorted
  <2> QED
    BY <2>1, <2>6, <2>7, <2>8 DEF Received, AssertionsHold
<1>2. Spec => []IInv
  BY InvariantHolds
<1> QED
  BY <1>1, <1>2, PTL

\* What was announced can be received, and the edge that the peer was told never
\* moves to the left.
THEOREM EdgeIsKept ==
    ASSUME FinAtEdge = FALSE
    PROVE  Spec => EdgeKept
<1>1. Spec => []IInv
  BY InvariantHolds
<1>2. IInv => AnnouncedIsFree
  BY DEF IInv, POK, Free, AnnouncedIsFree
<1>3. IInv /\ [Next]_pcb => [pcb'.edge >= pcb.edge]_pcb
  <2> SUFFICES ASSUME POK(pcb), Next
               PROVE  pcb'.edge >= pcb.edge
    BY DEF IInv
  <2>1. Good(pcb, pcb')
    BY NextOK
  <2>2. pcb.edge <= pcb'.edge /\ pcb.edge \in Nat /\ pcb'.edge \in Nat
    BY <2>1, PcbFacts DEF Good, POK
  <2> QED
    BY <2>2
<1>4. Spec => []AnnouncedIsFree
  BY <1>1, <1>2, PTL
<1>5. Spec => [][pcb'.edge >= pcb.edge]_pcb
  BY <1>1, <1>3, PTL DEF Spec
<1> QED
  BY <1>4, <1>5 DEF EdgeKept, EdgeNeverRetreats

\* Where tcp_output holds nothing back and there is memory for an acknowledgement,
\* received text is acknowledged or the fast timer will do it, and a window that
\* has grown by what is worth an update was announced.
THEOREM OwedHolds ==
    ASSUME FinAtEdge = FALSE, Prompt
    PROVE  Spec => []Owed
<1> DEFINE Inv == POK(pcb) /\ Owing(pcb)
<1>1. Init => Inv
  BY InitOK
<1>2. Inv /\ [Next]_pcb => Inv'
  <2> SUFFICES ASSUME POK(pcb), Owing(pcb), [Next]_pcb
               PROVE  POK(pcb') /\ Owing(pcb')
    OBVIOUS
  <2>1. CASE Next
    BY <2>1, NextOK DEF Good
  <2>2. CASE UNCHANGED pcb
    BY <2>2
  <2> QED
    BY <2>1, <2>2
<1>3. Inv => Owed
  <2> SUFFICES ASSUME POK(pcb), Owing(pcb)
               PROVE  Owed
    OBVIOUS
  <2>1. AckOwed
    BY DEF Owing, OwedAck, AckOwed
  <2>2. WindowOffered
    BY DEF Owing, Offered, WindowOffered
  <2> QED
    BY <2>1, <2>2 DEF Owed
<1> HIDE DEF Inv
<1>4. Spec => []Inv
  BY <1>1, <1>2, PTL DEF Spec
<1> QED
  BY <1>3, <1>4, PTL

\* Whatever the queue, overlaps and repetitions do, each step does to the counts what
\* ZPTCPConnection says.
THEOREM ImplementsCoreHolds ==
    ASSUME FinAtEdge = FALSE
    PROVE  Spec => ImplementsCore
<1> DEFINE Step == LET offered == Core!tcp_process_refused_data(rx, conn, -1)
                   IN \/ rx' \in {rx, offered, [rx EXCEPT !.canRead = TRUE]}
                      \/ /\ ~pcb.closed
                         /\ offered.refused = 0
                         /\ \E d \in Core!InSequence(offered) :
                               rx' = Core!AcceptInSequence(
                                   offered, conn, Core!TrimmedLen(offered, d[1]),
                                   Core!TrimmedFin(offered, d[1], d[2]), -1)
<1>1. Spec => []IInv
  BY InvariantHolds
<1>2. IInv /\ [Next]_pcb => [Step]_pcb
  <2> SUFFICES ASSUME POK(pcb), Next
               PROVE  Step
    BY DEF IInv
  <2>1. CoreStep(pcb, pcb')
    BY NextOK
  <2>2. rx = RxOf(pcb) /\ rx' = RxOf(pcb')
    BY DEF rx, RxOf
  <2> QED
    BY <2>1, <2>2, Zenon DEF CoreStep
<1>3. Spec => [][Step]_pcb
  <2> HIDE DEF Step
  <2> QED
    BY <1>1, <1>2, PTL DEF Spec
<1> QED
  BY <1>3 DEF ImplementsCore
=============================================================================
