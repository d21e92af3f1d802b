----------------------------- MODULE TcpReceive -----------------------------
(***************************************************************************)
(* What tcp_receive does with the text of a segment, byte for byte: the    *)
(* out-of-sequence queue, trimming at both edges, the window that is       *)
(* announced, and the acknowledgements that are owed.                      *)
(*                                                                         *)
(* The connection is past its handshake and is not closed by the           *)
(* application; ZPTCPConnection models the rest of the pcb, counts what    *)
(* is received here, and is implemented by this module (ImplementsCore).   *)
(* The peer's stream is the bytes 0, 1, ..., StreamLen - 1, each named by  *)
(* its offset, and a FIN; sequence numbers do not wrap.                    *)
(***************************************************************************)
EXTENDS Integers, Sequences, SequencesExt

CONSTANTS
    WND,            \* TCP_WND
    StreamLen,      \* bound: bytes the peer sends
    MinUpd,         \* LWIP_MIN(TCP_WND / 2, pcb->mss)
    Threshold,      \* TCP_WND_UPDATE_THRESHOLD
    NagleMayHold,   \* may Nagle's algorithm keep the head of unsent?
    AckMayFail,     \* may there be no memory for an ACK?
    CopyMayFail,    \* may there be no memory for tcp_seg_copy?
    FinAtEdge       \* does the peer send a FIN behind data that fills the window?

ASSUME ReceiveAssumption ==
    /\ WND \in Nat \ {0} /\ StreamLen \in Nat
    /\ MinUpd \in 1..WND /\ Threshold \in 1..WND
    /\ {NagleMayHold, AckMayFail, CopyMayFail, FinAtEdge} \subseteq BOOLEAN

VARIABLE
    pcb             \* the receiver's part of the tcp_pcb, and the application

-----------------------------------------------------------------------------
(* Segments                                                                *)

\* n bytes of the stream from offset a.
Stream(a, n) == [i \in 1..n |-> a + i - 1]
Seg(s, n, f) == [seq |-> s, data |-> Stream(s, n), fin |-> f]

\* seqno + len: the FIN is not counted.
SegEnd(s) == s.seq + Len(s.data)
TCP_TCPLEN(s) == Len(s.data) + (IF s.fin THEN 1 ELSE 0)

\* Set len and call pbuf_realloc; move the payload pointer and seqno.
CutRight(s, end) == [s EXCEPT !.data = SubSeq(@, 1, end - s.seq)]
CutLeft(s, from) == [s EXCEPT !.seq = from,
                              !.data = SubSeq(@, from - s.seq + 1, Len(@))]

SegmentOK(s) ==
    /\ s.seq \in 0..StreamLen
    /\ s.data = Stream(s.seq, Len(s.data))
    /\ SegEnd(s) <= StreamLen
    /\ s.fin => SegEnd(s) = StreamLen

TypeOK ==
    /\ pcb.nxt \in 0..(StreamLen + 1)       \* rcv_nxt
    /\ pcb.wnd \in 0..WND                   \* rcv_wnd
    /\ pcb.ann \in 0..WND                   \* rcv_ann_wnd
    /\ pcb.edge \in 0..(WND + StreamLen + 1)    \* rcv_ann_right_edge
    /\ \A i \in 1..Len(pcb.ooseq) : SegmentOK(pcb.ooseq[i])
    /\ pcb.refused \in Seq(0..(StreamLen - 1))  \* refused_data, <<>> for NULL
    /\ pcb.fin \in BOOLEAN                  \* its PBUF_FLAG_TCP_FIN
    /\ pcb.delay \in BOOLEAN                \* TF_ACK_DELAY
    /\ pcb.now \in BOOLEAN                  \* TF_ACK_NOW
    /\ pcb.closed \in BOOLEAN               \* state >= CLOSE_WAIT
    /\ pcb.canRead \in BOOLEAN              \* canReadData
    /\ pcb.read \in Seq(0..(StreamLen - 1)) \* what didReadData: was given
    /\ pcb.eof \in 0..1                     \* connectionDidCloseReadStream:
    /\ pcb.acked \in 0..(StreamLen + 1)     \* newest ackno that was sent
    /\ pcb.failed \in BOOLEAN               \* an LWIP_ASSERT was false

-----------------------------------------------------------------------------
(* Acknowledgements and the announced window.  A function that may call    *)
(* tcp_output maps a pcb to the set of those it may leave.                 *)

\* Mutant of tcp_ack: the second segment takes the ACK back.
AckEverySecond(p) == [p EXCEPT !.delay = ~@]

tcp_ack(p) == IF p.delay THEN [p EXCEPT !.delay = FALSE, !.now = TRUE]
                         ELSE [p EXCEPT !.delay = TRUE]
tcp_ack_now(p) == [p EXCEPT !.now = TRUE]

\* A segment that carries rcv_nxt and rcv_ann_wnd is sent.
Announce(p) == [p EXCEPT !.edge = p.nxt + p.ann, !.acked = p.nxt,
                         !.delay = FALSE, !.now = FALSE]

\* "let tcp_fasttmr retry sending this ACK"
NoMemory(p) == [p EXCEPT !.delay = TRUE, !.now = TRUE]

tcp_send_empty_ack(p) ==
    {Announce(p)} \cup (IF AckMayFail THEN {NoMemory(p)} ELSE {})

\* There is nothing to send but an ACK if TF_ACK_NOW is set; or the head of
\* unsent is sent; or it fits the peer's window, but Nagle's algorithm keeps it,
\* and the ACK with it.
tcp_output(p) ==
    (IF p.now THEN tcp_send_empty_ack(p) ELSE {p})
    \cup {Announce(p)}
    \cup (IF NagleMayHold THEN {p} ELSE {})

\* How far the right edge would move, 0 if that is not worth an announcement.
Inflation(p) ==
    IF p.nxt + p.wnd >= p.edge + MinUpd THEN p.nxt + p.wnd - p.edge ELSE 0

\* Mutant of tcp_update_rcv_ann_wnd: no growth worth telling, no window.
AnnounceNothing(p) == [p EXCEPT !.ann = IF Inflation(p) > 0 THEN p.wnd ELSE 0]

tcp_update_rcv_ann_wnd(p) ==
    [p EXCEPT !.ann = IF Inflation(p) > 0 THEN p.wnd
                      ELSE IF p.nxt > p.edge THEN 0 ELSE p.edge - p.nxt]

\* Mutant of tcp_recved: the bytes are not given back.
RecvedNothing(p, n) == {tcp_update_rcv_ann_wnd(p)}

\* The application has taken n bytes; rcv_wnd stays within TCP_WND (TypeOK).
tcp_recved(p, n) ==
    LET q == [p EXCEPT !.wnd = @ + n]
        updated == tcp_update_rcv_ann_wnd(q)
    IN IF Inflation(q) >= Threshold THEN tcp_output(tcp_ack_now(updated))
                                    ELSE {updated}

-----------------------------------------------------------------------------
(* Delivery                                                                *)

\* zp_tcp_recv takes the text if it was asked for, or it becomes refused_data.
zp_tcp_recv(p, text) ==
    IF p.canRead
    THEN tcp_recved([p EXCEPT !.canRead = FALSE, !.read = @ \o text], Len(text))
    ELSE {[p EXCEPT !.refused = text]}

\* TF_GOT_FIN: the end of the stream waits behind refused data, or it is
\* reported and its sequence number given back.
GotFin(p) ==
    IF p.refused # <<>> THEN [p EXCEPT !.fin = TRUE]
    ELSE [p EXCEPT !.wnd = IF @ # WND THEN @ + 1 ELSE @, !.eof = @ + 1]

\* Mutant of tcp_process_refused_data: the FIN that waited is forgotten.
RefusedFinLost(p) ==
    IF p.refused = <<>> \/ ~p.canRead THEN {p}
    ELSE zp_tcp_recv([p EXCEPT !.refused = <<>>, !.fin = FALSE], p.refused)

\* Offer refused_data once more, and report the FIN it was kept with.
tcp_process_refused_data(p) ==
    IF p.refused = <<>> \/ ~p.canRead THEN {p}
    ELSE {IF p.fin THEN GotFin(taken) ELSE taken : taken \in
             zp_tcp_recv([p EXCEPT !.refused = <<>>, !.fin = FALSE], p.refused)}

-----------------------------------------------------------------------------
(* The out-of-sequence queue                                               *)

\* How many segments at the head of q end at or before end.
Covered(q, end) ==
    LET first == SelectInSeq(q, LAMBDA s : SegEnd(s) > end)
    IN IF first = 0 THEN Len(q) ELSE first - 1

\* Mutant of tcp_oos_insert_segment: the segment is not trimmed.
InsertUntrimmed(c, q) ==
    IF c.fin THEN <<c>>
    ELSE LET n == Covered(q, SegEnd(c))
         IN <<[c EXCEPT !.fin = \E i \in 1..n : q[i].fin]>> \o
            SubSeq(q, n + 1, Len(q))

\* c in front of q: it replaces the segments it covers, taking their FIN, and
\* ends where the next one starts.  Nothing comes after a FIN.  (The segment
\* that arrives in sequence is merged with ooseq in the same way.)
tcp_oos_insert_segment(c, q) ==
    IF c.fin THEN <<c>>
    ELSE LET n == Covered(q, SegEnd(c))
             merged == [c EXCEPT !.fin = \E i \in 1..n : q[i].fin]
             rest == SubSeq(q, n + 1, Len(q))
         IN IF rest # <<>> /\ SegEnd(c) > rest[1].seq
            THEN <<CutRight(merged, rest[1].seq)>> \o rest
            ELSE <<merged>> \o rest

\* Trim the last segment of q to end where the new one starts.
TrimLast(q, end) ==
    IF q = <<>> \/ SegEnd(Last(q)) <= end THEN q
    ELSE Append(Front(q), CutRight(Last(q), end))

\* What lies beyond the window is cut off, the FIN first.
CutToWindow(s, right) ==
    IF s.seq + TCP_TCPLEN(s) > right
    THEN [CutRight(s, right) EXCEPT !.fin = FALSE]
    ELSE s

\* Put s at its place in ooseq; only at the end of a queue that is not empty is
\* it cut to the window.
Enqueue(q, s, right) ==
    LET i == SelectInSeq(q, LAMBDA o : o.seq >= s.seq)
        before == SubSeq(q, 1, i - 1)
        after == SubSeq(q, i, Len(q))
    IN CASE q = <<>> -> <<s>>
         [] i = 0 /\ q # <<>> ->
                IF Last(q).fin THEN q
                ELSE Append(TrimLast(q, s.seq), CutToWindow(s, right))
         [] i > 0 ->
                IF q[i].seq > s.seq
                THEN TrimLast(before, s.seq) \o tcp_oos_insert_segment(s, after)
                ELSE IF Len(s.data) > Len(q[i].data)
                     THEN before \o tcp_oos_insert_segment(s, after)
                     ELSE q

\* How many segments at the head of q follow each other without a gap.
Contiguous(q) ==
    Max({n \in 1..Len(q) :
            \A i \in 2..n : q[i].seq = q[i - 1].seq + TCP_TCPLEN(q[i - 1])})

-----------------------------------------------------------------------------
(* tcp_input                                                               *)

InWindow(p, seq) == seq \in p.nxt..(p.nxt + p.wnd - 1)

\* The first n segments of q, which is ooseq with the segment that arrived, are
\* accepted at the price of the window.
Take(p, q, n) ==
    LET nxt == q[n].seq + TCP_TCPLEN(q[n])
    IN [p EXCEPT !.nxt = nxt, !.wnd = @ - (nxt - p.nxt),
                 !.ooseq = SubSeq(q, n + 1, Len(q))]

\* Acknowledge, note the FIN in the state, pass the text on, then the FIN.
PassOn(p, text, fin) ==
    LET acked == IF fin THEN [tcp_ack_now(tcp_ack(p)) EXCEPT !.closed = TRUE]
                        ELSE tcp_ack(p)
        passed == IF text # <<>> THEN zp_tcp_recv(acked, text) ELSE {acked}
    IN IF fin THEN {GotFin(r) : r \in passed} ELSE passed

\* q is accepted as far as it goes without a gap; "tcplen > rcv_wnd" and
\* "refused_data == NULL" are asserted.
AcceptQueue(p, q) ==
    LET n == Contiguous(q)
        text == FlattenSeq([i \in 1..n |-> q[i].data])
    IN IF q[n].seq + TCP_TCPLEN(q[n]) > p.nxt + p.wnd
          \/ (text # <<>> /\ p.refused # <<>>)
       THEN {[p EXCEPT !.failed = TRUE]}
       ELSE UNION {PassOn(r, text, \E i \in 1..n : q[i].fin) :
                      r \in {tcp_update_rcv_ann_wnd(Take(p, q, n))}}

\* The segment starts at rcv_nxt.
Accept(p, s) ==
    UNION {AcceptQueue(p, q) :
              q \in {tcp_oos_insert_segment(CutToWindow(s, p.nxt + p.wnd), p.ooseq)}}

\* A segment that starts below rcv_nxt and ends above it.
TrimFront(p, s) ==
    IF s.seq < p.nxt /\ p.nxt < s.seq + TCP_TCPLEN(s) THEN CutLeft(s, p.nxt) ELSE s

\* A segment above rcv_nxt is answered at once and queued if there is memory.
KeepOutOfSequence(p, s) ==
    LET queued == [p EXCEPT !.ooseq = Enqueue(@, s, p.nxt + p.wnd)]
        kept == {queued} \cup (IF CopyMayFail THEN {p} ELSE {})
    IN UNION {tcp_send_empty_ack(q) : q \in kept}

\* The text of a segment that is trimmed in front; outside of the window it is
\* only answered.
ReceiveText(p, s) ==
    IF ~InWindow(p, s.seq) THEN tcp_send_empty_ack(p)
    ELSE IF s.seq = p.nxt THEN Accept(p, s) ELSE KeepOutOfSequence(p, s)

\* Text is ignored after the FIN.
tcp_receive(p, seg) ==
    IF TCP_TCPLEN(seg) = 0 \/ p.closed
    THEN {IF InWindow(p, seg.seq) THEN p ELSE tcp_ack_now(p)}
    ELSE UNION {ReceiveText(p, s) : s \in {TrimFront(p, seg)}}

\* Is the segment dropped because data is still refused?
Waits(p, seg) == p.refused # <<>> /\ TCP_TCPLEN(seg) > 0

\* Refused data is offered again first; a segment that waits for that is answered
\* only if it can be a window probe.
tcp_input(p, seg) ==
    LET offered == tcp_process_refused_data(p)
        waiting == {q \in offered : Waits(q, seg)}
        received == UNION {tcp_receive(q, seg) : q \in offered \ waiting}
    IN (UNION {IF q.ann = 0 THEN tcp_send_empty_ack(q) ELSE {q} : q \in waiting})
       \cup (UNION {IF r.failed THEN {r} ELSE tcp_output(r) : r \in received})

-----------------------------------------------------------------------------
(* The timers                                                              *)

\* A delayed ACK is sent, refused data is offered again.
tcp_fasttmr(p) ==
    LET acked == IF p.delay
                 THEN {[q EXCEPT !.delay = FALSE, !.now = FALSE] :
                          q \in tcp_output(tcp_ack_now(p))}
                 ELSE {p}
    IN UNION {tcp_process_refused_data(q) : q \in acked}

\* The queue is dropped when the peer was silent for too long; retransmission or
\* the poll timer may call tcp_output.
tcp_slowtmr(p) ==
    LET dropped == {p, [p EXCEPT !.ooseq = <<>>]}
    IN dropped \cup UNION {tcp_output(q) : q \in dropped}

-----------------------------------------------------------------------------
(* The peer sends any segment of its stream, as often as it likes, that    *)
(* ends in the announced window.  With no window left it probes: one byte  *)
(* or the FIN at the edge.  A peer whose window test does not count the    *)
(* FIN, as tcp_output's does not, sends it with data that ends at the edge *)
(* (FinAtEdge).                                                            *)

AllSegments ==
    {Seg(d[1], d[2], f) : d \in (0..StreamLen) \X (0..StreamLen), f \in BOOLEAN}

InAnnounced(p, s) ==
    s.seq + TCP_TCPLEN(s) <= p.edge + (IF FinAtEdge /\ s.fin THEN 1 ELSE 0)

Probe(p, s) == s.seq = p.edge /\ p.acked >= p.edge /\ TCP_TCPLEN(s) = 1

TextSegments(p) ==
    {s \in AllSegments : /\ SegmentOK(s)
                         /\ TCP_TCPLEN(s) > 0
                         /\ InAnnounced(p, s) \/ Probe(p, s)}

Segments(p) == TextSegments(p) \cup {Seg(i, 0, FALSE) : i \in 0..(StreamLen + 1)}

-----------------------------------------------------------------------------
(* The blocks of timerQueue.                                               *)

InputOf(seg) == pcb' \in tcp_input(pcb, seg)

Input == \E seg \in Segments(pcb) : InputOf(seg)

\* tcp_tmr: the slow timer runs at every other tick.
Tick ==
    LET fast == tcp_fasttmr(pcb)
    IN pcb' \in fast \cup UNION {tcp_slowtmr(p) : p \in fast}

write == pcb' \in tcp_output(pcb)

readData == pcb' = [pcb EXCEPT !.canRead = TRUE]

Init ==
    pcb = [nxt |-> 0, wnd |-> WND, ann |-> WND, edge |-> WND, ooseq |-> <<>>,
           refused |-> <<>>, fin |-> FALSE, delay |-> FALSE, now |-> FALSE,
           closed |-> FALSE, canRead |-> FALSE, read |-> <<>>, eof |-> 0,
           acked |-> 0, failed |-> FALSE]

\* A failed assertion aborts the program.
Next ==
    /\ ~pcb.failed
    /\ \/ Input
       \/ Tick
       \/ write
       \/ readData

Spec == Init /\ [][Next]_pcb

-----------------------------------------------------------------------------
(* Properties                                                              *)

\* What the application was given and what waits for it is the beginning of the
\* stream, each byte once and in order, up to rcv_nxt; the end is reported once,
\* behind all of it.  Whatever overlaps, repeats or comes early.
InOrder ==
    /\ pcb.read \o pcb.refused =
          Stream(0, IF pcb.closed THEN StreamLen ELSE pcb.nxt)
    /\ pcb.closed <=> pcb.nxt = StreamLen + 1
    /\ pcb.eof > 0 => pcb.eof = 1 /\ Len(pcb.read) = StreamLen

\* ooseq is sorted and disjoint and starts above rcv_nxt (nothing that could be
\* delivered stays behind), each segment holds the bytes of its place, and only
\* the last may have the FIN: what the insertion and the loop over covered
\* segments rely on.
QueueSorted ==
    LET q == pcb.ooseq
    IN /\ \A i \in 1..Len(q) :
            /\ SegmentOK(q[i])
            /\ q[i].seq > pcb.nxt
            /\ TCP_TCPLEN(q[i]) > 0
            /\ q[i].fin => i = Len(q)
       /\ \A i \in 2..Len(q) : SegEnd(q[i - 1]) <= q[i].seq
       /\ pcb.closed => q = <<>>

\* The assertions of tcp_receive and tcp_input hold: what leaves the queue fits
\* in rcv_wnd ("tcp_receive: ooseq tcplen > rcv_wnd"), what is delivered finds
\* refused_data empty.
AssertionsHold == ~pcb.failed

\* Reassembly as the application and the assertions see it, whatever the queue
\* went through: see the parts.
Received == TypeOK /\ InOrder /\ QueueSorted /\ AssertionsHold

\* What was announced can be received: the announced edge is within rcv_wnd, and
\* rcv_ann_wnd, computed from it, is what the next segment may say without
\* moving the edge to the left or past the buffer.
AnnouncedIsFree ==
    /\ pcb.edge <= pcb.nxt + pcb.wnd
    /\ pcb.nxt + pcb.ann \in pcb.edge..(pcb.nxt + pcb.wnd)

\* The edge the peer was told never moves to the left.
EdgeNeverRetreats == [][pcb'.edge >= pcb.edge]_pcb

\* The peer can rely on the edge it was told: see the two parts.
EdgeKept == []AnnouncedIsFree /\ EdgeNeverRetreats

\* Received text is acknowledged, or the fast timer will do it.
AckOwed == pcb.acked < pcb.nxt => pcb.delay \/ pcb.now

\* Until the FIN comes, a window that has grown by what is worth an update was
\* announced.
WindowOffered ==
    ~pcb.closed =>
        pcb.nxt + pcb.wnd - pcb.edge < Max({MinUpd, Threshold})

\* Neither an acknowledgement nor a window update that is due is forgotten.
Owed == AckOwed /\ WindowOffered

-----------------------------------------------------------------------------
(* ZPTCPConnection counts the text and has no queue: a segment brings k    *)
(* bytes in sequence, and the FIN or not.                                  *)

rx == [nxt |-> pcb.nxt, wnd |-> pcb.wnd, refused |-> Len(pcb.refused),
       fin |-> pcb.fin, canRead |-> pcb.canRead, read |-> Len(pcb.read),
       eof |-> pcb.eof]

conn == [open |-> TRUE, delegate |-> TRUE, close_after_writing |-> FALSE,
         rxclosed |-> FALSE, closepend |-> FALSE, timer |-> TRUE]

Core == INSTANCE ZPTCPConnection WITH
    SND_BUF <- 0, MaxWritten <- 0, MaxPeerWnd <- 0, MAXRTX <- 1,
    FIN_WAIT_TIMEOUT <- 0, SYN_RCVD_TIMEOUT <- 0, TWO_MSL <- 0, KEEP_TIMEOUT <- 0,
    Garbage <- {}, AllocMayFail <- FALSE,
    state <- IF pcb.closed THEN "CLOSE_WAIT" ELSE "ESTABLISHED",
    tx <- 0, idle <- 0, odd <- FALSE, err <- "none", rst <- FALSE

\* Each step does to the counts what ZPTCPConnection does: nothing, readData, the
\* offer of refused data, or after the offer AcceptInSequence with some number of
\* bytes.  So nothing that the queue, overlaps and repetitions do is missing
\* there.
ImplementsCore ==
    [][LET offered == Core!tcp_process_refused_data(rx, conn, -1)
       IN \/ rx' \in {rx, offered, [rx EXCEPT !.canRead = TRUE]}
          \/ /\ ~pcb.closed
             /\ offered.refused = 0
             /\ \E d \in Core!InSequence(offered) :
                   rx' = Core!AcceptInSequence(
                       offered, conn, Core!TrimmedLen(offered, d[1]),
                       Core!TrimmedFin(offered, d[1], d[2]), -1)]_pcb
=============================================================================
