------------------------------ MODULE TcpSend -------------------------------
(***************************************************************************)
(* The sender's half of a pcb, byte for byte: tcp_write cuts what the      *)
(* application writes into segments and fills up the last one (oversize,   *)
(* concatenation), tcp_output moves segments from unsent to unacked, the   *)
(* timers and duplicate acknowledgements move them back, and tcp_receive   *)
(* frees what is acknowledged.                                             *)
(*                                                                         *)
(* ZPTCPConnection models the states of the pcb and counts what is sent;   *)
(* here the states are SYN_RCVD, ESTABLISHED (CLOSE_WAIT is alike) and     *)
(* FIN_WAIT_1.  iss is 0, so that a byte's sequence number is its place in *)
(* what the application wrote; sequence numbers do not wrap.  pbuf_alloc   *)
(* of PBUF_RAM gives one pbuf, so every part of a segment counts as one.   *)
(***************************************************************************)
EXTENDS Integers, Sequences, SequencesExt, FiniteSetsExt

CONSTANTS
    MSS,            \* pcb->mss
    SND_BUF,        \* TCP_SND_BUF
    SND_QUEUELEN,   \* TCP_SND_QUEUELEN
    U16,            \* 2^16, the width of the length of tcp_write
    SynWindows,     \* windows the peer's SYN may offer
    Windows,        \* windows its other segments may offer
    MayShrink,      \* may the peer take back a part of the window it offered?
    Lengths,        \* lengths of the application's writes
    StreamLen       \* bound: bytes written

ASSUME SendAssumption ==
    /\ {MSS, SND_QUEUELEN} \subseteq Nat \ {0}
    /\ {SND_BUF, StreamLen, U16} \subseteq Nat /\ SND_BUF < U16
    /\ SynWindows \cup Windows \subseteq 0..(U16 - 1)
    /\ Lengths \subseteq Nat \ {0} /\ MayShrink \in BOOLEAN

VARIABLES
    pcb,            \* the fields of struct tcp_pcb that sending uses
    asked,          \* bytes of the writes that were accepted, as the application counts
    offered         \* right edge of the largest window the peer offered

vars == <<pcb, asked, offered>>

-----------------------------------------------------------------------------
(* Segments                                                                *)

Segment == [seq : Nat, data : Seq(Nat), clen : Nat, syn : BOOLEAN, fin : BOOLEAN]

\* The bytes number a, ..., a + n - 1 of the stream.
Bytes(a, n) == [i \in 1..n |-> a + i - 1]

tcp_create_segment(s, d) ==
    [seq |-> s, data |-> d, clen |-> 1, syn |-> FALSE, fin |-> FALSE]

TCP_TCPLEN(s) == Len(s.data) + (IF s.syn \/ s.fin THEN 1 ELSE 0)

\* Put a segment at its place in a queue that is ordered by sequence numbers:
\* before the first one that is not below it.
Insert(q, s) ==
    LET below == Max({n \in 0..Len(q) : \A i \in 1..n : q[i].seq < s.seq})
    IN  SubSeq(q, 1, below) \o <<s>> \o SubSeq(q, below + 1, Len(q))

\* Put all of out there, one after the other.
InsertAll(q, out) ==
    LET r[n \in 0..Len(out)] == IF n = 0 THEN q ELSE Insert(r[n - 1], out[n])
    IN  r[Len(out)]

Merged(p) == InsertAll(p.unacked, p.unsent)

\* The pbufs and the bytes of a queue.
Total(h) ==
    LET t[n \in 0..Len(h)] == IF n = 0 THEN 0 ELSE t[n - 1] + h[n]
    IN  t[Len(h)]

Pbufs(q) == Total([i \in 1..Len(q) |-> q[i].clen])
Volume(q) == Total([i \in 1..Len(q) |-> Len(q[i].data)])

Smaller(a, b) == IF a < b THEN a ELSE b
Larger(a, b) == IF a < b THEN b ELSE a

TypeOK ==
    /\ pcb.state \in {"SYN_RCVD", "ESTABLISHED", "FIN_WAIT_1"}
    /\ {pcb.unsent, pcb.unacked} \subseteq Seq(Segment)
    /\ pcb.snd_buf \in 0..SND_BUF /\ pcb.snd_queuelen \in 0..(SND_QUEUELEN + 1)
    /\ pcb.unsent_oversize \in 0..MSS
    /\ {pcb.snd_lbb, pcb.snd_nxt, pcb.lastack, pcb.snd_wl2} \subseteq 0..(StreamLen + 2)
    /\ pcb.cwnd \in Nat /\ pcb.ssthresh \in Nat
    /\ pcb.snd_wnd <= pcb.snd_wnd_max
    /\ pcb.dupacks \in 0..4
    /\ {pcb.memerr, pcb.fin, pcb.infr, pcb.rtime, pcb.persist} \subseteq BOOLEAN

-----------------------------------------------------------------------------
(* tcp_output and retransmission                                           *)

Wnd(p) == Smaller(p.snd_wnd, p.cwnd)

Fits(p, s) == s.seq - p.lastack + Len(s.data) <= Wnd(p)

\* tcp_do_output_nagle, when i - 1 segments have just been moved to unacked.
tcp_do_output_nagle(p, i) ==
    \/ p.unacked = <<>> /\ i = 1
    \/ p.infr
    \/ i < Len(p.unsent)
    \/ Len(p.unsent[i].data) >= MSS
    \/ p.snd_buf = 0 \/ p.snd_queuelen >= SND_QUEUELEN

\* The segments the loop sends: as many as fit and Nagle's algorithm lets go.
Sent(p) ==
    Max({n \in 0..Len(p.unsent) :
            \A i \in 1..n : /\ Fits(p, p.unsent[i])
                            /\ tcp_do_output_nagle(p, i) \/ p.memerr \/ p.fin})

\* With n of them sent.  The output function of the interface never fails.
tcp_output_segments(p, n) ==
    LET out == SubSeq(p.unsent, 1, n)
    IN  [p EXCEPT
           !.unsent = SubSeq(p.unsent, n + 1, Len(p.unsent)),
           !.unacked = InsertAll(p.unacked, out),
           !.snd_nxt = Max({p.snd_nxt} \cup {out[i].seq + TCP_TCPLEN(out[i]) : i \in 1..n}),
           !.rtime = p.rtime \/ n > 0,
           !.unsent_oversize = IF n = Len(p.unsent) THEN 0 ELSE @,
           !.memerr = FALSE]

\* Mutant: the persist timer is for closed windows only.
PersistsWhenClosed(p) == p.unsent # <<>> /\ p.unacked = <<>> /\ p.snd_wnd = 0

Persists(p) ==
    /\ p.unsent # <<>> /\ p.unacked = <<>> /\ ~Fits(p, Head(p.unsent))
    /\ Wnd(p) > 0 /\ Wnd(p) = p.snd_wnd

\* The end of every step, with the pcb p.  ackNow: is TF_ACK_NOW set?  Then an empty
\* ACK is all that is sent when no segment fits.  A head that does not fit starts
\* the persist timer.
tcp_output(p, ackNow) ==
    IF ackNow /\ (p.unsent = <<>> \/ ~Fits(p, Head(p.unsent)))
    THEN pcb' = p
    ELSE IF Persists(p)
    THEN pcb' = [p EXCEPT !.persist = TRUE, !.memerr = FALSE]
    ELSE \E n \in {Sent(p)} : pcb' = tcp_output_segments(p, n)

tcp_rexmit_rto(p) == [p EXCEPT !.unsent = p.unacked \o p.unsent, !.unacked = <<>>]

tcp_rexmit(p) ==
    IF p.unacked = <<>> THEN p
    ELSE LET q == Insert(p.unsent, Head(p.unacked))
         IN  [p EXCEPT !.unacked = Tail(@), !.unsent = q,
                       !.unsent_oversize = IF Last(q) = Head(p.unacked) THEN 0 ELSE @]

tcp_rexmit_fast(p) ==
    IF p.unacked = <<>> \/ p.infr THEN p
    ELSE LET thresh == Larger(Wnd(p) \div 2, 2 * MSS)
         IN  [tcp_rexmit(p) EXCEPT !.ssthresh = thresh, !.cwnd = thresh + 3 * MSS,
                                   !.infr = TRUE, !.rtime = TRUE]

-----------------------------------------------------------------------------
(* tcp_write                                                               *)

\* mss_local: at most half of the largest window seen.
MssLocal(p) ==
    LET half == Smaller(MSS, p.snd_wnd_max \div 2) IN IF half = 0 THEN MSS ELSE half

LastLen(p) == IF p.unsent = <<>> THEN 0 ELSE Len(Last(p.unsent).data)

\* Bytes that tcp_pbuf_prealloc allocates behind the length: up to the maximum,
\* unless this is the first segment and the queues are empty.
tcp_pbuf_prealloc(p, length, max_length, first) ==
    IF length < max_length /\ (~first \/ p.unsent # <<>> \/ p.unacked # <<>>)
    THEN max_length - length ELSE 0

\* Mutant: mss_local is not looked at when the last segment is filled up.
SplitToMss(p, len) ==
    LET concat == IF p.unsent # <<>> /\ LastLen(p) > 0 THEN Smaller(MSS - LastLen(p), len) ELSE 0
        rest == len - concat
        news == (rest + MssLocal(p) - 1) \div MssLocal(p)
    IN  [used |-> 0, concat |-> concat, rest |-> rest, news |-> news, oversize |-> 0]

\* How the length is split up: bytes that go into the oversize of the last
\* segment, into a pbuf chained to it, and into new segments of at most mss_local.
Split(p, len) ==
    LET space == MssLocal(p) - LastLen(p)
        used == Smaller(space, Smaller(p.unsent_oversize, len))
        left == space - used
        concat == IF p.unsent # <<>> /\ used < len /\ left > 0 /\ LastLen(p) > 0
                  THEN Smaller(left, len - used) ELSE 0
        rest == len - used - concat
        news == (rest + MssLocal(p) - 1) \div MssLocal(p)
        lastNew == rest - (news - 1) * MssLocal(p)
    IN  [used |-> used, concat |-> concat, rest |-> rest, news |-> news,
         oversize |-> IF news > 0
                      THEN tcp_pbuf_prealloc(p, lastNew, MssLocal(p), news = 1)
                      ELSE IF concat > 0 THEN tcp_pbuf_prealloc(p, concat, left, TRUE)
                      ELSE p.unsent_oversize - used]

tcp_write_checks(p, len) ==
    /\ p.state \in {"SYN_RCVD", "ESTABLISHED"}
    /\ len <= p.snd_buf /\ p.snd_queuelen < SND_QUEUELEN

\* The segments for the rest of the data, from sequence number a.
NewSegments(p, a, w) ==
    [i \in 1..w.news |->
        LET pos == (i - 1) * MssLocal(p)
        IN  tcp_create_segment(a + pos, Bytes(a + pos, Smaller(MssLocal(p), w.rest - pos)))]

\* The last segment with n more bytes, from sequence number a, in c more pbufs.
Longer(s, a, n, c) == [s EXCEPT !.data = @ \o Bytes(a, n), !.clen = @ + c]

\* The pbuf that is chained to it.
Chained(w) == IF w.concat > 0 THEN 1 ELSE 0

\* Success: everything is queued.
Queued(p, len) ==
    LET w == Split(p, len)
        more == w.used + w.concat
        filled == IF more = 0 THEN p.unsent
                  ELSE [p.unsent EXCEPT ![Len(p.unsent)] = Longer(@, p.snd_lbb, more, Chained(w))]
    IN  [p EXCEPT !.unsent = filled \o NewSegments(p, p.snd_lbb + more, w),
                  !.unsent_oversize = w.oversize,
                  !.snd_lbb = @ + len, !.snd_buf = @ - len,
                  !.snd_queuelen = @ + (w.news + Chained(w))]

\* With or without memory.  memerr: nothing is queued.  A length of 0 is fine.
WriteFails(p, len, memory) ==
    LET w == Split(p, len)
        queuelen == p.snd_queuelen + (w.news + Chained(w))
    IN  len > 0 /\ ( \/ ~tcp_write_checks(p, len)
                     \/ w.news > 0 /\ queuelen > SND_QUEUELEN
                     \/ ~memory /\ w.news + w.concat > 0 )

tcp_write(p, len, memory) ==
    IF WriteFails(p, len, memory) THEN [p EXCEPT !.memerr = p.state # "FIN_WAIT_1" \/ @]
    ELSE IF len = 0 THEN p ELSE Queued(p, len)

\* Mutant: the segment of the FIN is not counted.
FinUncounted(p) ==
    IF p.unsent # <<>> /\ ~Last(p.unsent).syn
    THEN [p EXCEPT !.unsent[Len(p.unsent)].fin = TRUE, !.fin = TRUE]
    ELSE [p EXCEPT !.unsent = Append(@, [tcp_create_segment(p.snd_lbb, <<>>) EXCEPT !.fin = TRUE]),
                   !.unsent_oversize = 0, !.fin = TRUE, !.snd_lbb = @ + 1]

\* The FIN goes onto the last segment or becomes one of its own.
tcp_send_fin(p) ==
    IF p.unsent # <<>> /\ ~Last(p.unsent).syn
    THEN [p EXCEPT !.unsent[Len(p.unsent)].fin = TRUE, !.fin = TRUE]
    ELSE [p EXCEPT !.unsent = Append(@, [tcp_create_segment(p.snd_lbb, <<>>) EXCEPT !.fin = TRUE]),
                   !.unsent_oversize = 0, !.fin = TRUE,
                   !.snd_lbb = @ + 1, !.snd_queuelen = @ + 1]

-----------------------------------------------------------------------------
(* tcp_receive: the acknowledgement of a segment                           *)

\* The window is taken from a segment that is newer, or newer by its
\* acknowledgement, or that offers more; it starts or stops the persist timer.
IsUpdate(p, ackno, wnd, newer) ==
    newer \/ p.snd_wl2 < ackno \/ (p.snd_wl2 = ackno /\ wnd > p.snd_wnd)

WindowUpdate(p, ackno, wnd, newer) ==
    IF IsUpdate(p, ackno, wnd, newer)
    THEN [p EXCEPT !.snd_wnd = wnd, !.snd_wnd_max = Larger(@, wnd),
                   !.snd_wl2 = ackno, !.persist = (wnd = 0)]
    ELSE p

\* A duplicate of the last acknowledgement, judged before and after the update.
Duplicate(p, q, ackno, text) ==
    /\ ~text /\ p.rtime /\ ackno = p.lastack
    /\ q.snd_wl2 + q.snd_wnd = p.snd_wl2 + p.snd_wnd

\* Above this limit, which is above every window, the value of cwnd makes no
\* difference.  dupacks stays at 4 here; the code counts to 255.
CwndLimit == Max({SND_BUF, 4 * MSS} \cup SynWindows \cup Windows)

DupAck(p) ==
    LET q == [p EXCEPT !.dupacks = Smaller(@ + 1, 4)]
    IN  IF q.dupacks > 3 THEN [q EXCEPT !.cwnd = Larger(@, Smaller(@ + MSS, CwndLimit))]
        ELSE IF q.dupacks = 3 THEN tcp_rexmit_fast(q) ELSE q

\* cwnd grows by the mss or by a share of it.
Congestion(p) ==
    LET c == IF p.infr THEN p.ssthresh ELSE p.cwnd
    IN  [p EXCEPT !.infr = FALSE,
                  !.cwnd = Smaller(IF c < p.ssthresh THEN c + MSS ELSE c + (MSS * MSS) \div c,
                                   CwndLimit)]

\* Mutant: the FIN of a segment is not waited for.
AckedWithoutFin(q, ackno) ==
    Max({n \in 0..Len(q) : \A i \in 1..n : q[i].seq + Len(q[i].data) <= ackno})

\* Free the segments at the head of a queue that are acknowledged entirely.
Acked(q, ackno) ==
    Max({n \in 0..Len(q) : \A i \in 1..n : q[i].seq + TCP_TCPLEN(q[i]) <= ackno})

\* The first a segments of unacked and u of unsent.
Freed(p, a, u) ==
    LET free == SubSeq(p.unacked, 1, a) \o SubSeq(p.unsent, 1, u)
    IN  [p EXCEPT !.unacked = SubSeq(@, a + 1, Len(@)),
                  !.unsent = SubSeq(@, u + 1, Len(@)),
                  !.unsent_oversize = IF u > 0 /\ u = Len(p.unsent) THEN 0 ELSE @,
                  !.rtime = a < Len(p.unacked),
                  !.snd_queuelen = @ - Pbufs(free),
                  !.snd_buf = @ + Volume(free)]

NewAck(p, ackno) ==
    [Congestion(Freed(p, Acked(p.unacked, ackno), Acked(p.unsent, ackno)))
        EXCEPT !.dupacks = 0, !.lastack = ackno]

\* p: before the window update, q: after it.
Acknowledge(p, q, ackno, text) ==
    IF ackno > p.lastack THEN NewAck(q, ackno)
    ELSE IF Duplicate(p, q, ackno, text) THEN DupAck(q)
    ELSE [q EXCEPT !.dupacks = 0]

\* SYN_RCVD: the ACK of the SYN establishes the connection and sets cwnd to
\* LWIP_TCP_CALC_INITIAL_CWND, four times the mss when that is small.
Established(p, q) ==
    IF p.state = "SYN_RCVD" THEN [q EXCEPT !.state = "ESTABLISHED", !.cwnd = 4 * MSS] ELSE q

-----------------------------------------------------------------------------
(* Actions: the blocks of the timerQueue                                   *)

\* The connection as the SYN leaves it: the SYN-ACK is sent.
Init ==
    \E w \in SynWindows :
        /\ pcb = [state |-> "SYN_RCVD", unsent |-> <<>>,
                  unacked |-> <<[tcp_create_segment(0, <<>>) EXCEPT !.syn = TRUE]>>,
                  snd_lbb |-> 1, snd_nxt |-> 1, lastack |-> 0, snd_wl2 |-> 0,
                  snd_wnd |-> w, snd_wnd_max |-> w, snd_buf |-> SND_BUF,
                  snd_queuelen |-> 1, unsent_oversize |-> 0,
                  cwnd |-> 1, ssthresh |-> SND_BUF, dupacks |-> 0,
                  memerr |-> FALSE, fin |-> FALSE, infr |-> FALSE,
                  rtime |-> TRUE, persist |-> FALSE]
        /\ asked = 0
        /\ offered = 1 + w

\* write: the NSUInteger length becomes a u16_t.
write ==
    \E length \in Lengths, memory \in BOOLEAN :
        /\ pcb.snd_lbb + length <= StreamLen + 1
        /\ \E p \in {tcp_write(pcb, length % U16, memory)} :
              IF WriteFails(pcb, length % U16, memory)
              THEN pcb' = p /\ asked' = asked
              ELSE tcp_output(p, FALSE) /\ asked' = asked + length
        /\ UNCHANGED offered

\* tcp_close: without memory for the FIN nothing happens and it is tried again.
close ==
    /\ pcb.state \in {"SYN_RCVD", "ESTABLISHED"}
    /\ \E p \in {[tcp_send_fin(pcb) EXCEPT !.state = "FIN_WAIT_1"]} : tcp_output(p, FALSE)
    /\ UNCHANGED <<asked, offered>>

\* A segment: ackno and wnd, whether its seqno is newer than that of the last
\* window update, whether it carries text, and whether that sets TF_ACK_NOW.  The
\* peer acknowledges what was sent; segments may be late.  If it does not shrink its
\* window, an update moves the right edge on and a late segment is behind it.
tcp_input(ackno, wnd, newer, text, ackNow) ==
    /\ pcb.state = "SYN_RCVD" => ackno > 0
    /\ pcb.lastack = 0 => newer
    /\ newer => ackno >= pcb.snd_wl2
    /\ ackNow => text
    /\ \/ MayShrink
       \/ IF IsUpdate(pcb, ackno, wnd, newer)
          THEN ackno + wnd >= offered ELSE ackno + wnd <= offered
    /\ \E q \in {WindowUpdate(pcb, ackno, wnd, newer)} :
       \E r \in {Established(pcb, Acknowledge(pcb, q, ackno, text))} :
           tcp_output(r, ackNow)
    /\ offered' = Larger(offered, ackno + wnd)
    /\ UNCHANGED asked

Segments ==
    \E ackno \in {pcb.lastack - 1} \cup pcb.lastack..pcb.snd_nxt, wnd \in Windows,
       newer, text, ackNow \in BOOLEAN :
        ackno >= 0 /\ tcp_input(ackno, wnd, newer, text, ackNow)

\* tcp_slowtmr: the persist timer sends a byte of the first segment.
tcp_zero_window_probe ==
    /\ pcb.persist /\ pcb.unacked \o pcb.unsent # <<>>
    /\ pcb' = [pcb EXCEPT !.snd_nxt = Larger(@, Head(pcb.unacked \o pcb.unsent).seq + 1)]
    /\ UNCHANGED <<asked, offered>>

\* tcp_slowtmr: the retransmission timer expires.
Retransmit ==
    /\ ~pcb.persist /\ pcb.rtime /\ pcb.unacked # <<>>
    /\ \E p \in {[tcp_rexmit_rto(pcb) EXCEPT !.ssthresh = Larger(Wnd(pcb) \div 2, 2 * MSS),
                                             !.cwnd = MSS]} : tcp_output(p, FALSE)
    /\ UNCHANGED <<asked, offered>>

\* tcp_slowtmr: the poll timer expires; or TF_ACK_DELAY is set in tcp_fasttmr.
Poll == tcp_output(pcb, FALSE) /\ UNCHANGED <<asked, offered>>

Next ==
    \/ write \/ close \/ Segments
    \/ tcp_zero_window_probe \/ Retransmit \/ Poll

Spec == Init /\ [][Next]_vars

-----------------------------------------------------------------------------
(* Properties                                                              *)

\* Whatever was written and is not acknowledged is in unsent or unacked, once, in
\* order and with the right bytes, however writes, retransmissions, partial
\* acknowledgements and the FIN divide it into segments.
StreamKept ==
    LET q == Merged(pcb)
        End(s) == s.seq + TCP_TCPLEN(s)
        all == 1 + asked + (IF pcb.fin THEN 1 ELSE 0)
    IN  /\ \A i \in DOMAIN q : q[i].data = Bytes(q[i].seq, Len(q[i].data))
        /\ \A i \in 2..Len(q) : q[i].seq = End(q[i - 1])
        /\ q = <<>> => pcb.lastack = all
        /\ q # <<>> => /\ q[1].seq <= pcb.lastack /\ pcb.lastack < End(q[1])
                        /\ End(Last(q)) = all

\* snd_buf and snd_queuelen are what the segments on both queues leave free, and
\* use: what tcp_write refuses by was not lost or counted twice on the way.
SendAccounting ==
    LET q == pcb.unacked \o pcb.unsent
    IN  /\ pcb.snd_queuelen = Pbufs(q)
        /\ pcb.snd_buf = SND_BUF - Volume(q)

\* The assertions of tcp_write hold in every state in which the application may
\* write: the last segment is not longer than mss_local, its oversize fits into
\* the rest, and is gone when the queue is empty.
AssertionsHold ==
    tcp_write_checks(pcb, 1) =>
        /\ pcb.unsent # <<>> => /\ LastLen(pcb) <= MssLocal(pcb)
                                /\ pcb.unsent_oversize <= MssLocal(pcb) - LastLen(pcb)
        /\ pcb.unsent = <<>> => pcb.unsent_oversize = 0
        /\ pcb.snd_queuelen # 0 <=> pcb.unsent \o pcb.unacked # <<>>

\* What tcp_write relies on: the types, with the width of snd_queuelen and
\* unsent_oversize, and the assertions.
QueuesSound == TypeOK /\ AssertionsHold

\* Nothing is sent beyond the largest right edge the peer has offered, but for the
\* one number that a FIN or the probe of a closed window takes.
WithinOffer == pcb.snd_nxt <= offered + 1

\* What is queued never waits for something that does not come: the persist or the
\* retransmission timer runs, or the next poll sends a segment or starts the
\* persist timer.  A head that is larger than the window is the hard case: the
\* peer, which has seen nothing of it, need not say more.
NeverStuck ==
    pcb.unacked \o pcb.unsent # <<>> =>
        \/ pcb.persist
        \/ pcb.unacked # <<>> /\ pcb.rtime
        \/ Persists(pcb) \/ Sent(pcb) > 0

\* The window neither lets out too much nor holds back for ever.
WindowObeyed == WithinOffer /\ NeverStuck
=============================================================================
