-------------------------- MODULE ZPTCPConnection --------------------------
(***************************************************************************)
(* One connection of the stack: the tcp_pcb of lwIP, the zp_tcp_block that *)
(* holds it and the ZPTCPConnection object around both.                    *)
(*                                                                         *)
(* Everything below runs on the connection's serial timerQueue, so each    *)
(* action is one block of that queue run to its end: a segment handed over *)
(* by the tunnel (tcp_input), a 250 ms tick of the dispatch timer          *)
(* (tcp_tmr), or the body of an API call.                                  *)
(*                                                                         *)
(* Data.  The peer's stream is StreamLen bytes followed by a FIN; received *)
(* bytes are counted, not named (module TcpReceive names them).  On the    *)
(* send side every byte written, the SYN and the FIN have one sequence     *)
(* number each, starting at 0 for the SYN.                                 *)
(***************************************************************************)
EXTENDS Integers, FiniteSets

CONSTANTS
    WND,                \* TCP_WND, the receive window
    StreamLen,          \* bound: bytes the peer sends before its FIN
    SND_BUF,            \* TCP_SND_BUF, bytes that may await acknowledgement
    MaxWritten,         \* bound: bytes the application writes
    MaxPeerWnd,         \* bound: largest window the peer announces
    MAXRTX,             \* TCP_MAXRTX
    FIN_WAIT_TIMEOUT,   \* the timeouts, in slow timer ticks
    SYN_RCVD_TIMEOUT,
    TWO_MSL,
    KEEP_TIMEOUT,       \* keep_idle + TCP_KEEP_DUR
    Garbage,            \* what the freed tot_len may read as, see FreedLen
    AllocMayFail        \* may the segment for the FIN fail to be allocated?

ASSUME ConstantsAssumption ==
    /\ WND \in Nat \ {0} /\ StreamLen \in Nat /\ SND_BUF \in Nat
    /\ MaxWritten \in Nat /\ MaxPeerWnd \in Nat /\ MAXRTX \in Nat \ {0}
    /\ FIN_WAIT_TIMEOUT \in Nat /\ SYN_RCVD_TIMEOUT \in Nat
    /\ TWO_MSL \in Nat /\ KEEP_TIMEOUT \in Nat
    /\ {FIN_WAIT_TIMEOUT, SYN_RCVD_TIMEOUT, TWO_MSL} \subseteq 0..KEEP_TIMEOUT
    /\ Garbage \subseteq 0..WND
    /\ AllocMayFail \in BOOLEAN

VARIABLES
    state,      \* pcb->state, or "FREED" when block->pcb is NULL
    rx,         \* receive half of the pcb, canReadData, what was delivered
    tx,         \* send half of the pcb, what was reported as written
    conn,       \* flags of the pcb, of the block and of the connection
    idle,       \* slow ticks since pcb->tmr, saturating
    odd,        \* tcp_timer & 1
    err,        \* how the end of the connection was reported
    rst         \* has a RST been sent on the connection's addresses?

vars == <<state, rx, tx, conn, idle, odd, err, rst>>

Max2(a, b) == IF a > b THEN a ELSE b
Min2(a, b) == IF a < b THEN a ELSE b

-----------------------------------------------------------------------------
(* Types                                                                   *)

\* States in which the pcb is alive and not purged.
Live == {"SYN_RCVD", "ESTABLISHED", "FIN_WAIT_1", "FIN_WAIT_2",
         "CLOSE_WAIT", "CLOSING", "LAST_ACK"}
\* pcb->state < CLOSE_WAIT (and past the handshake): data is still accepted.
Receiving == {"ESTABLISHED", "FIN_WAIT_1", "FIN_WAIT_2"}
\* States tcp_write accepts; SYN_SENT never occurs.
Writable == {"SYN_RCVD", "ESTABLISHED", "CLOSE_WAIT"}
States == Live \cup {"TIME_WAIT", "FREED"}

IdleMax == KEEP_TIMEOUT + 1     \* bound: longer idle times are not told apart
SeqMax == MaxWritten + 2        \* SYN, the written bytes, FIN

RxType == [nxt : 0..(StreamLen + 1),    \* rcv_nxt - (irs + 1)
           wnd : 0..WND,                \* rcv_wnd
           refused : 0..WND,            \* bytes in refused_data, 0 for NULL
           fin : BOOLEAN,               \* PBUF_FLAG_TCP_FIN of refused_data
           canRead : BOOLEAN,           \* canReadData
           read : 0..StreamLen,         \* bytes passed to didReadData:
           eof : Nat]                   \* connectionDidCloseReadStream: calls

TxType == [una : 0..SeqMax,             \* lastack
           nxt : 0..SeqMax,             \* snd_nxt
           lbb : 0..SeqMax,             \* snd_lbb, with the FIN counted
           unsent : SUBSET (0..SeqMax),
           unacked : SUBSET (0..SeqMax),
           wnd : 0..MaxPeerWnd,         \* snd_wnd
           persist : BOOLEAN,           \* persist_backoff > 0
           buf : Int,                   \* snd_buf
           fin : BOOLEAN,               \* TF_FIN
           infr : BOOLEAN,              \* TF_INFR
           nrtx : 0..MAXRTX,
           acked : Int]                 \* bytes reported by didWriteData:

ConnType == [open : BOOLEAN,                  \* zp_tcp_connected was called
             delegate : BOOLEAN,              \* delegateQueue is set
             close_after_writing : BOOLEAN,
             rxclosed : BOOLEAN,              \* TF_RXCLOSED
             closepend : BOOLEAN,             \* TF_CLOSEPEND
             timer : BOOLEAN]                 \* the dispatch timer runs

\* "unset": the end came before a delegate was set, nobody was told.
Errs == {"none", "ERR_RST", "ERR_ABRT", "ERR_CLSD", "unset"}

TypeOK ==
    /\ state \in States
    /\ rx \in RxType
    /\ tx \in TxType
    /\ conn \in ConnType
    /\ idle \in 0..IdleMax
    /\ odd \in BOOLEAN
    /\ err \in Errs
    /\ rst \in BOOLEAN

-----------------------------------------------------------------------------
(* Receive half                                                            *)

\* Calling tcp_recved with the length l; rcv_wnd is a u16_t and TCP_WND its
\* largest value, so a sum past it wraps, and a sum that wraps to 0 is TCP_WND.
tcp_recved(wnd, l) ==
    IF wnd + l <= WND THEN wnd + l
    ELSE IF wnd + l = WND + 1 THEN WND ELSE wnd + l - WND - 1

\* zp_tcp_recv calls pbuf_free(p) and only then reads p->tot_len for
\* tcp_recved: g = -1 is the outcome in which the freed header still holds the
\* length n, any other g one in which it reads as g.
FreedLen(n, g) == IF g = -1 THEN n ELSE g
FreedReads == {-1} \cup Garbage

\* Mutant of FinCredit: the sequence number of the FIN is never given back.
FinCreditDropped(wnd) == wnd

\* "correct rcv_wnd as the application won't call tcp_recved() for the FIN"
FinCredit(wnd) == IF wnd # WND THEN wnd + 1 ELSE wnd

\* Does zp_tcp_recv take data now?
Takes(r, c) == r.canRead /\ ~c.close_after_writing

\* zp_tcp_recv(NULL): is the end of the stream reported to the delegate?
EofReport(c) == IF c.delegate /\ ~c.close_after_writing THEN 1 ELSE 0

\* Mutant of tcp_process_refused_data: refused data is never offered again.
NeverOfferedAgain(r, c, g) == r

\* Offer refused_data to zp_tcp_recv once more.
tcp_process_refused_data(r, c, g) ==
    IF r.refused = 0 \/ ~Takes(r, c) THEN r
    ELSE LET wnd == tcp_recved(r.wnd, FreedLen(r.refused, g))
         IN [r EXCEPT !.canRead = FALSE,
                      !.read = @ + r.refused,
                      !.refused = 0,
                      !.fin = FALSE,
                      !.wnd = IF r.fin THEN FinCredit(wnd) ELSE wnd,
                      !.eof = IF r.fin THEN @ + EofReport(c) ELSE @]

\* Mutant of ReportFin: the FIN overtakes the data in front of it.
ReportFinAtOnce(f, kept) == f

\* "Delay this if we have refused data."
ReportFin(f, kept) == f /\ ~kept

\* The segment brought k bytes in sequence (with what ooseq added) and, when f
\* holds, the FIN: rcv_nxt and rcv_wnd move, the data is passed to zp_tcp_recv
\* or becomes refused_data, and the FIN is reported unless data is refused.
AcceptInSequence(r, c, k, f, g) ==
    LET end == IF f THEN 1 ELSE 0
        taken == k > 0 /\ Takes(r, c)
        kept == k > 0 /\ ~taken
        wnd == IF taken THEN tcp_recved(r.wnd - k - end, FreedLen(k, g))
                        ELSE r.wnd - k - end
    IN IF k + end = 0 THEN r
       ELSE [r EXCEPT !.nxt = @ + k + end,
                      !.canRead = @ /\ ~taken,
                      !.read = IF taken THEN @ + k ELSE @,
                      !.refused = IF kept THEN k ELSE 0,
                      !.fin = f /\ kept,
                      !.wnd = IF ReportFin(f, kept) THEN FinCredit(wnd) ELSE wnd,
                      !.eof = IF ReportFin(f, kept) THEN @ + EofReport(c) ELSE @]

\* Bytes and FIN that the peer can send next, the FIN again and again.
InSequence(r) ==
    {d \in (0..StreamLen) \X BOOLEAN :
        /\ d[1] > 0 => r.nxt + d[1] <= StreamLen
        /\ d[2] => r.nxt + d[1] >= StreamLen}

\* Mutant of TrimmedLen: the window is not looked at.
Untrimmed(r, k) == k

\* What lies beyond rcv_wnd is cut off, the FIN first.
TrimmedLen(r, k) == Min2(k, r.wnd)
TrimmedFin(r, k, f) == f /\ k < r.wnd

-----------------------------------------------------------------------------
(* Send half                                                               *)

\* Sequence numbers that carry no data byte have seg->len = 0.
IsData(t, s) == s # 0 /\ ~(t.fin /\ s = t.lbb - 1)

\* tcp_output sends the unsent segments in order up to this number: what fits
\* in snd_wnd (a SYN or FIN may sit on its edge), and what cwnd and Nagle let
\* through, everything when all holds, else the head if nothing is in flight.
OutputLimit(t, all) ==
    LET edge == t.una + t.wnd
        window == IF IsData(t, edge) THEN edge ELSE edge + 1
        cwnd == IF all THEN t.lbb
                ELSE IF t.unacked = {} THEN t.una + 1 ELSE t.una
    IN Min2(t.lbb, Min2(window, cwnd))

tcp_output(t, all) ==
    LET limit == OutputLimit(t, all)
        sent == {s \in t.unsent : s < limit}
    IN [t EXCEPT !.unsent = @ \ sent,
                 !.unacked = @ \cup sent,
                 !.nxt = Max2(@, limit)]

\* Requeue the first unacknowledged segment.
tcp_rexmit(t) ==
    IF t.unacked = {} THEN t
    ELSE LET first == CHOOSE s \in t.unacked : \A u \in t.unacked : s <= u
         IN [t EXCEPT !.unacked = @ \ {first},
                      !.unsent = @ \cup {first},
                      !.nrtx = Min2(@ + 1, MAXRTX)]

\* The third duplicate acknowledgement, at most once per recovery.
tcp_rexmit_fast(t) ==
    IF t.unacked = {} \/ t.infr THEN t
    ELSE [tcp_rexmit(t) EXCEPT !.infr = TRUE]

\* Mutant of tcp_rexmit_rto: the retransmission is not counted.
RexmitUncounted(t, all) ==
    IF t.unacked = {} THEN t
    ELSE tcp_output([t EXCEPT !.unsent = @ \cup t.unacked, !.unacked = {}], all)

\* Requeue everything unacknowledged and start over.
tcp_rexmit_rto(t, all) ==
    IF t.unacked = {} THEN t
    ELSE tcp_output([t EXCEPT !.unsent = @ \cup t.unacked,
                              !.unacked = {},
                              !.nrtx = Min2(@ + 1, MAXRTX)], all)

\* The probe carries the first outstanding sequence number.
tcp_zero_window_probe(t) ==
    IF t.unacked = {} /\ t.unsent = {} THEN t
    ELSE [t EXCEPT !.nxt = Max2(@, t.una + 1)]

\* Queue the FIN; it is never held back by snd_queuelen, and rides on the last
\* unsent segment when there is one.
tcp_send_fin(t) ==
    [t EXCEPT !.unsent = @ \cup {t.lbb}, !.lbb = @ + 1, !.fin = TRUE]

\* tcp_pcb_purge, the send half: nothing is sent again.
PurgeTx(t) == [t EXCEPT !.unsent = {}, !.unacked = {}]
\* ... and the receive half.
PurgeRx(r) == [r EXCEPT !.refused = 0, !.fin = FALSE]

\* The announced window w of the newest segment sets snd_wnd and the persist
\* timer; a segment older than snd_wl1 and snd_wl2 (w = OldWnd) does neither.
OldWnd == -1
WindowUpdate(t, w) ==
    IF w = OldWnd THEN t ELSE [t EXCEPT !.wnd = w, !.persist = (w = 0)]

\* Mutant of Below: requeued segments are not looked at.
BelowUnacked(t, ackno) == {s \in t.unacked : s < ackno}

\* What an acknowledgement removes: "unsent" segments may in fact have been sent.
Below(t, ackno) == {s \in t.unsent \cup t.unacked : s < ackno}

\* The acknowledgement part of tcp_receive; dup holds for the third duplicate.
AckReceived(t, ackno, w, dup) ==
    LET u == WindowUpdate(t, w)
        below == Below(t, ackno)
        bytes == Cardinality({s \in below : IsData(t, s)})
    IN IF ackno > t.una
       THEN [u EXCEPT !.una = ackno,
                      !.unacked = @ \ below,
                      !.unsent = @ \ below,
                      !.nrtx = 0,
                      !.infr = FALSE,
                      !.buf = @ + bytes,
                      !.acked = @ + bytes]
       ELSE IF dup THEN tcp_rexmit_fast(u) ELSE u

\* Mutant of FinAcked: a FIN that is not sent yet counts as acknowledged.
AllSentAcked(t, ackno) == ackno = t.nxt

\* "ackno == pcb->snd_nxt && pcb->unsent == NULL"
FinAcked(t, ackno) == ackno = t.nxt /\ t.unsent = {}

-----------------------------------------------------------------------------
(* Ends of the connection.  A handler is a composition of functions on the *)
(* state of the connection, the record Now; Become makes the result the    *)
(* next state.                                                             *)

Now == [state |-> state, rx |-> rx, tx |-> tx, conn |-> conn, idle |-> idle,
        err |-> err, rst |-> rst]
Become(p) ==
    /\ state' = p.state /\ rx' = p.rx /\ tx' = p.tx
    /\ conn' = p.conn /\ idle' = p.idle /\ err' = p.err /\ rst' = p.rst

\* tcp_pcb_purge
Purge(p) == [p EXCEPT !.rx = PurgeRx(@), !.tx = PurgeTx(@)]

\* The pcb is purged and freed, block->pcb becomes NULL.
FreePcb(p) == [Purge(p) EXCEPT !.state = "FREED"]

\* TCP_EVENT_ERR: zp_tcp_err queues didDisconnectWithError: if it can.
Report(p, e) == [p EXCEPT !.err = IF p.conn.delegate THEN e ELSE "unset"]

\* TF_RESET: the peer has reset the connection.
Reset(p) == FreePcb(Report(p, "ERR_RST"))

\* tcp_abort: a RST and a word to the delegate, neither from TIME_WAIT.
tcp_abort(p) ==
    IF p.state = "TIME_WAIT" THEN FreePcb(p)
    ELSE Report([FreePcb(p) EXCEPT !.rst = TRUE], "ERR_ABRT")

\* Queue and send the FIN; when it needs a segment that cannot be allocated
\* (~ok) the fast timer tries again.
tcp_close_shutdown_fin(p, ok, all) ==
    IF p.state \notin Writable THEN p
    ELSE IF ok \/ p.tx.unsent # {}
    THEN [p EXCEPT !.tx = tcp_output(tcp_send_fin(@), all),
                   !.state = IF @ = "CLOSE_WAIT" THEN "LAST_ACK"
                                                 ELSE "FIN_WAIT_1"]
    ELSE [p EXCEPT !.conn.closepend = TRUE]

\* Mutant of Unread: tcp_close never resets.
UnreadIgnored(r) == FALSE

\* Has the application not taken all the received data?
Unread(r) == r.refused # 0 \/ r.wnd # WND

tcp_close(p, ok, all) ==
    LET q == [p EXCEPT !.conn.rxclosed = TRUE]
    IN IF q.state \in {"ESTABLISHED", "CLOSE_WAIT"} /\ Unread(q.rx)
       THEN [Purge(q) EXCEPT !.rst = TRUE,
                             !.state = IF @ = "ESTABLISHED" THEN "TIME_WAIT"
                                                            ELSE "FREED"]
       ELSE tcp_close_shutdown_fin(q, ok, all)

-----------------------------------------------------------------------------
(* tcp_input: a segment of the peer.                                       *)
(*   kind     "ACK" for an acknowledgement with or without data, "RST" and *)
(*            "SYN" otherwise                                              *)
(*   exact    "RST": the sequence number is rcv_nxt; "SYN": it is that of  *)
(*            the first SYN (in TIME_WAIT: it is in the window)            *)
(*   tcplen   does it occupy sequence space (data, FIN)?                   *)
(*   k, f     bytes and FIN it brings in sequence, with those of ooseq;    *)
(*            once the FIN was received f is a repetition                  *)
(*   ackno    acknowledgement number                                       *)
(*   w        announced window, or OldWnd                                  *)
(*   dup      it is the third duplicate acknowledgement                    *)

\* What a peer that saw what was sent so far can send, with FALSE and 0 in the
\* fields a kind does not use.
AckSegments(p) ==
    {[kind |-> "ACK", exact |-> FALSE, tcplen |-> len, k |-> d[1], f |-> d[2],
      ackno |-> a, w |-> w, dup |-> dup] :
        len \in BOOLEAN, d \in InSequence(p.rx), a \in 0..p.tx.nxt,
        w \in OldWnd..MaxPeerWnd, dup \in BOOLEAN}

OtherSegments ==
    {[kind |-> kind, exact |-> x, tcplen |-> kind = "SYN", k |-> 0, f |-> FALSE,
      ackno |-> 0, w |-> OldWnd, dup |-> FALSE] :
        kind \in {"RST", "SYN"}, x \in BOOLEAN}

\* Not: a first acknowledgement of the SYN-ACK that does not update the window,
\* nor two records of one segment (one number below lastack is like another, old
\* data is like none unless data is refused, and no acknowledgement is looked at
\* without a pcb in use).
WellFormed(seg, p) ==
    /\ p.state = "SYN_RCVD" => seg.w # OldWnd
    /\ (seg.k > 0 \/ seg.f) => seg.tcplen
    /\ seg.tcplen => seg.k > 0 \/ seg.f \/ p.rx.refused > 0
    /\ seg.ackno >= p.tx.una - 1
    /\ seg.dup => ~seg.tcplen /\ seg.w = OldWnd /\ seg.ackno = p.tx.una
    /\ p.state \notin Live =>
          seg.k = 0 /\ seg.w = OldWnd /\ seg.ackno = p.tx.una /\ ~seg.dup

Segments(p) ==
    OtherSegments \cup {seg \in AckSegments(p) : WellFormed(seg, p)}

\* The state after tcp_receive, given the FIN and the acknowledgement of ours;
\* "CLOSED" stands for TF_CLOSED.
StateAfter(st, gotFin, finAcked) ==
    CASE st \in {"SYN_RCVD", "ESTABLISHED"} ->
            IF gotFin THEN "CLOSE_WAIT" ELSE "ESTABLISHED"
      [] st = "FIN_WAIT_1" ->
            IF gotFin THEN IF finAcked THEN "TIME_WAIT" ELSE "CLOSING"
            ELSE IF finAcked THEN "FIN_WAIT_2" ELSE "FIN_WAIT_1"
      [] st = "FIN_WAIT_2" -> IF gotFin THEN "TIME_WAIT" ELSE "FIN_WAIT_2"
      [] st = "CLOSING" -> IF finAcked THEN "TIME_WAIT" ELSE "CLOSING"
      [] st = "LAST_ACK" -> IF finAcked THEN "CLOSED" ELSE "LAST_ACK"
      [] OTHER -> st

\* pcb->tmr = tcp_ticks
Refresh(p) == [p EXCEPT !.idle = 0]
Output(p, all) == [p EXCEPT !.tx = tcp_output(@, all)]

tcp_timewait_input(p, seg) ==
    IF seg.kind = "SYN" THEN [p EXCEPT !.rst = @ \/ seg.exact]
    ELSE IF seg.f THEN Refresh(p) ELSE p

\* "received data although already closed -> abort (send RST)"
AfterClose(p, k) == k > 0 /\ p.conn.rxclosed

\* An acknowledging segment reaches tcp_receive: the acknowledgement, the data,
\* the change of state, then the callbacks of tcp_input in their order.
Receive(p, seg, all, g) ==
    LET t == AckReceived(p.tx, seg.ackno, seg.w, seg.dup)
        accepts == p.state \in Receiving \cup {"SYN_RCVD"}
        k == IF accepts THEN TrimmedLen(p.rx, seg.k) ELSE 0
        f == accepts /\ TrimmedFin(p.rx, seg.k, seg.f)
        st == StateAfter(p.state, f, FinAcked(t, seg.ackno))
        received == [p EXCEPT !.tx = t, !.state = st, !.conn.open = TRUE]
        q == IF st = "TIME_WAIT" THEN Purge(received) ELSE received
    IN CASE st = "CLOSED" ->
                FreePcb(IF p.conn.rxclosed THEN q ELSE Report(q, "ERR_CLSD"))
         [] st # "CLOSED" /\ AfterClose(p, k) -> tcp_abort(q)
         [] OTHER ->
                Output([q EXCEPT !.rx = AcceptInSequence(@, p.conn, k, f, g)],
                       all)

\* tcp_process in SYN_RCVD
SynReceived(p, seg, all, g) ==
    IF seg.kind = "ACK"
    THEN IF seg.ackno > p.tx.una THEN Receive(p, seg, all, g)
                                 ELSE Output([p EXCEPT !.rst = TRUE], all)
    ELSE Output(IF seg.exact THEN [p EXCEPT !.tx = tcp_rexmit(@)] ELSE p, all)

\* tcp_process; activity counts until the application closes.
tcp_process(p, seg, all, g) ==
    LET q == IF p.conn.rxclosed THEN p ELSE Refresh(p)
    IN CASE seg.kind = "RST" ->
                IF seg.exact THEN Reset(p) ELSE Output(p, all)
         [] seg.kind = "SYN" /\ p.state # "SYN_RCVD" -> Output(p, all)
         [] seg.kind # "RST" /\ p.state = "SYN_RCVD" ->
                SynReceived(q, seg, all, g)
         [] OTHER -> Receive(q, seg, all, g)

\* Mutant of tcp_input: data is accepted behind refused data, which it replaces.
AcceptBehindRefused(p, seg, all, g) ==
    IF p.state = "FREED" THEN [p EXCEPT !.rst = @ \/ seg.kind # "RST"]
    ELSE IF p.state = "TIME_WAIT" THEN tcp_timewait_input(p, seg)
    ELSE tcp_process([p EXCEPT !.rx = tcp_process_refused_data(@, p.conn, g)],
                     seg, all, g)

\* A segment for no pcb is answered with a RST; refused data is offered again
\* first, and a segment that occupies sequence space waits for that.
tcp_input(p, seg, all, g) ==
    IF p.state = "FREED" THEN [p EXCEPT !.rst = @ \/ seg.kind # "RST"]
    ELSE IF p.state = "TIME_WAIT" THEN tcp_timewait_input(p, seg)
    ELSE LET q == [p EXCEPT !.rx = tcp_process_refused_data(@, p.conn, g)]
         IN IF q.rx.refused # 0 /\ seg.tcplen THEN q
            ELSE tcp_process(q, seg, all, g)

-----------------------------------------------------------------------------
(* tcp_tmr, every 250 ms.                                                  *)
(*   out      does a delayed ACK, a window update or the poll timer call   *)
(*            tcp_output in this tick?                                     *)
(*   ok       can a segment be allocated?                                  *)
(*   due      has the retransmission or the persist timer, whichever runs, *)
(*            expired?                                                     *)

\* Mutant of AllWritten: what is in flight is not waited for.
AllSent(t) == t.unsent = {}

\* Is everything acknowledged?
AllWritten(t) == t.unsent = {} /\ t.unacked = {}

\* Delayed ACK, pending FIN, refused data, closeAfterWriting.
tcp_fasttmr(p, out, ok, all, g) ==
    LET acked == IF out THEN Output(p, all) ELSE p
        fin == IF acked.conn.closepend
               THEN tcp_close_shutdown_fin([acked EXCEPT !.conn.closepend = FALSE],
                                           ok, all)
               ELSE acked
        read == [fin EXCEPT !.rx = tcp_process_refused_data(@, fin.conn, g)]
    IN IF read.conn.close_after_writing /\ AllWritten(read.tx)
       THEN tcp_close(read, ok, all)
       ELSE read

\* Is the pcb to be removed, its peer or its application having been silent for
\* too long?
KeepaliveOver(p) ==
    p.state \in {"ESTABLISHED", "CLOSE_WAIT"} /\ p.idle > KEEP_TIMEOUT

\* Mutant of TooManyRetries: retransmission goes on for ever.
NeverTooMany(p) == FALSE

TooManyRetries(p) == p.tx.nrtx >= MAXRTX

\* Mutant of StuckInFinWait2: a peer that never sends its FIN is waited for.
WaitForFin(p) == FALSE

StuckInFinWait2(p) ==
    p.state = "FIN_WAIT_2" /\ p.conn.rxclosed /\ p.idle > FIN_WAIT_TIMEOUT

TimedOut(p) ==
    \/ TooManyRetries(p)
    \/ StuckInFinWait2(p)
    \/ KeepaliveOver(p)
    \/ p.state = "SYN_RCVD" /\ p.idle > SYN_RCVD_TIMEOUT
    \/ p.state = "LAST_ACK" /\ p.idle > TWO_MSL

\* The persist timer replaces the retransmission timer while it runs.
Retransmit(p, due, all) ==
    IF ~due \/ TooManyRetries(p) THEN p
    ELSE IF p.tx.persist THEN [p EXCEPT !.tx = tcp_zero_window_probe(@)]
         ELSE [p EXCEPT !.tx = tcp_rexmit_rto(@, all)]

\* "removed" was decided before the retransmission of this tick.
tcp_slowtmr(p, out, due, all) ==
    LET now == [p EXCEPT !.idle = Min2(@ + 1, IdleMax)]
    IN CASE p.state = "FREED" -> p
         [] p.state = "TIME_WAIT" ->
                IF now.idle > TWO_MSL THEN FreePcb(now) ELSE now
         [] OTHER ->
                IF TimedOut(now)
                THEN Report([FreePcb(Retransmit(now, due, all)) EXCEPT
                                !.rst = @ \/ KeepaliveOver(now)], "ERR_ABRT")
                ELSE IF out THEN Output(Retransmit(now, due, all), all)
                            ELSE Retransmit(now, due, all)

\* The slow timer runs at every other tick.
tcp_tmr(p, slow, out, ok, due, all, g) ==
    LET fast == tcp_fasttmr(p, out, ok, all, g)
    IN IF slow THEN tcp_slowtmr(fast, out, due, all) ELSE fast

-----------------------------------------------------------------------------
(* The blocks of timerQueue.                                               *)

\* May the allocation of a segment fail?
Alloc == IF AllocMayFail THEN BOOLEAN ELSE {TRUE}

\* What cwnd and Nagle let through; a FIN alone is always sent.
Pace == IF tx.unsent = {} /\ tx.unacked = {} THEN {TRUE} ELSE BOOLEAN

\* tcpInputWith: a segment of the tunnel.
Input ==
    \E seg \in Segments(Now), all \in Pace, g \in FreedReads :
        Become(tcp_input(Now, seg, all, g)) /\ UNCHANGED odd

\* The handler of the dispatch timer.
TickWith(due) ==
    /\ conn.timer
    /\ state # "FREED"
    /\ odd' = ~odd
    /\ \E out \in BOOLEAN, ok \in Alloc, all \in Pace, g \in FreedReads :
          Become(tcp_tmr(Now, ~odd, out, ok, due, all, g))

Tick == \E due \in BOOLEAN : TickWith(due)

\* ... when the pcb is gone: the tunnel forgets the connection.
TimerEnds ==
    /\ conn.timer
    /\ state = "FREED"
    /\ conn' = [conn EXCEPT !.timer = FALSE]
    /\ UNCHANGED <<state, rx, tx, idle, odd, err, rst>>

\* The application learns of the connection by zp_tcp_connected.
syncSetDelegate ==
    /\ conn.open
    /\ state # "FREED"
    /\ conn' = [conn EXCEPT !.delegate = TRUE]
    /\ UNCHANGED <<state, rx, tx, idle, odd, err, rst>>

asyncSetDelegate ==
    /\ conn.open
    /\ conn' = [conn EXCEPT !.delegate = TRUE]
    /\ UNCHANGED <<state, rx, tx, idle, odd, err, rst>>

\* write: n bytes; a write tcp_write does not accept changes nothing.
write(n) ==
    /\ conn.delegate
    /\ ~conn.close_after_writing
    /\ state \in Writable
    /\ n <= tx.buf
    /\ tx.lbb + n <= MaxWritten + 1             \* bound
    /\ \E all \in BOOLEAN :
          tx' = tcp_output([tx EXCEPT !.unsent = @ \cup (tx.lbb..(tx.lbb + n - 1)),
                                      !.lbb = @ + n,
                                      !.buf = @ - n], all)
    /\ UNCHANGED <<state, rx, conn, idle, odd, err, rst>>

\* readData: a callback without a delegate queue is an assertion failure, so
\* the application sets the delegate first.
readData ==
    /\ conn.delegate
    /\ state # "FREED"
    /\ rx' = [rx EXCEPT !.canRead = TRUE]
    /\ UNCHANGED <<state, tx, conn, idle, odd, err, rst>>

close ==
    /\ conn.open
    /\ state # "FREED"
    /\ \E ok \in Alloc, all \in Pace : Become(tcp_close(Now, ok, all))
    /\ UNCHANGED odd

closeAfterWriting ==
    /\ conn.open
    /\ conn' = [conn EXCEPT !.close_after_writing = TRUE]
    /\ UNCHANGED <<state, rx, tx, idle, odd, err, rst>>

\* initWithTunnel: a SYN has made the pcb and the SYN-ACK is on its way.
Init ==
    /\ state = "SYN_RCVD"
    /\ rx = [nxt |-> 0, wnd |-> WND, refused |-> 0, fin |-> FALSE,
             canRead |-> FALSE, read |-> 0, eof |-> 0]
    /\ \E w \in 0..MaxPeerWnd :
          tx = [una |-> 0, nxt |-> 1, lbb |-> 1, unsent |-> {}, unacked |-> {0},
                wnd |-> w, persist |-> FALSE, buf |-> SND_BUF, fin |-> FALSE,
                infr |-> FALSE, nrtx |-> 0, acked |-> 0]
    /\ conn = [open |-> FALSE, delegate |-> FALSE, close_after_writing |-> FALSE,
               rxclosed |-> FALSE, closepend |-> FALSE, timer |-> TRUE]
    /\ idle = 0
    /\ odd = FALSE
    /\ err = "none"
    /\ rst = FALSE

Next ==
    \/ Input
    \/ Tick
    \/ TimerEnds
    \/ syncSetDelegate
    \/ asyncSetDelegate
    \/ \E n \in 1..MaxWritten : write(n)
    \/ readData
    \/ close
    \/ closeAfterWriting

Spec == Init /\ [][Next]_vars

\* The dispatch timer fires until it is cancelled; only Tick changes odd.
Ticking == conn.timer /\ state # "FREED" /\ odd' = ~odd

\* The retransmission timer expires: rtime reaches rto if a segment stays
\* unacknowledged for long enough.
Retransmission ==
    ~odd /\ tx.unacked # {} /\ ~tx.persist /\ TickWith(TRUE)

Fairness == WF_odd(Ticking) /\ WF_conn(TimerEnds) /\ SF_odd(Retransmission)

FairSpec == Spec /\ Fairness

-----------------------------------------------------------------------------
(* Receive half.                                                           *)

\* Bytes of the peer's stream that were accepted.
Accepted(r) == Min2(r.nxt, StreamLen)

\* While the pcb is in use, rcv_wnd falls short of TCP_WND by exactly what is
\* kept as refused_data, the FIN it carries included: every tcp_recved and every
\* "rcv_wnd++" gives back what an earlier tcp_receive took, so the window the
\* peer sees neither leaks shut nor grows past the buffer.
WindowAccounting ==
    state \in Live =>
        rx.wnd + rx.refused + (IF rx.fin THEN 1 ELSE 0) = WND

\* While the pcb is in use, every byte of the stream that was acknowledged was
\* passed to the delegate once or is refused_data.
NothingLost ==
    state \in Live => rx.read + rx.refused = Accepted(rx)

\* connectionDidCloseReadStream: is called at most once, and not before the
\* whole stream was passed to didReadData:.
EofAfterAllData ==
    rx.eof > 0 => /\ rx.eof = 1
                  /\ rx.nxt = StreamLen + 1
                  /\ rx.read = StreamLen

-----------------------------------------------------------------------------
(* Send half.                                                              *)

Outstanding(t) == t.unsent \cup t.unacked
DataIn(t, S) == Cardinality({s \in S : IsData(t, s)})
Written == tx.lbb - (IF tx.fin THEN 2 ELSE 1)

\* The two queues hold every number from lastack to snd_lbb once, nothing that
\* was never sent awaits an acknowledgement, and snd_buf and the bytes reported
\* by didWriteData: agree with the queues, whatever was retransmitted, probed or
\* acknowledged while requeued.
SendAccounting ==
    state \in Live =>
        /\ tx.unsent \cap tx.unacked = {}
        /\ Outstanding(tx) = tx.una..(tx.lbb - 1)
        /\ \A s \in tx.unacked : s < tx.nxt
        /\ tx.nxt <= tx.lbb
        /\ tx.buf + DataIn(tx, Outstanding(tx)) = SND_BUF
        /\ tx.acked = DataIn(tx, 0..(tx.una - 1))

-----------------------------------------------------------------------------
(* Ends of the connection.                                                 *)

\* If the pcb goes away and the application did not close, it was told why, and
\* it was not told ERR_CLSD (tcp_input reports that when only the sending side
\* was shut down, which no caller does).
EndReported ==
    /\ state = "FREED" /\ ~conn.rxclosed => err \in {"ERR_RST", "ERR_ABRT", "unset"}
    /\ err # "ERR_CLSD"

\* The other way round: a connection that ends without a word to the delegate
\* and without a RST has had everything that was written acknowledged, and the
\* FIN behind it.
SilentEndIsGraceful ==
    state = "FREED" /\ err = "none" /\ ~rst =>
        tx.una = tx.lbb /\ tx.fin /\ tx.acked = Written

\* The ends a delegate hears of, and those it does not: see the two parts.
EndsKnown == EndReported /\ SilentEndIsGraceful

\* tcp_close sends a RST, of which the delegate hears nothing, only if the
\* application has not got all the data that was accepted.
CloseResetsOnlyUnread ==
    [][~conn.rxclosed /\ conn'.rxclosed /\ rst' # rst /\ err' = err =>
        rx.read < Accepted(rx)]_vars

\* After close nothing is passed to didReadData: any more.
NothingReadAfterClose ==
    [][conn.rxclosed => rx'.read = rx.read]_vars

\* didReadData: comes once for each readData, with all that is there.
ReadOnDemand ==
    [][rx'.read # rx.read => rx.canRead /\ ~rx'.canRead]_vars

\* The timer closes for closeAfterWriting when all that was written is
\* acknowledged, and not before.
ClosedAfterWriting ==
    [][~conn.rxclosed /\ conn'.rxclosed /\ odd' # odd =>
        /\ conn.close_after_writing
        /\ tx.acked = Written]_vars

\* What the application asked for by readData, close and closeAfterWriting is what
\* it gets: see the four parts.
RequestsRespected ==
    CloseResetsOnlyUnread /\ NothingReadAfterClose /\ ReadOnDemand /\ ClosedAfterWriting

-----------------------------------------------------------------------------
(* The service the application sees.                                       *)

Service == INSTANCE ZPTCPService WITH
    phase <- IF state = "FREED" THEN "ended"
             ELSE IF conn.rxclosed \/ conn.close_after_writing THEN "closing"
             ELSE IF conn.open THEN "open" ELSE "opening",
    asked <- rx.canRead,
    read <- rx.read,
    eof <- rx.eof > 0,
    written <- Written,
    acked <- tx.acked,
    told <- err # "none",
    reset <- rst

\* The connection implements the service: what the segments, the timer and the
\* calls do to the pcb never shows the delegate anything else.
ImplementsService == Service!SSpec

-----------------------------------------------------------------------------
(* Progress.                                                               *)

\* A FIN in TIME_WAIT starts the wait again.
Restarted == state = "TIME_WAIT" /\ idle' = 0 /\ idle > 0

\* What the peer has to do for its part: it does not keep its window at zero and
\* it does not repeat its FIN for ever.
PeerCooperates == <>[]~tx.persist /\ <>[][~Restarted]_vars

\* After close the pcb is freed and the tunnel forgets the connection, whether
\* or not the peer answers.
ClosedIsForgotten == PeerCooperates => (conn.rxclosed ~> ~conn.timer)

\* A handshake that is not completed ends.
HandshakeEnds == state = "SYN_RCVD" ~> state # "SYN_RCVD"

\* Data that was refused is passed on once the application asks for it, unless
\* closeAfterWriting comes between.
RefusedIsRead ==
    rx.refused > 0 /\ rx.canRead ~> rx.refused = 0 \/ conn.close_after_writing

\* What is written is acknowledged, or the connection ends.
WrittenIsAcked ==
    <>[]~tx.persist =>
        (Outstanding(tx) # {} ~> Outstanding(tx) = {})

\* closeAfterWriting closes.
CloseAfterWritingCloses ==
    <>[]~tx.persist =>
        (conn.close_after_writing ~> (conn.rxclosed \/ state = "FREED"))

\* A peer that keeps its window open does not make what was written, or the close
\* behind it, wait for ever.
WritingEnds == WrittenIsAcked /\ CloseAfterWritingCloses
=============================================================================
