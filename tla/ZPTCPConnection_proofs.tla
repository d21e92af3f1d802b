----------------------- MODULE ZPTCPConnection_proofs -----------------------
(***************************************************************************)
(* Proofs about ZPTCPConnection: its type invariant, the accounting of the *)
(* receive half, the accounts of the two queues of the send half, what the *)
(* delegate may conclude from being told of an end or not, what is done at *)
(* its request, and that it implements ZPTCPService, for every window,     *)
(* stream, buffer and timeout.                                             *)
(*                                                                         *)
(* A handler of the model is a function on the record Now, so the proof    *)
(* that Next preserves the invariant is one lemma per function: if its     *)
(* argument satisfies POK, so does its result.  For the send half another  *)
(* lemma per function says that what satisfies POK and Sound is mapped to  *)
(* what satisfies Sound.                                                   *)
(*                                                                         *)
(* Requests are about steps: data comes once for each readData and never   *)
(* after close, closeAfterWriting closes when all is acknowledged, and     *)
(* close resets only what was not read.  Step relates the states before    *)
(* and after a function of the model; it is transitive, so a handler keeps *)
(* it if the functions it calls do.  For the refinement Shows relates them *)
(* by what the application sees, and is transitive too.                    *)
(***************************************************************************)
EXTENDS ZPTCPConnection, FiniteSetTheorems, WellFoundedInduction, TLAPS

-----------------------------------------------------------------------------
(* The inductive invariant.                                                *)

\* What holds of the receive half in every state: the end of the stream is
\* kept with refused data, or was reported after all the data.
RxOK(r) ==
    /\ r \in RxType
    /\ r.read + r.refused <= StreamLen
    /\ r.fin => /\ r.refused > 0
                /\ r.nxt = StreamLen + 1
                /\ r.read + r.refused = StreamLen
    /\ r.eof > 0 => r.eof = 1 /\ r.nxt = StreamLen + 1 /\ r.read = StreamLen

\* What holds of it while the pcb is in use.
RxFull(r) == r.read + r.refused = Accepted(r)
RxWindow(r) == r.wnd + r.refused + (IF r.fin THEN 1 ELSE 0) = WND

\* What holds of the send half.
TxOK(t) ==
    /\ t \in TxType
    /\ t.una <= t.lbb
    /\ t.nxt <= t.lbb
    /\ t.unsent \cup t.unacked \subseteq t.una..(t.lbb - 1)
    /\ ~t.fin => t.lbb <= MaxWritten + 1

\* Handlers pass through states in which the pcb is marked with TF_CLOSED.
PType == [state : States \cup {"CLOSED"}, rx : RxType, tx : TxType,
          conn : ConnType, idle : 0..IdleMax, err : Errs, rst : BOOLEAN]

Closing == {"FIN_WAIT_1", "FIN_WAIT_2", "CLOSING", "LAST_ACK"}

\* What holds within a handler too.
Base(p) ==
    /\ p \in PType
    /\ RxOK(p.rx)
    /\ TxOK(p.tx)
    /\ p.conn.closepend => p.conn.rxclosed

\* What holds between the handlers.
POK(p) ==
    /\ Base(p)
    /\ p.state \in States
    /\ p.state \in Live => RxFull(p.rx)
    /\ p.state \in Live /\ Garbage = {} => RxWindow(p.rx)
    /\ p.state \notin Live => p.rx.refused = 0
    /\ p.state \in Receiving \cup {"SYN_RCVD"} => p.rx.nxt <= StreamLen
    /\ p.state \in Writable => ~p.tx.fin
    /\ p.state \in Closing => p.conn.rxclosed

IInv == POK(Now) /\ odd \in BOOLEAN

-----------------------------------------------------------------------------
(* Receive half.                                                           *)

\* Calling tcp_recved leaves a window within its bounds, and without garbage it
\* adds what is read.
LEMMA RecvedType ==
    ASSUME NEW wnd \in 0..WND, NEW l \in 0..WND
    PROVE  /\ tcp_recved(wnd, l) \in 0..WND
           /\ wnd + l <= WND => tcp_recved(wnd, l) = wnd + l
  BY ConstantsAssumption DEF tcp_recved

\* The length zp_tcp_recv credits lies in the window, and is the right one if
\* the freed pbuf keeps its contents.
LEMMA FreedLenType ==
    ASSUME NEW n \in 0..WND, NEW g \in FreedReads
    PROVE  /\ FreedLen(n, g) \in 0..WND
           /\ Garbage = {} => FreedLen(n, g) = n
  BY ConstantsAssumption DEF FreedLen, FreedReads

\* tcp_input gives the FIN's number back without passing TCP_WND.
LEMMA FinCreditType ==
    ASSUME NEW wnd \in 0..WND
    PROVE  /\ FinCredit(wnd) \in 0..WND
           /\ wnd < WND => FinCredit(wnd) = wnd + 1
  BY ConstantsAssumption DEF FinCredit

\* The end of the stream is reported at most once by one callback.
LEMMA EofReportType ==
    ASSUME NEW c \in ConnType
    PROVE  EofReport(c) \in {0, 1}
  BY DEF EofReport

\* Offering the refused data again keeps the accounts.
LEMMA ProcessRefusedOK ==
    ASSUME NEW r, RxOK(r), NEW c \in ConnType, NEW g \in FreedReads
    PROVE  LET s == tcp_process_refused_data(r, c, g)
           IN /\ RxOK(s)
              /\ s.nxt = r.nxt
              /\ RxFull(r) => RxFull(s)
              /\ RxWindow(r) /\ Garbage = {} => RxWindow(s)
              /\ r.refused = 0 => s.refused = 0
<1> DEFINE s == tcp_process_refused_data(r, c, g)
           l == FreedLen(r.refused, g)
           wnd == tcp_recved(r.wnd, l)
           credit == FinCredit(wnd)
           eof == EofReport(c)
<1>1. CASE r.refused = 0 \/ ~Takes(r, c)
  BY <1>1 DEF tcp_process_refused_data
<1>2. CASE ~(r.refused = 0 \/ ~Takes(r, c))
  <2>0. r \in RxType
    BY DEF RxOK
  <2>1. /\ r.refused \in 0..WND /\ r.refused > 0
        /\ r.wnd \in 0..WND /\ r.read \in 0..StreamLen /\ r.fin \in BOOLEAN
        /\ r.eof \in Nat /\ r.nxt \in 0..(StreamLen + 1)
    BY <1>2, <2>0, ConstantsAssumption DEF RxType
  <2>2. /\ l \in 0..WND
        /\ Garbage = {} => l = r.refused
    BY <2>1, FreedLenType
  <2>3. /\ wnd \in 0..WND
        /\ r.wnd + l <= WND => wnd = r.wnd + l
    BY <2>1, <2>2, RecvedType
  <2>4. /\ credit \in 0..WND
        /\ wnd < WND => credit = wnd + 1
    BY <2>3, FinCreditType
  <2>5. eof \in {0, 1}
    BY EofReportType
  <2> HIDE DEF l, wnd, credit, eof
  <2>6. s = [r EXCEPT !.canRead = FALSE, !.read = r.read + r.refused,
                      !.refused = 0, !.fin = FALSE,
                      !.wnd = IF r.fin THEN credit ELSE wnd,
                      !.eof = IF r.fin THEN r.eof + eof ELSE r.eof]
    BY <1>2, <2>0 DEF tcp_process_refused_data, l, wnd, credit, eof, RxType
  <2> HIDE DEF s
  <2>7. /\ s.nxt = r.nxt /\ s.refused = 0 /\ s.fin = FALSE
        /\ s.canRead = FALSE /\ s.read = r.read + r.refused
        /\ s.wnd = (IF r.fin THEN credit ELSE wnd)
        /\ s.eof = (IF r.fin THEN r.eof + eof ELSE r.eof)
    BY <2>0, <2>6 DEF RxType
  <2>8. s \in RxType
    <3>1. /\ r.read + r.refused \in 0..StreamLen
          /\ (IF r.fin THEN credit ELSE wnd) \in 0..WND
          /\ (IF r.fin THEN r.eof + eof ELSE r.eof) \in Nat
          /\ 0 \in 0..WND
      BY <2>1, <2>3, <2>4, <2>5, ConstantsAssumption DEF RxOK
    <3> QED
      BY <2>0, <2>6, <3>1 DEF RxType
  <2>9. RxOK(s)
    BY <2>1, <2>5, <2>7, <2>8, ConstantsAssumption DEF RxOK
  <2>10. RxFull(r) => RxFull(s)
    BY <2>1, <2>7 DEF RxFull, Accepted
  <2>11. RxWindow(r) /\ Garbage = {} => RxWindow(s)
    BY <2>1, <2>2, <2>3, <2>4, <2>7, ConstantsAssumption DEF RxWindow
  <2> QED
    BY <2>7, <2>9, <2>10, <2>11 DEF s
<1> QED
  BY <1>1, <1>2


\* Accepting k bytes and a FIN in sequence, within the window and with no data
\* refused, keeps the accounts.
LEMMA AcceptOK ==
    ASSUME NEW r, RxOK(r), RxFull(r), NEW c \in ConnType, NEW g \in FreedReads,
           NEW k \in Nat, NEW f \in BOOLEAN,
           k <= r.wnd,
           f => k < r.wnd,
           k > 0 => r.nxt + k <= StreamLen,
           f => r.nxt + k = StreamLen,
           k > 0 \/ f => r.refused = 0
    PROVE  LET s == AcceptInSequence(r, c, k, f, g)
           IN /\ RxOK(s)
              /\ RxFull(s)
              /\ RxWindow(r) /\ Garbage = {} => RxWindow(s)
              /\ f \/ s.nxt = r.nxt \/ s.nxt <= StreamLen
              /\ k = 0 /\ r.refused = 0 => s.refused = 0
<1> DEFINE s == AcceptInSequence(r, c, k, f, g)
           end == IF f THEN 1 ELSE 0
           taken == k > 0 /\ Takes(r, c)
           kept == k > 0 /\ ~taken
           low == r.wnd - k - end
           wnd == IF taken THEN tcp_recved(low, FreedLen(k, g)) ELSE low
           credit == FinCredit(wnd)
           eof == EofReport(c)
           now == ReportFin(f, kept)
<1>1. CASE k + end = 0
  <2>1. k = 0 /\ ~f
    BY <1>1
  <2>2. s = r
    BY <1>1 DEF AcceptInSequence
  <2> QED
    BY <2>2
<1>2. CASE k + end # 0
  <2>0. /\ r \in RxType
        /\ r.refused = 0 /\ ~r.fin /\ r.eof = 0
        /\ r.wnd \in 0..WND /\ r.read \in 0..StreamLen
        /\ r.nxt \in 0..(StreamLen + 1) /\ r.nxt <= StreamLen
        /\ r.read = r.nxt
    <3>1. k > 0 \/ f
      BY <1>2
    <3>2. r.refused = 0 /\ r.nxt <= StreamLen
      <4>1. r \in RxType
        BY DEF RxOK
      <4>2. r.nxt \in Nat /\ StreamLen \in Nat
        BY <4>1, ConstantsAssumption DEF RxType
      <4> QED
        BY <3>1, <4>2
    <3>3. r \in RxType
      BY DEF RxOK
    <3> QED
      BY <3>2, <3>3, ConstantsAssumption DEF RxOK, RxFull, Accepted, Min2, RxType
  <2>1. end \in {0, 1} /\ (end = 1 <=> f) /\ low \in 0..WND
    BY <2>0, ConstantsAssumption
  <2>2. k \in 0..WND
    BY <2>0, ConstantsAssumption
  <2>3. /\ taken \in BOOLEAN /\ kept \in BOOLEAN
        /\ now \in BOOLEAN /\ (now <=> f /\ ~kept)
        /\ taken \/ kept <=> k > 0
        /\ ~(taken /\ kept)
    BY DEF ReportFin, Takes
  <2>4. /\ wnd \in 0..WND
        /\ Garbage = {} => wnd = (IF taken THEN low + k ELSE low)
    <3>1. /\ FreedLen(k, g) \in 0..WND
          /\ Garbage = {} => FreedLen(k, g) = k
      BY <2>2, FreedLenType
    <3>2. /\ tcp_recved(low, FreedLen(k, g)) \in 0..WND
          /\ low + FreedLen(k, g) <= WND
                => tcp_recved(low, FreedLen(k, g)) = low + FreedLen(k, g)
      BY <2>1, <3>1, RecvedType
    <3>3. low + k <= WND
      BY <2>0, <2>1, <2>2, ConstantsAssumption
    <3> HIDE DEF low, taken
    <3> QED
      BY <2>1, <3>1, <3>2, <3>3
  <2>5. /\ credit \in 0..WND
        /\ wnd < WND => credit = wnd + 1
    BY <2>4, FinCreditType
  <2>6. eof \in {0, 1}
    BY EofReportType
  <2>7. s = [r EXCEPT !.nxt = r.nxt + k + end,
                      !.canRead = r.canRead /\ ~taken,
                      !.read = IF taken THEN r.read + k ELSE r.read,
                      !.refused = IF kept THEN k ELSE 0,
                      !.fin = f /\ kept,
                      !.wnd = IF now THEN credit ELSE wnd,
                      !.eof = IF now THEN r.eof + eof ELSE r.eof]
    BY <1>2, <2>0 DEF AcceptInSequence, RxType
  <2> HIDE DEF s, end, taken, kept, wnd, credit, eof, now, low
  <2>8. /\ s.nxt = r.nxt + k + end
        /\ s.read = (IF taken THEN r.read + k ELSE r.read)
        /\ s.refused = (IF kept THEN k ELSE 0)
        /\ s.fin = (f /\ kept)
        /\ s.wnd = (IF now THEN credit ELSE wnd)
        /\ s.eof = (IF now THEN r.eof + eof ELSE r.eof)
    BY <2>0, <2>7 DEF RxType
  <2>9. s \in RxType
    <3>1. r.nxt + k + end \in 0..(StreamLen + 1)
      BY <2>0, <2>1, ConstantsAssumption
    <3>2. /\ (IF taken THEN r.read + k ELSE r.read) \in 0..StreamLen
          /\ (IF kept THEN k ELSE 0) \in 0..WND
          /\ (f /\ kept) \in BOOLEAN
          /\ (r.canRead /\ ~taken) \in BOOLEAN
      BY <2>0, <2>2, <2>3, ConstantsAssumption
    <3>3. /\ (IF now THEN credit ELSE wnd) \in 0..WND
          /\ (IF now THEN r.eof + eof ELSE r.eof) \in Nat
      BY <2>0, <2>4, <2>5, <2>6
    <3> QED
      BY <2>0, <2>7, <3>1, <3>2, <3>3, ZenonT(60) DEF RxType
  <2>10. s.read + s.refused = r.read + k
    BY <2>0, <2>3, <2>8
  <2>11. RxFull(s)
    BY <2>0, <2>1, <2>8, <2>10, ConstantsAssumption DEF RxFull, Accepted, Min2
  <2>12. RxOK(s)
    <3>1. s.read + s.refused <= StreamLen
      BY <2>0, <2>10, ConstantsAssumption
    <3>2. f => s.nxt = StreamLen + 1 /\ s.read + s.refused = StreamLen
      BY <2>0, <2>1, <2>8, <2>10, ConstantsAssumption
    <3>3. s.fin => s.refused > 0
      BY <2>3, <2>8
    <3>4. s.eof > 0 => f /\ s.eof = 1 /\ s.refused = 0
      BY <2>0, <2>3, <2>6, <2>8
    <3>5. s.read \in Nat
      BY <2>9 DEF RxType
    <3> QED
      BY <2>8, <2>9, <3>1, <3>2, <3>3, <3>4, <3>5 DEF RxOK
  <2>13. RxWindow(r) /\ Garbage = {} => RxWindow(s)
    <3> SUFFICES ASSUME RxWindow(r), Garbage = {}
                 PROVE  RxWindow(s)
      OBVIOUS
    <3>1. r.wnd = WND
      BY <2>0 DEF RxWindow
    <3>2. wnd = WND - end - (IF kept THEN k ELSE 0)
      BY <2>0, <2>1, <2>2, <2>3, <2>4, <3>1, ConstantsAssumption DEF low
    <3>3. now => credit = wnd + 1 /\ end = 1 /\ ~kept
      BY <2>1, <2>2, <2>3, <2>5, <3>2, ConstantsAssumption
    <3>4. CASE now
      BY <2>1, <2>2, <2>3, <2>8, <3>2, <3>3, <3>4, ConstantsAssumption DEF RxWindow
    <3>5. CASE ~now
      BY <2>1, <2>2, <2>3, <2>8, <3>2, <3>5, ConstantsAssumption DEF RxWindow
    <3> QED
      BY <3>4, <3>5
  <2>14. f \/ s.nxt <= StreamLen
    BY <2>0, <2>1, <2>8, ConstantsAssumption
  <2>15. k = 0 => s.refused = 0
    BY <2>3, <2>8
  <2> QED
    BY <2>11, <2>12, <2>13, <2>14, <2>15 DEF s
<1> QED
  BY <1>1, <1>2

\* Purging drops what is refused and leaves the rest.
LEMMA PurgeRxOK ==
    ASSUME NEW r, RxOK(r)
    PROVE  /\ RxOK(PurgeRx(r))
           /\ PurgeRx(r).refused = 0
           /\ PurgeRx(r).nxt = r.nxt
<1>1. r \in RxType
  BY DEF RxOK
<1>0. 0 \in 0..WND
  BY ConstantsAssumption
<1>2. /\ PurgeRx(r) \in RxType
      /\ PurgeRx(r).refused = 0 /\ PurgeRx(r).fin = FALSE
      /\ PurgeRx(r).nxt = r.nxt /\ PurgeRx(r).read = r.read
      /\ PurgeRx(r).eof = r.eof
  BY <1>0, <1>1 DEF PurgeRx, RxType
<1>3. r.read \in 0..StreamLen
  BY <1>1 DEF RxType
<1> QED
  BY <1>2, <1>3, ConstantsAssumption DEF RxOK

-----------------------------------------------------------------------------
(* Send half.                                                              *)

\* tcp_output moves segments between the queues and keeps both in their range.
LEMMA OutputOK ==
    ASSUME NEW t, TxOK(t), NEW all \in BOOLEAN
    PROVE  LET s == tcp_output(t, all)
           IN TxOK(s) /\ s.fin = t.fin /\ s.lbb = t.lbb /\ s.una = t.una
<1> DEFINE limit == OutputLimit(t, all)
           sent == {x \in t.unsent : x < limit}
           s == tcp_output(t, all)
<1>1. t \in TxType
  BY DEF TxOK
<1>2. /\ t.una \in 0..SeqMax /\ t.lbb \in 0..SeqMax /\ t.nxt \in 0..SeqMax
      /\ t.wnd \in 0..MaxPeerWnd
      /\ t.unsent \in SUBSET (0..SeqMax) /\ t.unacked \in SUBSET (0..SeqMax)
  BY <1>1 DEF TxType
<1>3. limit \in Nat /\ limit <= t.lbb
  BY <1>2, ConstantsAssumption DEF OutputLimit, Min2, SeqMax
<1>4. Max2(t.nxt, limit) \in 0..SeqMax /\ Max2(t.nxt, limit) <= t.lbb
  BY <1>2, <1>3, ConstantsAssumption DEF Max2, SeqMax, TxOK
<1> HIDE DEF limit
<1>5. s = [t EXCEPT !.unsent = t.unsent \ sent,
                    !.unacked = t.unacked \cup sent,
                    !.nxt = Max2(t.nxt, limit)]
  BY <1>1 DEF tcp_output, limit, TxType
<1>6. /\ t.unsent \ sent \in SUBSET (0..SeqMax)
      /\ t.unacked \cup sent \in SUBSET (0..SeqMax)
  BY <1>2
<1> HIDE DEF s, sent
<1>7. s \in TxType
  BY <1>1, <1>4, <1>5, <1>6 DEF TxType
<1>8. /\ s.fin = t.fin /\ s.lbb = t.lbb /\ s.una = t.una
      /\ s.nxt = Max2(t.nxt, limit)
      /\ s.unsent = t.unsent \ sent /\ s.unacked = t.unacked \cup sent
  BY <1>1, <1>5 DEF TxType
<1>9. s.unsent \cup s.unacked \subseteq t.unsent \cup t.unacked
  BY <1>8 DEF sent
<1> QED
  BY <1>4, <1>7, <1>8, <1>9 DEF TxOK, s

\* A nonempty set of numbers has a least element.
LEMMA LeastNumber ==
    ASSUME NEW S \in SUBSET Nat, S # {}
    PROVE  \E x \in S : \A y \in S : x <= y
<1> DEFINE R == OpToRel(<, Nat)
<1>1. IsWellFoundedOn(R, Nat)
  BY NatLessThanWellFounded
<1>2. \A x, y \in Nat : y < x => <<y, x>> \in R
  BY Zenon DEF OpToRel
<1> HIDE DEF R
<1>3. PICK x \in S : \A y \in S : ~(<<y, x>> \in R)
  BY <1>1, WFMin, Zenon
<1>4. \A y \in S : ~(y < x)
  BY <1>2, <1>3
<1> QED
  BY <1>3, <1>4

\* So does tcp_rexmit, which requeues the first segment.
LEMMA RexmitOK ==
    ASSUME NEW t, TxOK(t)
    PROVE  LET s == tcp_rexmit(t)
           IN TxOK(s) /\ s.fin = t.fin
<1>1. CASE t.unacked = {}
  BY <1>1 DEF tcp_rexmit
<1>2. CASE t.unacked # {}
  <2> DEFINE First(x) == x \in t.unacked /\ \A u \in t.unacked : x <= u
             first == CHOOSE x \in t.unacked : \A u \in t.unacked : x <= u
             s == tcp_rexmit(t)
  <2>1. t \in TxType
    BY DEF TxOK
  <2>2. /\ t.nrtx \in 0..MAXRTX
        /\ t.unsent \in SUBSET (0..SeqMax) /\ t.unacked \in SUBSET (0..SeqMax)
    BY <2>1 DEF TxType
  <2>3. \E x \in t.unacked : \A u \in t.unacked : x <= u
    BY <1>2, <2>2, LeastNumber
  <2>5. first \in t.unacked
    BY <2>3
  <2>6. Min2(t.nrtx + 1, MAXRTX) \in 0..MAXRTX
    BY <2>2, ConstantsAssumption DEF Min2
  <2>7. s = [t EXCEPT !.unacked = t.unacked \ {first},
                      !.unsent = t.unsent \cup {first},
                      !.nrtx = Min2(t.nrtx + 1, MAXRTX)]
    BY <1>2, <2>1 DEF tcp_rexmit, TxType
  <2> HIDE DEF s, first
  <2>8. s \in TxType
    <3>1. /\ t.unacked \ {first} \in SUBSET (0..SeqMax)
          /\ t.unsent \cup {first} \in SUBSET (0..SeqMax)
      BY <2>2, <2>5
    <3> QED
      BY <2>1, <2>6, <2>7, <3>1 DEF TxType
  <2>9. /\ s.fin = t.fin /\ s.lbb = t.lbb /\ s.una = t.una /\ s.nxt = t.nxt
        /\ s.unsent \cup s.unacked = t.unsent \cup t.unacked
    <3>1. /\ s.fin = t.fin /\ s.lbb = t.lbb /\ s.una = t.una /\ s.nxt = t.nxt
          /\ s.unsent = t.unsent \cup {first} /\ s.unacked = t.unacked \ {first}
      BY <2>1, <2>7 DEF TxType
    <3> QED
      BY <2>5, <3>1
  <2> QED
    BY <2>8, <2>9 DEF TxOK, s
<1> QED
  BY <1>1, <1>2

\* So does tcp_rexmit_fast, which may do nothing.
LEMMA RexmitFastOK ==
    ASSUME NEW t, TxOK(t)
    PROVE  LET s == tcp_rexmit_fast(t)
           IN TxOK(s) /\ s.fin = t.fin
<1> DEFINE u == tcp_rexmit(t)
<1>1. TxOK(u) /\ u.fin = t.fin
  BY RexmitOK
<1> HIDE DEF u
<1>2. [u EXCEPT !.infr = TRUE] \in TxType
  BY <1>1 DEF TxOK, TxType
<1>3. TxOK([u EXCEPT !.infr = TRUE]) /\ [u EXCEPT !.infr = TRUE].fin = t.fin
  BY <1>1, <1>2 DEF TxOK, TxType
<1> QED
  BY <1>3 DEF tcp_rexmit_fast, u

\* So does tcp_rexmit_rto, which requeues all and sends again.
LEMMA RexmitRtoOK ==
    ASSUME NEW t, TxOK(t), NEW all \in BOOLEAN
    PROVE  LET s == tcp_rexmit_rto(t, all)
           IN TxOK(s) /\ s.fin = t.fin
<1> DEFINE u == [t EXCEPT !.unsent = t.unsent \cup t.unacked,
                          !.unacked = {},
                          !.nrtx = Min2(t.nrtx + 1, MAXRTX)]
<1>1. t \in TxType
  BY DEF TxOK
<1>2. /\ t.nrtx \in 0..MAXRTX
      /\ t.unsent \in SUBSET (0..SeqMax) /\ t.unacked \in SUBSET (0..SeqMax)
  BY <1>1 DEF TxType
<1>3. Min2(t.nrtx + 1, MAXRTX) \in 0..MAXRTX
  BY <1>2, ConstantsAssumption DEF Min2
<1>4. u \in TxType
  BY <1>1, <1>2, <1>3 DEF TxType
<1>5. /\ u.fin = t.fin /\ u.lbb = t.lbb /\ u.una = t.una /\ u.nxt = t.nxt
      /\ u.unsent = t.unsent \cup t.unacked /\ u.unacked = {}
  BY <1>1 DEF TxType
<1>6. TxOK(u)
  <2>1. u.unsent \cup u.unacked = t.unsent \cup t.unacked
    BY <1>5
  <2> QED
    BY <1>4, <1>5, <2>1 DEF TxOK
<1> HIDE DEF u
<1>7. TxOK(tcp_output(u, all)) /\ tcp_output(u, all).fin = t.fin
  BY <1>5, <1>6, OutputOK
<1> QED
  BY <1>1, <1>7 DEF tcp_rexmit_rto, u, TxType

\* A window probe sends nothing beyond snd_lbb.
LEMMA ProbeOK ==
    ASSUME NEW t, TxOK(t)
    PROVE  LET s == tcp_zero_window_probe(t)
           IN TxOK(s) /\ s.fin = t.fin
<1>1. CASE t.unacked = {} /\ t.unsent = {}
  BY <1>1 DEF tcp_zero_window_probe
<1>2. CASE ~(t.unacked = {} /\ t.unsent = {})
  <2> DEFINE s == tcp_zero_window_probe(t)
  <2>1. t \in TxType
    BY DEF TxOK
  <2>2. t.una \in 0..SeqMax /\ t.lbb \in 0..SeqMax /\ t.nxt \in 0..SeqMax
    BY <2>1 DEF TxType
  <2>3. t.una..(t.lbb - 1) # {}
    BY <1>2 DEF TxOK
  <2>4. /\ Max2(t.nxt, t.una + 1) \in 0..SeqMax
        /\ Max2(t.nxt, t.una + 1) <= t.lbb
    BY <2>2, <2>3, ConstantsAssumption DEF Max2, SeqMax, TxOK
  <2>5. s = [t EXCEPT !.nxt = Max2(t.nxt, t.una + 1)]
    BY <1>2, <2>1 DEF tcp_zero_window_probe, TxType
  <2> HIDE DEF s
  <2>6. s \in TxType
    BY <2>1, <2>4, <2>5 DEF TxType
  <2>7. /\ s.fin = t.fin /\ s.lbb = t.lbb /\ s.una = t.una
        /\ s.unsent = t.unsent /\ s.unacked = t.unacked
        /\ s.nxt = Max2(t.nxt, t.una + 1)
    BY <2>1, <2>5 DEF TxType
  <2> QED
    BY <2>4, <2>6, <2>7 DEF TxOK, s
<1> QED
  BY <1>1, <1>2

\* tcp_send_fin queues one number more, which SeqMax leaves room for.
LEMMA SendFinOK ==
    ASSUME NEW t, TxOK(t), ~t.fin
    PROVE  TxOK(tcp_send_fin(t))
<1> DEFINE s == tcp_send_fin(t)
<1>1. t \in TxType
  BY DEF TxOK
<1>2. /\ t.una \in 0..SeqMax /\ t.lbb \in 0..SeqMax /\ t.nxt \in 0..SeqMax
      /\ t.unsent \in SUBSET (0..SeqMax) /\ t.unacked \in SUBSET (0..SeqMax)
  BY <1>1 DEF TxType
<1>3. t.lbb + 1 \in 0..SeqMax
  BY <1>2, ConstantsAssumption DEF TxOK, SeqMax
<1>4. s \in TxType
  <2>1. t.unsent \cup {t.lbb} \in SUBSET (0..SeqMax)
    BY <1>2
  <2> QED
    BY <1>1, <1>3, <2>1 DEF tcp_send_fin, TxType
<1>5. /\ s.fin = TRUE /\ s.lbb = t.lbb + 1 /\ s.una = t.una /\ s.nxt = t.nxt
      /\ s.unsent = t.unsent \cup {t.lbb} /\ s.unacked = t.unacked
  BY <1>1 DEF tcp_send_fin, TxType
<1> HIDE DEF s
<1>6. s.una <= s.lbb /\ s.nxt <= s.lbb
  BY <1>2, <1>5, ConstantsAssumption DEF TxOK, SeqMax
<1>7. s.unsent \cup s.unacked \subseteq s.una..(s.lbb - 1)
  <2>1. t.una..(t.lbb - 1) \subseteq t.una..t.lbb
    BY <1>2
  <2>2. t.lbb \in t.una..t.lbb
    BY <1>2 DEF TxOK
  <2>3. s.una..(s.lbb - 1) = t.una..t.lbb
    BY <1>2, <1>5
  <2>4. s.unsent \cup s.unacked = (t.unsent \cup t.unacked) \cup {t.lbb}
    BY <1>5
  <2> QED
    BY <2>1, <2>2, <2>3, <2>4 DEF TxOK
<1> QED
  BY <1>4, <1>5, <1>6, <1>7 DEF TxOK, s

\* tcp_pcb_purge empties the queues and leaves the numbers.
LEMMA PurgeTxOK ==
    ASSUME NEW t, TxOK(t)
    PROVE  TxOK(PurgeTx(t)) /\ PurgeTx(t).fin = t.fin
<1>1. t \in TxType
  BY DEF TxOK
<1>2. PurgeTx(t) \in TxType
  BY <1>1 DEF PurgeTx, TxType
<1>3. /\ PurgeTx(t).fin = t.fin /\ PurgeTx(t).lbb = t.lbb
      /\ PurgeTx(t).una = t.una /\ PurgeTx(t).nxt = t.nxt
      /\ PurgeTx(t).unsent = {} /\ PurgeTx(t).unacked = {}
  BY <1>1 DEF PurgeTx, TxType
<1> QED
  BY <1>2, <1>3 DEF TxOK

\* An acknowledgement up to snd_nxt keeps the queues above lastack.
LEMMA AckOK ==
    ASSUME NEW t, TxOK(t), NEW ackno \in 0..t.nxt, NEW w \in OldWnd..MaxPeerWnd,
           NEW dup \in BOOLEAN
    PROVE  LET s == AckReceived(t, ackno, w, dup)
           IN TxOK(s) /\ s.fin = t.fin
<1> DEFINE u == WindowUpdate(t, w)
           below == Below(t, ackno)
           data == {x \in below : IsData(t, x)}
           bytes == Cardinality(data)
           s == AckReceived(t, ackno, w, dup)
<1>1. t \in TxType
  BY DEF TxOK
<1>2. /\ t.una \in 0..SeqMax /\ t.lbb \in 0..SeqMax /\ t.nxt \in 0..SeqMax
      /\ t.unsent \in SUBSET (0..SeqMax) /\ t.unacked \in SUBSET (0..SeqMax)
      /\ t.buf \in Int /\ t.acked \in Int
  BY <1>1 DEF TxType
<1>3. TxOK(u) /\ u.fin = t.fin
  <2>1. CASE w = OldWnd
    BY <2>1 DEF WindowUpdate
  <2>2. CASE w # OldWnd
    <3>1. w \in 0..MaxPeerWnd
      BY <2>2, ConstantsAssumption DEF OldWnd
    <3>2. u \in TxType
      BY <1>1, <2>2, <3>1 DEF WindowUpdate, TxType
    <3>3. /\ u.fin = t.fin /\ u.lbb = t.lbb /\ u.una = t.una /\ u.nxt = t.nxt
          /\ u.unsent = t.unsent /\ u.unacked = t.unacked
      BY <1>1, <2>2 DEF WindowUpdate, TxType
    <3> QED
      BY <3>2, <3>3 DEF TxOK
  <2> QED
    BY <2>1, <2>2
<1>4. CASE ackno > t.una
  <2>1. bytes \in Nat
    <3>1. IsFiniteSet(0..SeqMax)
      BY FS_Interval, ConstantsAssumption DEF SeqMax
    <3>2. data \in SUBSET (0..SeqMax)
      BY <1>2 DEF Below
    <3>3. IsFiniteSet(data)
      BY <3>1, <3>2, FS_Subset
    <3> QED
      BY <3>3, FS_CardinalityType
  <2>2. ackno \in 0..SeqMax /\ ackno <= t.lbb
    BY <1>2, ConstantsAssumption DEF TxOK, SeqMax
  <2>3. /\ u \in TxType /\ u.buf \in Int /\ u.acked \in Int
        /\ u.unsent = t.unsent /\ u.unacked = t.unacked
        /\ u.lbb = t.lbb /\ u.nxt = t.nxt
    BY <1>1, <1>3 DEF TxOK, WindowUpdate, TxType
  <2>4. u.buf + bytes \in Int /\ u.acked + bytes \in Int
    BY <2>1, <2>3
  <2>5. s = [u EXCEPT !.una = ackno,
                      !.unacked = u.unacked \ below,
                      !.unsent = u.unsent \ below,
                      !.nrtx = 0,
                      !.infr = FALSE,
                      !.buf = u.buf + bytes,
                      !.acked = u.acked + bytes]
    BY <1>4, <2>3 DEF AckReceived, TxType
  <2> HIDE DEF s, u, bytes, below
  <2>6. s \in TxType
    <3>1. /\ u.unacked \ below \in SUBSET (0..SeqMax)
          /\ u.unsent \ below \in SUBSET (0..SeqMax)
      BY <1>2, <2>3
    <3>2. 0 \in 0..MAXRTX
      BY ConstantsAssumption
    <3> QED
      BY <2>2, <2>3, <2>4, <2>5, <3>1, <3>2 DEF TxType
  <2>7. /\ s.fin = u.fin /\ s.lbb = t.lbb /\ s.una = ackno /\ s.nxt = t.nxt
        /\ s.unsent = t.unsent \ below /\ s.unacked = t.unacked \ below
    BY <2>3, <2>5 DEF TxType
  <2>8. s.unsent \cup s.unacked \subseteq ackno..(t.lbb - 1)
    BY <1>2, <2>2, <2>7 DEF TxOK, below, Below
  <2> QED
    BY <1>3, <2>2, <2>6, <2>7, <2>8 DEF TxOK, s
<1>5. CASE ~(ackno > t.una)
  <2>1. TxOK(tcp_rexmit_fast(u)) /\ tcp_rexmit_fast(u).fin = t.fin
    BY <1>3, RexmitFastOK
  <2> QED
    BY <1>3, <1>5, <2>1 DEF AckReceived
<1> QED
  BY <1>4, <1>5

-----------------------------------------------------------------------------
(* Functions on the state of the connection.                               *)

\* Replacing the send half.
LEMMA SetTx ==
    ASSUME NEW p, POK(p), NEW t, TxOK(t), t.fin = p.tx.fin
    PROVE  POK([p EXCEPT !.tx = t])
<1> DEFINE q == [p EXCEPT !.tx = t]
<1>1. p \in PType
  BY DEF POK, Base
<1>2. /\ q \in PType /\ q.state = p.state /\ q.rx = p.rx /\ q.tx = t
      /\ q.conn = p.conn
  BY <1>1 DEF PType, TxOK
<1> HIDE DEF q
<1>3. POK(q)
  BY <1>2 DEF POK, Base
<1> QED
  BY <1>3 DEF q

\* tcp_output as a step of a handler.
LEMMA OutputPOK ==
    ASSUME NEW p, POK(p), NEW all \in BOOLEAN
    PROVE  POK(Output(p, all))
<1>1. TxOK(tcp_output(p.tx, all)) /\ tcp_output(p.tx, all).fin = p.tx.fin
  BY OutputOK DEF POK, Base
<1>2. POK([p EXCEPT !.tx = tcp_output(p.tx, all)])
  BY <1>1, SetTx
<1> QED
  BY <1>2 DEF Output, POK, Base, PType

\* Offering refused data again.
LEMMA RefusedPOK ==
    ASSUME NEW p, POK(p), NEW g \in FreedReads
    PROVE  LET r == tcp_process_refused_data(p.rx, p.conn, g)
               q == [p EXCEPT !.rx = r]
           IN POK(q) /\ r.nxt = p.rx.nxt
<1> DEFINE r == tcp_process_refused_data(p.rx, p.conn, g)
           q == [p EXCEPT !.rx = r]
<1>1. p \in PType /\ p.conn \in ConnType /\ RxOK(p.rx)
  BY DEF POK, Base, PType
<1>2. /\ RxOK(r)
      /\ r.nxt = p.rx.nxt
      /\ RxFull(p.rx) => RxFull(r)
      /\ RxWindow(p.rx) /\ Garbage = {} => RxWindow(r)
      /\ p.rx.refused = 0 => r.refused = 0
  BY <1>1, ProcessRefusedOK
<1> HIDE DEF r
<1>3. /\ q \in PType /\ q.state = p.state /\ q.rx = r /\ q.tx = p.tx
      /\ q.conn = p.conn
  BY <1>1, <1>2 DEF PType, RxOK
<1> HIDE DEF q
<1>4. POK(q)
  BY <1>2, <1>3 DEF POK, Base
<1> QED
  BY <1>2, <1>4 DEF q, r

\* Purging and freeing the pcb.
LEMMA PurgeBase ==
    ASSUME NEW p, Base(p)
    PROVE  /\ Base(Purge(p))
           /\ Purge(p).state = p.state /\ Purge(p).conn = p.conn
           /\ Purge(p).rx = PurgeRx(p.rx) /\ Purge(p).tx = PurgeTx(p.tx)
<1>1. p \in PType
  BY DEF Base
<1>2. RxOK(PurgeRx(p.rx)) /\ TxOK(PurgeTx(p.tx))
  BY PurgeRxOK, PurgeTxOK DEF Base
<1>3. /\ Purge(p) \in PType
      /\ Purge(p).state = p.state /\ Purge(p).conn = p.conn
      /\ Purge(p).rx = PurgeRx(p.rx) /\ Purge(p).tx = PurgeTx(p.tx)
  BY <1>1, <1>2 DEF Purge, PType, RxOK, TxOK
<1> QED
  BY <1>2, <1>3 DEF Base

\* A pcb can be freed in the middle of a handler.
LEMMA FreePcbPOK ==
    ASSUME NEW p, Base(p)
    PROVE  POK(FreePcb(p)) /\ FreePcb(p).conn = p.conn
<1> DEFINE q == Purge(p)
           s == [q EXCEPT !.state = "FREED"]
<1>1. Base(q) /\ q.rx = PurgeRx(p.rx) /\ q.conn = p.conn
  BY PurgeBase
<1>2. PurgeRx(p.rx).refused = 0
  BY PurgeRxOK DEF Base
<1> HIDE DEF q
<1>3. /\ s \in PType /\ s.state = "FREED"
      /\ s.rx = q.rx /\ s.tx = q.tx /\ s.conn = q.conn
  BY <1>1 DEF Base, PType, States
<1> HIDE DEF s
<1>4. POK(s) /\ s.conn = p.conn
  BY <1>1, <1>2, <1>3 DEF POK, Base, States, Live, Receiving, Writable, Closing
<1> QED
  BY <1>4 DEF s, q, FreePcb

\* zp_tcp_err changes only what the delegate was told.
LEMMA ReportBase ==
    ASSUME NEW p, Base(p), NEW e \in Errs
    PROVE  /\ Base(Report(p, e))
           /\ Report(p, e).state = p.state /\ Report(p, e).rx = p.rx
           /\ Report(p, e).tx = p.tx /\ Report(p, e).conn = p.conn
<1>1. p \in PType
  BY DEF Base
<1>2. (IF p.conn.delegate THEN e ELSE "unset") \in Errs
  BY DEF Errs
<1>3. /\ Report(p, e) \in PType
      /\ Report(p, e).state = p.state /\ Report(p, e).rx = p.rx
      /\ Report(p, e).tx = p.tx /\ Report(p, e).conn = p.conn
  BY <1>1, <1>2 DEF Report, PType
<1> QED
  BY <1>3 DEF Base

\* ... and so keeps the invariant.
LEMMA ReportPOK ==
    ASSUME NEW p, POK(p), NEW e \in Errs
    PROVE  POK(Report(p, e))
BY ReportBase DEF POK

\* Flags that the invariant does not mention.
LEMMA SetRst ==
    ASSUME NEW p, POK(p), NEW b \in BOOLEAN
    PROVE  POK([p EXCEPT !.rst = b])
<1> DEFINE q == [p EXCEPT !.rst = b]
<1>1. p \in PType
  BY DEF POK, Base
<1>2. /\ q \in PType /\ q.state = p.state /\ q.rx = p.rx /\ q.tx = p.tx
      /\ q.conn = p.conn
  BY <1>1 DEF PType
<1> HIDE DEF q
<1>3. POK(q)
  BY <1>2 DEF POK, Base
<1> QED
  BY <1>3 DEF q

\* pcb->tmr and tcp_ticks do not matter to the invariant.
LEMMA SetIdle ==
    ASSUME NEW p, POK(p), NEW i \in 0..IdleMax
    PROVE  POK([p EXCEPT !.idle = i])
<1> DEFINE q == [p EXCEPT !.idle = i]
<1>1. p \in PType
  BY DEF POK, Base
<1>2. /\ q \in PType /\ q.state = p.state /\ q.rx = p.rx /\ q.tx = p.tx
      /\ q.conn = p.conn
  BY <1>1 DEF PType
<1> HIDE DEF q
<1>3. POK(q)
  BY <1>2 DEF POK, Base
<1> QED
  BY <1>3 DEF q

\* tcp_abort leaves a freed pcb, from whatever point of a handler.
LEMMA AbortPOK ==
    ASSUME NEW p, Base(p)
    PROVE  POK(tcp_abort(p))
<1>1. POK(FreePcb(p))
  BY FreePcbPOK
<1>2. POK([FreePcb(p) EXCEPT !.rst = TRUE])
  BY <1>1, SetRst
<1>3. POK(Report([FreePcb(p) EXCEPT !.rst = TRUE], "ERR_ABRT"))
  BY <1>2, ReportPOK DEF Errs
<1> QED
  BY <1>1, <1>3 DEF tcp_abort

\* tcp_close_shutdown_fin queues the FIN once, or leaves it to the timer.
LEMMA ShutdownFinPOK ==
    ASSUME NEW p, POK(p), p.conn.rxclosed, NEW ok \in BOOLEAN, NEW all \in BOOLEAN
    PROVE  POK(tcp_close_shutdown_fin(p, ok, all))
<1> DEFINE t == tcp_output(tcp_send_fin(p.tx), all)
           st == IF p.state = "CLOSE_WAIT" THEN "LAST_ACK" ELSE "FIN_WAIT_1"
           q == [p EXCEPT !.tx = t, !.state = st]
           c == [p.conn EXCEPT !.closepend = TRUE]
           w == [p EXCEPT !.conn = c]
<1>1. p \in PType /\ p.conn \in ConnType
  BY DEF POK, Base, PType
<1>2. CASE p.state \notin Writable
  BY <1>2 DEF tcp_close_shutdown_fin
<1>3. CASE p.state \in Writable /\ (ok \/ p.tx.unsent # {})
  <2>1. TxOK(tcp_send_fin(p.tx))
    BY <1>3, SendFinOK DEF POK, Base
  <2>2. TxOK(t)
    BY <2>1, OutputOK
  <2> HIDE DEF t
  <2>3. /\ q \in PType /\ q.state = st /\ q.rx = p.rx /\ q.tx = t
        /\ q.conn = p.conn
    BY <1>1, <2>2 DEF PType, TxOK, States, Live
  <2> HIDE DEF q
  <2>4. POK(q)
    BY <1>3, <2>2, <2>3 DEF POK, Base, States, Live, Receiving, Writable, Closing
  <2>5. tcp_close_shutdown_fin(p, ok, all) = q
    BY <1>1, <1>3 DEF tcp_close_shutdown_fin, q, t, PType
  <2> QED
    BY <2>4, <2>5
<1>4. CASE p.state \in Writable /\ ~(ok \/ p.tx.unsent # {})
  <2>1. c \in ConnType /\ c.rxclosed
    BY <1>1 DEF ConnType
  <2> HIDE DEF c
  <2>2. /\ w \in PType /\ w.state = p.state /\ w.rx = p.rx /\ w.tx = p.tx
        /\ w.conn = c
    BY <1>1, <2>1 DEF PType
  <2> HIDE DEF w
  <2>3. POK(w)
    BY <2>1, <2>2 DEF POK, Base
  <2>4. tcp_close_shutdown_fin(p, ok, all) = w
    BY <1>1, <1>4 DEF tcp_close_shutdown_fin, w, c, PType, ConnType
  <2> QED
    BY <2>3, <2>4
<1> QED
  BY <1>2, <1>3, <1>4

\* tcp_close, by a RST or by a FIN.
LEMMA ClosePOK ==
    ASSUME NEW p, POK(p), NEW ok \in BOOLEAN, NEW all \in BOOLEAN
    PROVE  POK(tcp_close(p, ok, all))
<1> DEFINE c == [p.conn EXCEPT !.rxclosed = TRUE]
           q == [p EXCEPT !.conn = c]
           z == Purge(q)
           s == [z EXCEPT !.rst = TRUE,
                          !.state = IF z.state = "ESTABLISHED" THEN "TIME_WAIT"
                                                               ELSE "FREED"]
<1>1. p \in PType /\ p.conn \in ConnType
  BY DEF POK, Base, PType
<1>2. c \in ConnType /\ c.rxclosed
  BY <1>1 DEF ConnType
<1>3. /\ q \in PType /\ q.state = p.state /\ q.rx = p.rx /\ q.tx = p.tx
      /\ q.conn = c
  BY <1>1, <1>2 DEF PType
<1>4. POK(q)
  BY <1>2, <1>3 DEF POK, Base
<1>5. POK(tcp_close_shutdown_fin(q, ok, all))
  BY <1>2, <1>3, <1>4, ShutdownFinPOK
<1>6. POK(s)
  <2>1. Base(z) /\ z.rx = PurgeRx(q.rx) /\ z.conn = c
    BY <1>3, <1>4, PurgeBase DEF POK
  <2>2. z.rx.refused = 0
    BY <1>4, <2>1, PurgeRxOK DEF POK, Base
  <2> HIDE DEF z
  <2>3. /\ s \in PType /\ s.state \in {"TIME_WAIT", "FREED"}
        /\ s.rx = z.rx /\ s.tx = z.tx /\ s.conn = z.conn
    BY <2>1 DEF Base, PType, States
  <2> HIDE DEF s
  <2> QED
    BY <2>1, <2>2, <2>3 DEF POK, Base, States, Live, Receiving, Writable, Closing
<1>7. q = [p EXCEPT !.conn.rxclosed = TRUE]
  BY <1>1 DEF PType, ConnType
<1> HIDE DEF c, q
<1>8. tcp_close(p, ok, all) \in {s, tcp_close_shutdown_fin(q, ok, all)}
  BY <1>7 DEF tcp_close
<1> QED
  BY <1>5, <1>6, <1>8

-----------------------------------------------------------------------------
(* Segments.                                                               *)

\* What Segments says of a segment that goes on to tcp_process.
SegOK(seg, p) ==
    /\ seg.k \in Nat /\ seg.f \in BOOLEAN
    /\ seg.ackno \in 0..p.tx.nxt
    /\ seg.w \in OldWnd..MaxPeerWnd
    /\ seg.dup \in BOOLEAN
    /\ seg.k > 0 => p.rx.nxt + seg.k <= StreamLen
    /\ seg.f => p.rx.nxt + seg.k >= StreamLen
    /\ seg.k > 0 \/ seg.f => p.rx.refused = 0

\* A segment that tcp_process accepts: the acknowledgement, the data, the
\* change of state and the callbacks together.
LEMMA ReceivePOK ==
    ASSUME NEW p, POK(p), p.state \in Live, NEW seg, SegOK(seg, p),
           NEW all \in BOOLEAN, NEW g \in FreedReads
    PROVE  POK(Receive(p, seg, all, g))
<1> DEFINE t == AckReceived(p.tx, seg.ackno, seg.w, seg.dup)
           accepts == p.state \in Receiving \cup {"SYN_RCVD"}
           k == IF accepts THEN TrimmedLen(p.rx, seg.k) ELSE 0
           f == accepts /\ TrimmedFin(p.rx, seg.k, seg.f)
           acked == FinAcked(t, seg.ackno)
           st == StateAfter(p.state, f, acked)
           c == [p.conn EXCEPT !.open = TRUE]
           received == [p EXCEPT !.tx = t, !.state = st, !.conn = c]
           q == IF st = "TIME_WAIT" THEN Purge(received) ELSE received
           r == AcceptInSequence(q.rx, p.conn, k, f, g)
           s == [q EXCEPT !.rx = r]
<1>1. p \in PType /\ p.conn \in ConnType /\ p.rx \in RxType /\ RxOK(p.rx)
  BY DEF POK, Base, PType
<1>2. TxOK(t) /\ t.fin = p.tx.fin
  BY AckOK DEF SegOK, POK, Base
<1>3. /\ k \in Nat /\ f \in BOOLEAN
      /\ k <= p.rx.wnd
      /\ f => k < p.rx.wnd
      /\ k > 0 => p.rx.nxt + k <= StreamLen
      /\ f => p.rx.nxt + k = StreamLen
      /\ k > 0 \/ f => p.rx.refused = 0 /\ accepts
      /\ accepts => p.rx.nxt <= StreamLen
  <2>1. p.rx.wnd \in Nat /\ p.rx.nxt \in Nat /\ StreamLen \in Nat
    BY <1>1, ConstantsAssumption DEF RxType
  <2>2. accepts => p.rx.nxt <= StreamLen
    BY DEF POK
  <2> QED
    BY <2>1, <2>2 DEF SegOK, TrimmedLen, TrimmedFin, Min2
<1>4. /\ c \in ConnType
      /\ c.closepend = p.conn.closepend /\ c.rxclosed = p.conn.rxclosed
  BY <1>1 DEF ConnType
<1> HIDE DEF t, k, f, acked, c
<1>5. /\ st \in States \cup {"CLOSED"}
      /\ st \in Receiving => accepts /\ ~f
      /\ st \in Writable => p.state \in Writable
      /\ st \in Closing => p.state \in Closing
      /\ st = "TIME_WAIT" => /\ p.state \in Closing
                             /\ f \/ ~accepts
      /\ st # "SYN_RCVD" /\ st # "FREED"
  BY <1>3 DEF StateAfter, States, Live, Receiving, Writable, Closing
<1> HIDE DEF st
<1>6. /\ received \in PType /\ received.state = st /\ received.rx = p.rx
      /\ received.tx = t /\ received.conn = c
  BY <1>1, <1>2, <1>4, <1>5 DEF PType, TxOK
<1>7. received = [p EXCEPT !.tx = t, !.state = st, !.conn.open = TRUE]
  BY <1>1 DEF c, PType, ConnType
<1> HIDE DEF received
<1>8. Base(received)
  BY <1>1, <1>2, <1>4, <1>6 DEF Base, POK
<1>9. Base(q) /\ q.state = st /\ q.conn = c /\ q.tx.fin = t.fin
  BY <1>2, <1>6, <1>8, PurgeBase, PurgeTxOK DEF Base
<1>10. CASE st = "CLOSED"
  <2>1. Base(Report(q, "ERR_CLSD"))
    BY <1>9, ReportBase DEF Errs
  <2>2. POK(FreePcb(IF p.conn.rxclosed THEN q ELSE Report(q, "ERR_CLSD")))
    BY <1>9, <2>1, FreePcbPOK
  <2> HIDE DEF q
  <2>3. Receive(p, seg, all, g)
            = FreePcb(IF p.conn.rxclosed THEN q ELSE Report(q, "ERR_CLSD"))
    BY <1>7, <1>10 DEF Receive, t, f, k, st, acked, q
  <2> QED
    BY <2>2, <2>3
<1>11. CASE st # "CLOSED" /\ AfterClose(p, k)
  <2>1. POK(tcp_abort(q))
    BY <1>9, AbortPOK
  <2> HIDE DEF q
  <2>2. Receive(p, seg, all, g) = tcp_abort(q)
    BY <1>7, <1>11 DEF Receive, t, f, k, st, acked, q
  <2> QED
    BY <2>1, <2>2
<1>12. CASE st # "CLOSED" /\ ~AfterClose(p, k)
  <2>1. /\ RxFull(p.rx)
        /\ Garbage = {} => RxWindow(p.rx)
        /\ p.state \in Writable => ~p.tx.fin
        /\ p.state \in Closing => p.conn.rxclosed
    BY DEF POK
  <2>2. CASE st # "TIME_WAIT"
    <3>1. q = received
      BY <2>2
    <3> HIDE DEF q
    <3>2. /\ RxOK(r) /\ RxFull(r)
          /\ RxWindow(p.rx) /\ Garbage = {} => RxWindow(r)
          /\ f \/ r.nxt = p.rx.nxt \/ r.nxt <= StreamLen
      BY <1>1, <1>3, <1>6, <2>1, <3>1, AcceptOK
    <3> HIDE DEF r
    <3>3. /\ s \in PType /\ s.state = st /\ s.rx = r /\ s.tx = t
          /\ s.conn = c
      BY <1>6, <3>1, <3>2 DEF PType, RxOK
    <3> HIDE DEF s
    <3>4. Base(s)
      BY <1>2, <1>4, <3>2, <3>3 DEF Base, POK
    <3> QED
      <4>1. st \in Receiving \cup {"SYN_RCVD"} => r.nxt <= StreamLen
        BY <1>3, <1>5, <3>2
      <4>2. st \in States /\ st \in Live
        BY <1>5, <1>12, <2>2 DEF States, Live
      <4>3. st \in Writable => ~t.fin
        BY <1>2, <1>5, <2>1
      <4>4. st \in Closing => c.rxclosed
        BY <1>4, <1>5, <2>1
      <4>5. POK(s)
        BY <2>1, <3>2, <3>3, <3>4, <4>1, <4>2, <4>3, <4>4 DEF POK
      <4>6. POK(Output(s, all))
        BY <4>5, OutputPOK
      <4>7. Receive(p, seg, all, g) = Output(s, all)
        BY <1>7, <1>9, <1>12 DEF Receive, t, f, k, st, acked, q, s, r, Base, PType
      <4> QED
        BY <4>6, <4>7
  <2>3. CASE st = "TIME_WAIT"
    <3>1. k = 0
      BY <1>3, <1>5, <1>12, <2>1, <2>3 DEF AfterClose
    <3>2. q = Purge(received) /\ q.rx = PurgeRx(p.rx)
      BY <1>6, <1>8, <2>3, PurgeBase
    <3>3. RxOK(q.rx) /\ q.rx.refused = 0
      BY <1>1, <3>2, PurgeRxOK
    <3> HIDE DEF q
    <3>4. f => q.rx = p.rx
      <4>1. f => p.rx.refused = 0 /\ ~p.rx.fin
        BY <1>1, <1>3 DEF RxOK
      <4> QED
        BY <1>1, <3>2, <4>1, ZenonT(60) DEF PurgeRx, RxType
    <3>5. RxOK(r) /\ r.refused = 0
      <4>1. CASE f
        <5>1. /\ RxOK(AcceptInSequence(p.rx, p.conn, k, f, g))
              /\ k = 0 /\ p.rx.refused = 0
                    => AcceptInSequence(p.rx, p.conn, k, f, g).refused = 0
          BY <1>1, <1>3, <2>1, AcceptOK
        <5> QED
          BY <1>3, <3>1, <3>4, <4>1, <5>1
      <4>2. CASE ~f
        BY <3>1, <3>3, <4>2 DEF AcceptInSequence
      <4> QED
        BY <4>1, <4>2
    <3> HIDE DEF r
    <3>6. /\ s \in PType /\ s.state = st /\ s.rx = r /\ s.tx = q.tx
          /\ s.conn = c
      BY <1>9, <3>5 DEF Base, PType, RxOK
    <3> HIDE DEF s
    <3>7. POK(s)
      BY <1>9, <2>3, <3>5, <3>6
      DEF POK, Base, States, Live, Receiving, Writable, Closing
    <3>8. POK(Output(s, all))
      BY <3>7, OutputPOK
    <3>9. Receive(p, seg, all, g) = Output(s, all)
      BY <1>7, <1>9, <1>12 DEF Receive, t, f, k, st, acked, q, s, r, Base, PType
    <3> QED
      BY <3>8, <3>9
  <2> QED
    BY <2>2, <2>3
<1> QED
  BY <1>10, <1>11, <1>12

\* Activity resets pcb->tmr and nothing else.
LEMMA RefreshPOK ==
    ASSUME NEW p, POK(p)
    PROVE  /\ POK(Refresh(p))
           /\ Refresh(p).state = p.state /\ Refresh(p).rx = p.rx
           /\ Refresh(p).tx = p.tx
<1>1. 0 \in 0..IdleMax
  BY ConstantsAssumption DEF IdleMax
<1>2. POK(Refresh(p))
  BY <1>1, SetIdle DEF Refresh
<1> QED
  BY <1>2 DEF Refresh, POK, Base, PType

\* An acceptable RST leaves a freed pcb.
LEMMA ResetPOK ==
    ASSUME NEW p, POK(p)
    PROVE  POK(Reset(p))
<1>1. Base(Report(p, "ERR_RST"))
  BY ReportBase DEF POK, Errs
<1> QED
  BY <1>1, FreePcbPOK DEF Reset

\* tcp_process during the handshake.
LEMMA SynReceivedPOK ==
    ASSUME NEW p, POK(p), p.state \in Live, NEW seg, SegOK(seg, p),
           NEW all \in BOOLEAN, NEW g \in FreedReads
    PROVE  POK(SynReceived(p, seg, all, g))
<1>1. POK(Receive(p, seg, all, g))
  BY ReceivePOK
<1>2. POK(Output([p EXCEPT !.rst = TRUE], all))
  BY SetRst, OutputPOK
<1>3. POK(Output(p, all))
  BY OutputPOK
<1>4. POK(Output([p EXCEPT !.tx = tcp_rexmit(@)], all))
  <2>1. TxOK(tcp_rexmit(p.tx)) /\ tcp_rexmit(p.tx).fin = p.tx.fin
    BY RexmitOK DEF POK, Base
  <2>2. POK([p EXCEPT !.tx = tcp_rexmit(p.tx)])
    BY <2>1, SetTx
  <2>3. POK([p EXCEPT !.tx = tcp_rexmit(@)])
    BY <2>2 DEF POK, Base, PType
  <2> QED
    BY <2>3, OutputPOK
<1> QED
  BY <1>1, <1>2, <1>3, <1>4 DEF SynReceived

\* tcp_process in any state.
LEMMA ProcessPOK ==
    ASSUME NEW p, POK(p), p.state \in Live, NEW seg, SegOK(seg, p),
           NEW all \in BOOLEAN, NEW g \in FreedReads
    PROVE  POK(tcp_process(p, seg, all, g))
<1> DEFINE q == IF p.conn.rxclosed THEN p ELSE Refresh(p)
<1>1. /\ POK(q) /\ q.state = p.state /\ q.rx = p.rx /\ q.tx = p.tx
  BY RefreshPOK
<1>2. SegOK(seg, q)
  BY <1>1 DEF SegOK
<1> HIDE DEF q
<1>3. POK(Reset(p)) /\ POK(Output(p, all))
  BY ResetPOK, OutputPOK
<1>4. POK(SynReceived(q, seg, all, g))
  BY <1>1, <1>2, SynReceivedPOK
<1>5. POK(Receive(q, seg, all, g))
  BY <1>1, <1>2, ReceivePOK
<1> QED
  BY <1>3, <1>4, <1>5 DEF tcp_process, q

\* tcp_timewait_input may send a RST or restart the wait.
LEMMA TimewaitPOK ==
    ASSUME NEW p, POK(p), NEW seg, seg.exact \in BOOLEAN
    PROVE  POK(tcp_timewait_input(p, seg))
<1>1. (p.rst \/ seg.exact) \in BOOLEAN
  BY DEF POK, Base, PType
<1>2. POK([p EXCEPT !.rst = p.rst \/ seg.exact])
  BY <1>1, SetRst
<1>3. POK([p EXCEPT !.rst = @ \/ seg.exact])
  BY <1>2 DEF POK, Base, PType
<1> QED
  BY <1>3, RefreshPOK DEF tcp_timewait_input

\* The segments of the peer satisfy SegOK once refused data is out of the way.
LEMMA SegmentOK ==
    ASSUME NEW p, POK(p), NEW seg \in Segments(p)
    PROVE  /\ seg.exact \in BOOLEAN
           /\ seg.tcplen \/ (seg.k = 0 /\ ~seg.f)
           /\ \A q : (/\ q.tx = p.tx /\ q.rx.nxt = p.rx.nxt
                      /\ q.rx.refused = 0 \/ ~seg.tcplen)
                     => SegOK(seg, q)
<1>1. p.tx.nxt \in Nat /\ p.rx.nxt \in Nat
  BY ConstantsAssumption DEF POK, Base, TxOK, RxOK, TxType, RxType, SeqMax
<1>2. CASE seg \in OtherSegments
  <2>1. PICK kind \in {"RST", "SYN"}, x \in BOOLEAN :
            seg = [kind |-> kind, exact |-> x, tcplen |-> kind = "SYN", k |-> 0,
                   f |-> FALSE, ackno |-> 0, w |-> OldWnd, dup |-> FALSE]
    BY <1>2 DEF OtherSegments
  <2>2. /\ seg.exact \in BOOLEAN /\ seg.k = 0 /\ seg.f = FALSE
        /\ seg.ackno = 0 /\ seg.w = OldWnd /\ seg.dup = FALSE
    BY <2>1
  <2>3. /\ 0 \in Nat /\ 0 \in 0..p.tx.nxt
        /\ OldWnd \in OldWnd..MaxPeerWnd
    BY <1>1, ConstantsAssumption DEF OldWnd
  <2>4. ASSUME NEW q, q.tx = p.tx
        PROVE  SegOK(seg, q)
    <3>1. q.tx.nxt = p.tx.nxt /\ ~(seg.k > 0)
      BY <2>2, <2>4
    <3> QED
      BY <2>2, <2>3, <3>1, Zenon DEF SegOK
  <2> QED
    BY <2>2, <2>4
<1>3. CASE seg \in AckSegments(p) /\ WellFormed(seg, p)
  <2>1. PICK len \in BOOLEAN, d \in InSequence(p.rx), a \in 0..p.tx.nxt,
             w \in OldWnd..MaxPeerWnd, dup \in BOOLEAN :
            seg = [kind |-> "ACK", exact |-> FALSE, tcplen |-> len, k |-> d[1],
                   f |-> d[2], ackno |-> a, w |-> w, dup |-> dup]
    BY <1>3 DEF AckSegments
  <2>2. /\ seg.exact = FALSE /\ seg.tcplen = len /\ seg.k = d[1]
        /\ seg.f = d[2] /\ seg.ackno = a /\ seg.w = w /\ seg.dup = dup
    BY <2>1
  <2>3. /\ d[1] \in Nat /\ d[2] \in BOOLEAN
        /\ d[1] > 0 => p.rx.nxt + d[1] <= StreamLen
        /\ d[2] => p.rx.nxt + d[1] >= StreamLen
    BY ConstantsAssumption DEF InSequence
  <2>4. seg.tcplen \/ (seg.k = 0 /\ ~seg.f)
    BY <1>3, <2>2, <2>3 DEF WellFormed
  <2>5. ASSUME NEW q, q.tx = p.tx, q.rx.nxt = p.rx.nxt,
               q.rx.refused = 0 \/ ~seg.tcplen
        PROVE  SegOK(seg, q)
    BY <2>2, <2>3, <2>4, <2>5 DEF SegOK
  <2> QED
    BY <2>2, <2>4, <2>5
<1> QED
  BY <1>2, <1>3 DEF Segments

\* tcp_input: with the refused data that is offered first.
LEMMA InputPOK ==
    ASSUME NEW p, POK(p), NEW seg \in Segments(p), NEW all \in BOOLEAN,
           NEW g \in FreedReads
    PROVE  POK(tcp_input(p, seg, all, g))
<1> DEFINE r == tcp_process_refused_data(p.rx, p.conn, g)
           q == [p EXCEPT !.rx = r]
<1>1. /\ p \in PType /\ p.state \in States /\ p.rst \in BOOLEAN
  BY DEF POK, Base, PType
<1>2. CASE p.state = "FREED"
  <2>1. (p.rst \/ seg.kind # "RST") \in BOOLEAN
    BY <1>1
  <2>2. POK([p EXCEPT !.rst = p.rst \/ seg.kind # "RST"])
    BY <2>1, SetRst
  <2>3. tcp_input(p, seg, all, g) = [p EXCEPT !.rst = p.rst \/ seg.kind # "RST"]
    BY <1>1, <1>2 DEF tcp_input, PType
  <2> QED
    BY <2>2, <2>3
<1>3. CASE p.state = "TIME_WAIT"
  BY <1>3, SegmentOK, TimewaitPOK DEF tcp_input
<1>4. CASE p.state \in Live
  <2>1. POK(q) /\ r.nxt = p.rx.nxt
    BY RefusedPOK
  <2>2. q.state = p.state /\ q.tx = p.tx /\ q.rx = r
    BY <1>1 DEF PType
  <2>3. q = [p EXCEPT !.rx = tcp_process_refused_data(@, p.conn, g)]
    BY <1>1 DEF PType
  <2> HIDE DEF q
  <2>4. CASE q.rx.refused # 0 /\ seg.tcplen
    BY <1>4, <2>1, <2>3, <2>4 DEF tcp_input, Live
  <2>5. CASE ~(q.rx.refused # 0 /\ seg.tcplen)
    <3>1. SegOK(seg, q)
      BY <2>1, <2>2, <2>5, SegmentOK
    <3>2. POK(tcp_process(q, seg, all, g))
      BY <1>4, <2>1, <2>2, <3>1, ProcessPOK
    <3> QED
      BY <1>4, <2>3, <2>5, <3>2 DEF tcp_input, Live
  <2> QED
    BY <2>4, <2>5
<1> QED
  BY <1>1, <1>2, <1>3, <1>4 DEF States

-----------------------------------------------------------------------------
(* Timers.                                                                 *)

\* tcp_fasttmr: its four duties one after the other.
LEMMA FasttmrPOK ==
    ASSUME NEW p, POK(p), NEW out \in BOOLEAN, NEW ok \in BOOLEAN,
           NEW all \in BOOLEAN, NEW g \in FreedReads
    PROVE  POK(tcp_fasttmr(p, out, ok, all, g))
<1> DEFINE acked == IF out THEN Output(p, all) ELSE p
           c == [acked.conn EXCEPT !.closepend = FALSE]
           q == [acked EXCEPT !.conn = c]
           fin == IF acked.conn.closepend
                  THEN tcp_close_shutdown_fin(
                            [acked EXCEPT !.conn.closepend = FALSE], ok, all)
                  ELSE acked
           read == [fin EXCEPT !.rx = tcp_process_refused_data(@, fin.conn, g)]
<1>1. POK(acked)
  BY OutputPOK
<1> HIDE DEF acked
<1>2. acked \in PType /\ acked.conn \in ConnType
  BY <1>1 DEF POK, Base, PType
<1>3. /\ c \in ConnType /\ c.closepend = FALSE
      /\ c.rxclosed = acked.conn.rxclosed
  BY <1>2 DEF ConnType
<1> HIDE DEF c
<1>4. /\ q \in PType /\ q.state = acked.state /\ q.rx = acked.rx
      /\ q.tx = acked.tx /\ q.conn = c
  BY <1>2, <1>3 DEF PType
<1>5. q = [acked EXCEPT !.conn.closepend = FALSE]
  BY <1>2 DEF c, PType, ConnType
<1> HIDE DEF q
<1>6. POK(q)
  BY <1>1, <1>3, <1>4 DEF POK, Base
<1>7. POK(fin)
  <2>1. acked.conn.closepend => q.conn.rxclosed
    BY <1>1, <1>3, <1>4 DEF POK, Base
  <2>2. acked.conn.closepend => POK(tcp_close_shutdown_fin(q, ok, all))
    BY <1>6, <2>1, ShutdownFinPOK
  <2> QED
    BY <1>1, <1>5, <2>2
<1> HIDE DEF fin
<1>8. POK(read)
  <2>1. POK([fin EXCEPT !.rx = tcp_process_refused_data(fin.rx, fin.conn, g)])
    BY <1>7, RefusedPOK
  <2> QED
    BY <1>7, <2>1 DEF POK, Base, PType
<1>9. POK(tcp_close(read, ok, all))
  <2> HIDE DEF read
  <2> QED
    BY <1>8, ClosePOK
<1>10. tcp_fasttmr(p, out, ok, all, g)
          = IF read.conn.close_after_writing /\ AllWritten(read.tx)
            THEN tcp_close(read, ok, all) ELSE read
  BY Zenon DEF tcp_fasttmr, acked, fin
<1> HIDE DEF read
<1> QED
  BY <1>8, <1>9, <1>10

\* The retransmission or the probe of a slow tick.
LEMMA RetransmitPOK ==
    ASSUME NEW p, POK(p), NEW due \in BOOLEAN, NEW all \in BOOLEAN
    PROVE  POK(Retransmit(p, due, all))
<1>1. p \in PType /\ TxOK(p.tx)
  BY DEF POK, Base
<1>2. POK([p EXCEPT !.tx = tcp_zero_window_probe(p.tx)])
  <2>1. /\ TxOK(tcp_zero_window_probe(p.tx))
        /\ tcp_zero_window_probe(p.tx).fin = p.tx.fin
    BY <1>1, ProbeOK
  <2> QED
    BY <2>1, SetTx
<1>3. POK([p EXCEPT !.tx = tcp_rexmit_rto(p.tx, all)])
  <2>1. /\ TxOK(tcp_rexmit_rto(p.tx, all))
        /\ tcp_rexmit_rto(p.tx, all).fin = p.tx.fin
    BY <1>1, RexmitRtoOK
  <2> QED
    BY <2>1, SetTx
<1>4. /\ [p EXCEPT !.tx = tcp_zero_window_probe(@)]
            = [p EXCEPT !.tx = tcp_zero_window_probe(p.tx)]
      /\ [p EXCEPT !.tx = tcp_rexmit_rto(@, all)]
            = [p EXCEPT !.tx = tcp_rexmit_rto(p.tx, all)]
  BY <1>1 DEF PType
<1> QED
  BY <1>2, <1>3, <1>4 DEF Retransmit

\* tcp_slowtmr: a timeout, a removal or a poll.
LEMMA SlowtmrPOK ==
    ASSUME NEW p, POK(p), NEW out \in BOOLEAN, NEW due \in BOOLEAN,
           NEW all \in BOOLEAN
    PROVE  POK(tcp_slowtmr(p, out, due, all))
<1> DEFINE now == [p EXCEPT !.idle = Min2(p.idle + 1, IdleMax)]
           x == Retransmit(now, due, all)
           z == FreePcb(x)
           w == [z EXCEPT !.rst = z.rst \/ KeepaliveOver(now)]
<1>1. p \in PType /\ p.idle \in 0..IdleMax
  BY DEF POK, Base, PType
<1>2. Min2(p.idle + 1, IdleMax) \in 0..IdleMax
  BY <1>1, ConstantsAssumption DEF Min2, IdleMax
<1>3. POK(now)
  BY <1>2, SetIdle
<1>4. now = [p EXCEPT !.idle = Min2(@ + 1, IdleMax)]
  BY <1>1 DEF PType
<1> HIDE DEF now
<1>5. POK(FreePcb(now))
  BY <1>3, FreePcbPOK DEF POK
<1>6. POK(x)
  BY <1>3, RetransmitPOK
<1>7. POK(Output(x, all))
  BY <1>6, OutputPOK
<1>8. POK(z)
  BY <1>6, FreePcbPOK DEF POK
<1>9. z \in PType /\ z.rst \in BOOLEAN
  BY <1>8 DEF POK, Base, PType
<1>10. w = [z EXCEPT !.rst = @ \/ KeepaliveOver(now)]
  BY <1>9 DEF PType
<1> HIDE DEF x, z
<1>11. (z.rst \/ KeepaliveOver(now)) \in BOOLEAN
  BY <1>9 DEF KeepaliveOver
<1>12. POK(w)
  BY <1>8, <1>11, SetRst
<1> HIDE DEF w
<1>13. POK(Report(w, "ERR_ABRT"))
  BY <1>12, ReportPOK DEF Errs
<1>14. tcp_slowtmr(p, out, due, all)
          \in {p, now, FreePcb(now), x, Output(x, all), Report(w, "ERR_ABRT")}
  BY <1>4, <1>10 DEF tcp_slowtmr, x, z
<1> QED
  BY <1>3, <1>5, <1>6, <1>7, <1>13, <1>14

\* tcp_tmr, with or without the slow timer.
LEMMA TmrPOK ==
    ASSUME NEW p, POK(p), NEW slow \in BOOLEAN, NEW out \in BOOLEAN,
           NEW ok \in BOOLEAN, NEW due \in BOOLEAN, NEW all \in BOOLEAN,
           NEW g \in FreedReads
    PROVE  POK(tcp_tmr(p, slow, out, ok, due, all, g))
<1> DEFINE fast == tcp_fasttmr(p, out, ok, all, g)
<1>1. POK(fast)
  BY FasttmrPOK
<1> HIDE DEF fast
<1>2. POK(tcp_slowtmr(fast, out, due, all))
  BY <1>1, SlowtmrPOK
<1> QED
  BY <1>1, <1>2 DEF tcp_tmr, fast

-----------------------------------------------------------------------------
(* The invariant.                                                          *)

\* Now and its fields.
LEMMA NowFields ==
    /\ Now.state = state /\ Now.rx = rx /\ Now.tx = tx /\ Now.conn = conn
    /\ Now.idle = idle /\ Now.err = err /\ Now.rst = rst
BY DEF Now

\* Becoming p makes p the new Now.
LEMMA BecomeNow ==
    ASSUME NEW p \in PType, Become(p)
    PROVE  Now' = p
BY DEF Become, Now, PType

\* A connection starts with its window open and its SYN-ACK in flight.
LEMMA InitIInv == Init => IInv
<1> SUFFICES ASSUME Init
             PROVE  IInv
  OBVIOUS
<1>1. PICK w \in 0..MaxPeerWnd :
          tx = [una |-> 0, nxt |-> 1, lbb |-> 1, unsent |-> {}, unacked |-> {0},
                wnd |-> w, persist |-> FALSE, buf |-> SND_BUF, fin |-> FALSE,
                infr |-> FALSE, nrtx |-> 0, acked |-> 0]
  BY DEF Init
<1>2. tx \in TxType
  <2>1. /\ 0 \in 0..SeqMax /\ 1 \in 0..SeqMax /\ 0 \in 0..MAXRTX
        /\ {} \in SUBSET (0..SeqMax) /\ {0} \in SUBSET (0..SeqMax)
        /\ SND_BUF \in Int /\ 0 \in Int
    BY ConstantsAssumption DEF SeqMax
  <2> QED
    BY <1>1, <2>1 DEF TxType
<1>3. TxOK(tx) /\ ~tx.fin
  <2>1. /\ tx.una = 0 /\ tx.nxt = 1 /\ tx.lbb = 1 /\ tx.unsent = {}
        /\ tx.unacked = {0} /\ tx.fin = FALSE
    BY <1>1
  <2>2. {0} \subseteq 0..(1 - 1)
    OBVIOUS
  <2> QED
    BY <1>2, <2>1, <2>2, ConstantsAssumption DEF TxOK
<1>4. /\ rx = [nxt |-> 0, wnd |-> WND, refused |-> 0, fin |-> FALSE,
               canRead |-> FALSE, read |-> 0, eof |-> 0]
      /\ conn = [open |-> FALSE, delegate |-> FALSE, close_after_writing |-> FALSE,
                 rxclosed |-> FALSE, closepend |-> FALSE, timer |-> TRUE]
      /\ state = "SYN_RCVD" /\ idle = 0 /\ err = "none" /\ rst = FALSE
      /\ odd = FALSE
  BY DEF Init
<1>5. /\ rx \in RxType /\ rx.nxt = 0 /\ rx.wnd = WND /\ rx.refused = 0
      /\ rx.fin = FALSE /\ rx.read = 0 /\ rx.eof = 0
  <2>1. /\ 0 \in 0..(StreamLen + 1) /\ WND \in 0..WND /\ 0 \in 0..WND
        /\ 0 \in 0..StreamLen /\ 0 \in Nat
    BY ConstantsAssumption
  <2> QED
    BY <1>4, <2>1 DEF RxType
<1>6. RxOK(rx) /\ RxFull(rx) /\ RxWindow(rx)
  BY <1>5, ConstantsAssumption DEF RxOK, RxFull, RxWindow, Accepted, Min2
<1>7. conn \in ConnType /\ ~conn.closepend
  BY <1>4 DEF ConnType
<1>8. Now \in PType
  <2>1. 0 \in 0..IdleMax
    BY ConstantsAssumption DEF IdleMax
  <2> QED
    BY <1>2, <1>4, <1>5, <1>7, <2>1 DEF Now, PType, States, Live, Errs
<1>9. POK(Now)
  BY <1>3, <1>4, <1>5, <1>6, <1>7, <1>8, NowFields, ConstantsAssumption
  DEF POK, Base, States, Live, Closing
<1> QED
  BY <1>4, <1>9 DEF IInv

\* write, before tcp_output: n numbers are queued.
Queued(t, n) ==
    [t EXCEPT !.unsent = @ \cup (t.lbb..(t.lbb + n - 1)),
              !.lbb = @ + n,
              !.buf = @ - n]

\* tcp_write appends new numbers to the unsent queue.
LEMMA QueuedOK ==
    ASSUME NEW t, TxOK(t), NEW n \in 1..MaxWritten,
           t.lbb + n <= MaxWritten + 1
    PROVE  TxOK(Queued(t, n)) /\ Queued(t, n).fin = t.fin
<1> DEFINE new == t.lbb..(t.lbb + n - 1)
           q == Queued(t, n)
<1>1. t \in TxType
  BY DEF TxOK
<1>2. /\ t.una \in 0..SeqMax /\ t.lbb \in 0..SeqMax /\ t.nxt \in 0..SeqMax
      /\ t.unsent \in SUBSET (0..SeqMax) /\ t.unacked \in SUBSET (0..SeqMax)
      /\ t.buf \in Int
  BY <1>1 DEF TxType
<1>3. /\ t.lbb + n \in 0..SeqMax /\ t.buf - n \in Int
      /\ t.unsent \cup new \in SUBSET (0..SeqMax)
  BY <1>2, ConstantsAssumption DEF SeqMax
<1>4. new \subseteq t.una..(t.lbb + n - 1)
  BY <1>2, ConstantsAssumption DEF TxOK, SeqMax
<1>5. t.una..(t.lbb - 1) \subseteq t.una..(t.lbb + n - 1)
  BY <1>2, ConstantsAssumption DEF SeqMax
<1>6. q = [t EXCEPT !.unsent = t.unsent \cup new,
                    !.lbb = t.lbb + n,
                    !.buf = t.buf - n]
  BY <1>1 DEF Queued, TxType
<1> HIDE DEF q, new
<1>7. q \in TxType
  BY <1>1, <1>3, <1>6 DEF TxType
<1>8. /\ q.fin = t.fin /\ q.una = t.una /\ q.nxt = t.nxt
      /\ q.lbb = t.lbb + n
      /\ q.unsent = t.unsent \cup new /\ q.unacked = t.unacked
  BY <1>1, <1>6 DEF TxType
<1>9. q.unsent \cup q.unacked \subseteq q.una..(q.lbb - 1)
  <2>1. q.una..(q.lbb - 1) = t.una..(t.lbb + n - 1)
    BY <1>2, <1>8, ConstantsAssumption DEF SeqMax
  <2>2. q.unsent \cup q.unacked = (t.unsent \cup t.unacked) \cup new
    BY <1>8
  <2> QED
    BY <1>4, <1>5, <2>1, <2>2 DEF TxOK
<1>10. q.una <= q.lbb /\ q.nxt <= q.lbb
  BY <1>2, <1>8, ConstantsAssumption DEF TxOK, SeqMax
<1> QED
  BY <1>7, <1>8, <1>9, <1>10 DEF TxOK, q

\* A step that becomes a good state keeps the invariant.
LEMMA BecomeIInv ==
    ASSUME NEW p, POK(p), Become(p), odd' \in BOOLEAN
    PROVE  IInv'
BY BecomeNow DEF IInv, POK, Base

\* Only flags of conn change, none of those the invariant reads.
SetConn(c) ==
    /\ c \in ConnType
    /\ c.rxclosed = conn.rxclosed /\ c.closepend = conn.closepend
    /\ conn' = c
    /\ UNCHANGED <<state, rx, tx, idle, odd, err, rst>>

\* The calls that only set a flag.
LEMMA ConnIInv ==
    ASSUME IInv, NEW c, SetConn(c)
    PROVE  IInv'
<1> DEFINE p == [Now EXCEPT !.conn = c]
<1> USE NowFields
<1>1. POK(Now) /\ Now \in PType
  BY DEF IInv, POK, Base
<1>2. /\ p \in PType /\ p.state = state /\ p.rx = rx /\ p.tx = tx
      /\ p.conn = c /\ p.idle = idle /\ p.err = err /\ p.rst = rst
  BY <1>1 DEF PType, SetConn
<1> HIDE DEF p
<1>3. POK(p)
  BY <1>1, <1>2 DEF POK, Base, SetConn
<1>4. Become(p)
  BY <1>2 DEF Become, SetConn
<1>5. Now' = p
  BY <1>2, <1>4, BecomeNow
<1> QED
  BY <1>3, <1>5 DEF IInv, SetConn

\* Each action, seen on Now, keeps the invariant.
LEMMA NextIInv == IInv /\ [Next]_vars => IInv'
<1> SUFFICES ASSUME IInv, [Next]_vars
             PROVE  IInv'
  OBVIOUS
<1> USE NowFields
<1>0. /\ POK(Now) /\ Now \in PType /\ odd \in BOOLEAN
      /\ rx \in RxType /\ tx \in TxType /\ conn \in ConnType
  BY DEF IInv, POK, Base, PType
<1>1. Pace \subseteq BOOLEAN /\ Alloc \subseteq BOOLEAN
  BY DEF Pace, Alloc
<1>2. CASE Input
  <2>1. PICK seg \in Segments(Now), all \in Pace, g \in FreedReads :
            Become(tcp_input(Now, seg, all, g)) /\ UNCHANGED odd
    BY <1>2 DEF Input
  <2>2. POK(tcp_input(Now, seg, all, g))
    BY <1>0, <1>1, InputPOK
  <2> QED
    BY <1>0, <2>1, <2>2, BecomeIInv
<1>3. CASE Tick
  <2>1. PICK due \in BOOLEAN, out \in BOOLEAN, ok \in Alloc, all \in Pace,
             g \in FreedReads :
            /\ odd' = ~odd
            /\ Become(tcp_tmr(Now, ~odd, out, ok, due, all, g))
    BY <1>3 DEF Tick, TickWith
  <2>2. POK(tcp_tmr(Now, ~odd, out, ok, due, all, g))
    BY <1>0, <1>1, TmrPOK, ZenonT(60)
  <2> QED
    BY <1>0, <2>1, <2>2, BecomeIInv
<1>4. CASE TimerEnds
  <2>1. SetConn([conn EXCEPT !.timer = FALSE])
    BY <1>0, <1>4 DEF TimerEnds, ConnType, SetConn
  <2> QED
    BY <1>0, <2>1, ConnIInv
<1>5. CASE syncSetDelegate
  <2>1. SetConn([conn EXCEPT !.delegate = TRUE])
    BY <1>0, <1>5 DEF syncSetDelegate, ConnType, SetConn
  <2> QED
    BY <1>0, <2>1, ConnIInv
<1>6. CASE asyncSetDelegate
  <2>1. SetConn([conn EXCEPT !.delegate = TRUE])
    BY <1>0, <1>6 DEF asyncSetDelegate, ConnType, SetConn
  <2> QED
    BY <1>0, <2>1, ConnIInv
<1>7. CASE closeAfterWriting
  <2>1. SetConn([conn EXCEPT !.close_after_writing = TRUE])
    BY <1>0, <1>7 DEF closeAfterWriting, ConnType, SetConn
  <2> QED
    BY <1>0, <2>1, ConnIInv
<1>8. CASE close
  <2>1. PICK ok \in Alloc, all \in Pace :
            Become(tcp_close(Now, ok, all)) /\ UNCHANGED odd
    BY <1>8 DEF close
  <2>2. POK(tcp_close(Now, ok, all))
    BY <1>0, <1>1, ClosePOK
  <2> QED
    BY <1>0, <2>1, <2>2, BecomeIInv
<1>9. CASE readData
  <2> DEFINE r == [rx EXCEPT !.canRead = TRUE]
             p == [Now EXCEPT !.rx = r]
  <2>1. /\ r \in RxType /\ r.nxt = rx.nxt /\ r.wnd = rx.wnd
        /\ r.refused = rx.refused /\ r.fin = rx.fin /\ r.read = rx.read
        /\ r.eof = rx.eof
    BY <1>0 DEF RxType
  <2>2. /\ rx' = r
        /\ UNCHANGED <<state, tx, conn, idle, odd, err, rst>>
    BY <1>9 DEF readData
  <2> HIDE DEF r
  <2>3. /\ RxOK(r)
        /\ RxFull(rx) => RxFull(r)
        /\ RxWindow(rx) => RxWindow(r)
    BY <1>0, <2>1 DEF POK, Base, RxOK, RxFull, RxWindow, Accepted
  <2>4. /\ p \in PType /\ p.state = state /\ p.rx = r /\ p.tx = tx
        /\ p.conn = conn /\ p.idle = idle /\ p.err = err /\ p.rst = rst
    BY <1>0, <2>1 DEF PType
  <2> HIDE DEF p
  <2>5. POK(p)
    BY <1>0, <2>1, <2>3, <2>4 DEF POK, Base
  <2>6. Become(p)
    BY <2>2, <2>4 DEF Become
  <2> QED
    BY <1>0, <2>2, <2>5, <2>6, BecomeIInv
<1>10. CASE \E n \in 1..MaxWritten : write(n)
  <2>1. PICK n \in 1..MaxWritten, all \in BOOLEAN :
            /\ state \in Writable
            /\ tx.lbb + n <= MaxWritten + 1
            /\ tx' = tcp_output(Queued(tx, n), all)
            /\ UNCHANGED <<state, rx, conn, idle, odd, err, rst>>
    BY <1>10 DEF write, Queued
  <2> DEFINE t == tcp_output(Queued(tx, n), all)
             p == [Now EXCEPT !.tx = t]
  <2>2. TxOK(Queued(tx, n)) /\ Queued(tx, n).fin = tx.fin
    BY <1>0, <2>1, QueuedOK DEF POK, Base
  <2>3. TxOK(t) /\ t.fin = tx.fin
    BY <2>2, OutputOK
  <2>4. tx' = t
    BY <2>1
  <2> HIDE DEF t
  <2>5. POK(p)
    BY <1>0, <2>3, SetTx
  <2>6. Become(p)
    BY <1>0, <2>1, <2>4 DEF Become, PType
  <2> QED
    BY <1>0, <2>1, <2>5, <2>6, BecomeIInv
<1>11. CASE UNCHANGED vars
  <2>1. Become(Now) /\ odd' = odd
    BY <1>11 DEF vars, Become
  <2> QED
    BY <1>0, <2>1, BecomeIInv
<1> QED
  BY <1>2, <1>3, <1>4, <1>5, <1>6, <1>7, <1>8, <1>9, <1>10, <1>11 DEF Next

-----------------------------------------------------------------------------
(* The theorems.                                                           *)

\* The receive half accounts for every byte of the peer's stream and the send
\* half for every number, in every reachable state of a connection.
THEOREM Invariance == Spec => []IInv
<1>1. Init => IInv
  BY InitIInv
<1>2. IInv /\ [Next]_vars => IInv'
  BY NextIInv
<1> QED
  BY <1>1, <1>2, PTL DEF Spec

\* Every variable keeps its type: rcv_wnd stays within 0..TCP_WND although it is
\* a u16_t that is decremented and incremented in six places, whatever length is
\* read from a freed pbuf, and no queue holds a number past snd_lbb.
THEOREM TypeCorrect == Spec => []TypeOK
<1>1. IInv => TypeOK
  BY NowFields DEF IInv, POK, Base, PType, TypeOK
<1> QED
  BY <1>1, Invariance, PTL

\* Every byte of the peer's stream that was acknowledged was passed to the
\* delegate once or is kept as refused_data.
THEOREM NoByteLost == Spec => []NothingLost
<1>1. IInv => NothingLost
  BY NowFields DEF IInv, POK, RxFull, NothingLost
<1> QED
  BY <1>1, Invariance, PTL

\* The delegate is told of the end of the stream once, after all of its data.
THEOREM EofInOrder == Spec => []EofAfterAllData
<1>1. IInv => EofAfterAllData
  BY NowFields DEF IInv, POK, Base, RxOK, EofAfterAllData
<1> QED
  BY <1>1, Invariance, PTL

\* If the freed pbuf still reads as its length, the receive window falls short of
\* TCP_WND by exactly what is refused.
THEOREM WindowExact ==
    ASSUME Garbage = {}
    PROVE  Spec => []WindowAccounting
<1>1. IInv => WindowAccounting
  BY NowFields DEF IInv, POK, RxWindow, WindowAccounting
<1> QED
  BY <1>1, Invariance, PTL

-----------------------------------------------------------------------------
(* The send half: its inductive invariant.                                 *)

\* What holds of the send half while the pcb is in use: SendAccounting, and that
\* the SYN and the FIN are numbers of their own.
SendOK(t) ==
    /\ t.unsent \cap t.unacked = {}
    /\ t.unsent \cup t.unacked = t.una..(t.lbb - 1)
    /\ \A s \in t.unacked : s < t.nxt
    /\ 1 <= t.lbb
    /\ t.fin => 2 <= t.lbb
    /\ t.buf + DataIn(t, t.una..(t.lbb - 1)) = SND_BUF
    /\ t.acked = DataIn(t, 0..(t.una - 1))

\* All that was written is acknowledged, and the FIN behind it.
Graceful(t) == t.fin /\ t.una = t.lbb /\ t.acked = t.lbb - 2

\* TIME_WAIT is entered when both FINs were acknowledged, or by tcp_close with a
\* RST; in FIN_WAIT_2 the own FIN is acknowledged already.
Sound(p) ==
    /\ p.state \in Live => SendOK(p.tx)
    /\ p.state \in Closing => p.tx.fin
    /\ p.state = "FIN_WAIT_2" => p.tx.una = p.tx.lbb
    /\ p.state = "TIME_WAIT" => p.conn.rxclosed /\ (p.rst \/ Graceful(p.tx))
    /\ p.state = "FREED" =>
          /\ ~p.conn.rxclosed => p.err \in {"ERR_RST", "ERR_ABRT", "unset"}
          /\ p.err = "none" => p.rst \/ Graceful(p.tx)
    /\ p.err # "ERR_CLSD"

SInv == IInv /\ Sound(Now)

-----------------------------------------------------------------------------
(* Counting.                                                               *)

\* The types of the send half.
LEMMA TxFields ==
    ASSUME NEW t, TxOK(t)
    PROVE  /\ t.una \in Nat /\ t.lbb \in Nat /\ t.nxt \in Nat
           /\ t.una <= t.lbb /\ t.nxt <= t.lbb
           /\ t.unsent \in SUBSET Nat /\ t.unacked \in SUBSET Nat
           /\ t.buf \in Int /\ t.acked \in Int /\ t.fin \in BOOLEAN
<1>1. SeqMax \in Nat
  BY ConstantsAssumption DEF SeqMax
<1>2. 0..SeqMax \subseteq Nat
  BY <1>1
<1> QED
  BY <1>2 DEF TxOK, TxType

\* The data bytes in an interval are a finite number.
LEMMA DataCount ==
    ASSUME NEW t, NEW a \in Int, NEW b \in Int
    PROVE  /\ IsFiniteSet({s \in a..b : IsData(t, s)})
           /\ DataIn(t, a..b) \in Nat
<1>1. IsFiniteSet(a..b)
  BY FS_Interval
<1>2. {s \in a..b : IsData(t, s)} \in SUBSET (a..b)
  OBVIOUS
<1>3. IsFiniteSet({s \in a..b : IsData(t, s)})
  BY <1>1, <1>2, FS_Subset
<1> QED
  BY <1>3, FS_CardinalityType DEF DataIn

\* Two intervals that meet: the bytes add up.
LEMMA DataSplit ==
    ASSUME NEW t, NEW a \in Int, NEW b \in Int, NEW c \in Int, a <= b, b <= c
    PROVE  DataIn(t, a..(c - 1)) = DataIn(t, a..(b - 1)) + DataIn(t, b..(c - 1))
<1> DEFINE S(x, y) == {s \in x..(y - 1) : IsData(t, s)}
<1>1. S(a, c) = S(a, b) \cup S(b, c)
  <2>1. a..(c - 1) = (a..(b - 1)) \cup (b..(c - 1))
    OBVIOUS
  <2> QED
    BY <2>1
<1>2. S(a, b) \cap S(b, c) = {}
  OBVIOUS
<1>3. IsFiniteSet(S(a, b)) /\ IsFiniteSet(S(b, c))
  <2>1. b - 1 \in Int /\ c - 1 \in Int
    OBVIOUS
  <2> QED
    BY <2>1, DataCount
<1>4. /\ Cardinality(S(a, b)) \in Nat /\ Cardinality(S(b, c)) \in Nat
      /\ Cardinality(S(a, b) \cap S(b, c)) = 0
  BY <1>2, <1>3, FS_CardinalityType, FS_EmptySet
<1>5. Cardinality(S(a, c)) = Cardinality(S(a, b)) + Cardinality(S(b, c)) - 0
  <2> HIDE DEF S
  <2> QED
    BY <1>1, <1>3, <1>4, FS_Union
<1> QED
  BY <1>4, <1>5 DEF DataIn

\* Who agrees on the FIN and its number agrees on what is data.
LEMMA DataSame ==
    ASSUME NEW t, NEW u, t.fin = u.fin, t.lbb = u.lbb, NEW S
    PROVE  DataIn(t, S) = DataIn(u, S)
BY DEF DataIn, IsData

\* Without a FIN every number but the SYN's is data.
LEMMA DataAll ==
    ASSUME NEW t, ~t.fin, NEW a \in Int, NEW b \in Int, 1 <= a, a <= b + 1
    PROVE  DataIn(t, a..b) = b - a + 1
<1>1. {s \in a..b : IsData(t, s)} = a..b
  BY DEF IsData
<1>2. Cardinality(a..b) = IF a > b THEN 0 ELSE b - a + 1
  BY FS_Interval, Zenon
<1>3. Cardinality(a..b) = b - a + 1
  BY <1>2
<1> QED
  BY <1>1, <1>3, Zenon DEF DataIn

\* With everything acknowledged, the bytes are all numbers but two.
LEMMA AllAcked ==
    ASSUME NEW t, TxOK(t), SendOK(t), t.fin, t.una = t.lbb
    PROVE  Graceful(t)
<1>1. t.lbb \in Nat /\ 2 <= t.lbb
  BY TxFields DEF SendOK
<1>2. {s \in 0..(t.lbb - 1) : IsData(t, s)} = 1..(t.lbb - 2)
  BY <1>1 DEF IsData
<1>3. Cardinality(1..(t.lbb - 2)) = t.lbb - 2
  BY <1>1, FS_Interval
<1> QED
  BY <1>2, <1>3 DEF SendOK, DataIn, Graceful

-----------------------------------------------------------------------------
(* Functions on the send half.                                             *)

\* What the functions leave alone that move numbers between the queues.
Kept(t, s) ==
    /\ s.una = t.una /\ s.lbb = t.lbb /\ s.fin = t.fin
    /\ s.buf = t.buf /\ s.acked = t.acked

\* Moving numbers keeps the accounts.
LEMMA MovedSend ==
    ASSUME NEW t, NEW s, SendOK(t), Kept(t, s),
           s.unsent \cap s.unacked = {},
           s.unsent \cup s.unacked = t.unsent \cup t.unacked,
           \A x \in s.unacked : x < s.nxt
    PROVE  SendOK(s)
<1>1. \A S : DataIn(s, S) = DataIn(t, S)
  BY DataSame DEF Kept
<1> QED
  BY <1>1 DEF SendOK, Kept

\* tcp_output sends from the unsent queue below its limit.
LEMMA OutputSend ==
    ASSUME NEW t, TxOK(t), NEW all \in BOOLEAN
    PROVE  LET s == tcp_output(t, all)
           IN Kept(t, s) /\ (SendOK(t) => SendOK(s))
<1> DEFINE limit == OutputLimit(t, all)
           sent == {x \in t.unsent : x < limit}
           s == tcp_output(t, all)
<1>1. t \in TxType
  BY DEF TxOK
<1>2. /\ t.una \in 0..SeqMax /\ t.lbb \in 0..SeqMax /\ t.nxt \in 0..SeqMax
      /\ t.wnd \in 0..MaxPeerWnd
      /\ t.unsent \in SUBSET (0..SeqMax) /\ t.unacked \in SUBSET (0..SeqMax)
  BY <1>1 DEF TxType
<1>3. limit \in Nat /\ t.nxt \in Nat
  BY <1>2, ConstantsAssumption DEF OutputLimit, Min2, SeqMax
<1>4. /\ Max2(t.nxt, limit) \in Nat
      /\ \A x \in Nat : x < t.nxt \/ x < limit => x < Max2(t.nxt, limit)
  BY <1>3 DEF Max2
<1>5. /\ Kept(t, s) /\ s.nxt = Max2(t.nxt, limit)
      /\ s.unsent = t.unsent \ sent /\ s.unacked = t.unacked \cup sent
  BY <1>1 DEF tcp_output, Kept, TxType
<1>6. \A x \in t.unsent \cup t.unacked : x \in Nat
  BY TxFields
<1> HIDE DEF limit, s
<1>7. ASSUME SendOK(t)
      PROVE  SendOK(s)
  <2>1. /\ s.unsent \cap s.unacked = {}
        /\ s.unsent \cup s.unacked = t.unsent \cup t.unacked
    BY <1>5, <1>7 DEF SendOK
  <2>2. \A x \in s.unacked : x < s.nxt
    BY <1>4, <1>5, <1>6, <1>7 DEF SendOK
  <2> QED
    BY <1>5, <1>7, <2>1, <2>2, MovedSend
<1> QED
  BY <1>5, <1>7 DEF s

\* tcp_rexmit moves the first unacknowledged number back.
LEMMA RexmitSend ==
    ASSUME NEW t, TxOK(t), SendOK(t)
    PROVE  LET s == tcp_rexmit(t)
           IN Kept(t, s) /\ s.nxt = t.nxt /\ SendOK(s)
<1>1. CASE t.unacked = {}
  BY <1>1 DEF tcp_rexmit, Kept
<1>2. CASE t.unacked # {}
  <2> DEFINE first == CHOOSE x \in t.unacked : \A u \in t.unacked : x <= u
             s == tcp_rexmit(t)
  <2>1. t \in TxType
    BY DEF TxOK
  <2>2. \E x \in t.unacked : \A u \in t.unacked : x <= u
    BY <1>2, TxFields, LeastNumber
  <2>3. first \in t.unacked
    BY <2>2
  <2>4. s = [t EXCEPT !.unacked = t.unacked \ {first},
                      !.unsent = t.unsent \cup {first},
                      !.nrtx = Min2(t.nrtx + 1, MAXRTX)]
    BY <1>2, <2>1 DEF tcp_rexmit, TxType
  <2> HIDE DEF s, first
  <2>5. /\ Kept(t, s) /\ s.nxt = t.nxt
        /\ s.unsent = t.unsent \cup {first} /\ s.unacked = t.unacked \ {first}
    BY <2>1, <2>4 DEF Kept, TxType
  <2>6. /\ s.unsent \cap s.unacked = {}
        /\ s.unsent \cup s.unacked = t.unsent \cup t.unacked
    BY <2>3, <2>5 DEF SendOK
  <2>7. \A x \in s.unacked : x < s.nxt
    BY <2>5 DEF SendOK
  <2>8. SendOK(s)
    BY <2>5, <2>6, <2>7, MovedSend
  <2> QED
    BY <2>5, <2>8 DEF s
<1> QED
  BY <1>1, <1>2

\* ... and so does tcp_rexmit_fast.
LEMMA RexmitFastSend ==
    ASSUME NEW t, TxOK(t), SendOK(t)
    PROVE  LET s == tcp_rexmit_fast(t)
           IN Kept(t, s) /\ s.nxt = t.nxt /\ SendOK(s)
<1> DEFINE u == tcp_rexmit(t)
           s == [u EXCEPT !.infr = TRUE]
<1>1. Kept(t, u) /\ u.nxt = t.nxt /\ SendOK(u) /\ u \in TxType
  BY RexmitSend, RexmitOK DEF TxOK
<1> HIDE DEF u
<1>2. /\ Kept(u, s) /\ s.nxt = u.nxt
      /\ s.unsent = u.unsent /\ s.unacked = u.unacked
  BY <1>1 DEF Kept, TxType
<1> HIDE DEF s
<1>3. SendOK(s)
  BY <1>1, <1>2, MovedSend DEF SendOK
<1>4. Kept(t, s) /\ s.nxt = t.nxt
  BY <1>1, <1>2 DEF Kept
<1>5. tcp_rexmit_fast(t) \in {t, s}
  BY DEF tcp_rexmit_fast, s, u
<1>6. Kept(t, t)
  BY DEF Kept
<1> QED
  BY <1>3, <1>4, <1>5, <1>6

\* tcp_rexmit_rto moves all of them back and sends again.
LEMMA RexmitRtoSend ==
    ASSUME NEW t, TxOK(t), SendOK(t), NEW all \in BOOLEAN
    PROVE  LET s == tcp_rexmit_rto(t, all)
           IN Kept(t, s) /\ SendOK(s)
<1> DEFINE u == [t EXCEPT !.unsent = t.unsent \cup t.unacked,
                          !.unacked = {},
                          !.nrtx = Min2(t.nrtx + 1, MAXRTX)]
<1>1. t \in TxType
  BY DEF TxOK
<1>2. /\ Kept(t, u) /\ u.nxt = t.nxt
      /\ u.unsent = t.unsent \cup t.unacked /\ u.unacked = {}
  BY <1>1 DEF Kept, TxType
<1>3. TxOK(u)
  <2>1. /\ t.nrtx \in 0..MAXRTX
        /\ t.unsent \in SUBSET (0..SeqMax) /\ t.unacked \in SUBSET (0..SeqMax)
    BY <1>1 DEF TxType
  <2>2. Min2(t.nrtx + 1, MAXRTX) \in 0..MAXRTX
    BY <2>1, ConstantsAssumption DEF Min2
  <2>3. u \in TxType
    BY <1>1, <2>1, <2>2 DEF TxType
  <2>4. u.unsent \cup u.unacked = t.unsent \cup t.unacked
    BY <1>2
  <2> HIDE DEF u
  <2> QED
    BY <1>2, <2>3, <2>4 DEF TxOK, Kept
<1> HIDE DEF u
<1>4. SendOK(u)
  BY <1>2, MovedSend
<1>5. Kept(u, tcp_output(u, all)) /\ SendOK(tcp_output(u, all))
  BY <1>3, <1>4, OutputSend
<1>6. tcp_rexmit_rto(t, all) \in {t, tcp_output(u, all)}
  BY <1>1 DEF tcp_rexmit_rto, u, TxType
<1> QED
  BY <1>2, <1>5, <1>6 DEF Kept

\* A probe moves snd_nxt at most.
LEMMA ProbeSend ==
    ASSUME NEW t, TxOK(t), SendOK(t)
    PROVE  LET s == tcp_zero_window_probe(t)
           IN Kept(t, s) /\ SendOK(s)
<1> DEFINE s == [t EXCEPT !.nxt = Max2(t.nxt, t.una + 1)]
<1>1. t \in TxType
  BY DEF TxOK
<1>2. /\ Kept(t, s) /\ s.nxt = Max2(t.nxt, t.una + 1)
      /\ s.unsent = t.unsent /\ s.unacked = t.unacked
  BY <1>1 DEF Kept, TxType
<1> HIDE DEF s
<1>3. \A x \in s.unacked : x < s.nxt
  BY <1>2, TxFields DEF SendOK, Max2
<1>4. SendOK(s)
  BY <1>2, <1>3, MovedSend DEF SendOK
<1>5. tcp_zero_window_probe(t) \in {t, s}
  BY <1>1 DEF tcp_zero_window_probe, s, TxType
<1> QED
  BY <1>2, <1>4, <1>5 DEF Kept

\* The FIN takes a number that is not data.
LEMMA SendFinSend ==
    ASSUME NEW t, TxOK(t), SendOK(t), ~t.fin
    PROVE  SendOK(tcp_send_fin(t)) /\ tcp_send_fin(t).fin
<1> DEFINE s == tcp_send_fin(t)
<1>1. t \in TxType
  BY DEF TxOK
<1>2. /\ s.fin = TRUE /\ s.lbb = t.lbb + 1 /\ s.una = t.una /\ s.nxt = t.nxt
      /\ s.unsent = t.unsent \cup {t.lbb} /\ s.unacked = t.unacked
      /\ s.buf = t.buf /\ s.acked = t.acked
  BY <1>1 DEF tcp_send_fin, TxType
<1> HIDE DEF s
<1>3. /\ t.una \in Nat /\ t.lbb \in Nat /\ t.una <= t.lbb
  BY TxFields
<1>4. /\ t.lbb \notin t.una..(t.lbb - 1)
      /\ t.una..t.lbb = (t.una..(t.lbb - 1)) \cup {t.lbb}
      /\ s.lbb - 1 = t.lbb
  BY <1>2, <1>3
<1>5. /\ s.unsent \cap s.unacked = {}
      /\ s.unsent \cup s.unacked = s.una..(s.lbb - 1)
  BY <1>2, <1>4 DEF SendOK
<1>6. DataIn(s, s.una..(s.lbb - 1)) = DataIn(t, t.una..(t.lbb - 1))
  <2>1. {x \in t.una..t.lbb : IsData(s, x)} = {x \in t.una..(t.lbb - 1) : IsData(t, x)}
    BY <1>2, <1>3, <1>4 DEF IsData
  <2> QED
    BY <1>2, <1>4, <2>1 DEF DataIn
<1>7. DataIn(s, 0..(s.una - 1)) = DataIn(t, 0..(t.una - 1))
  <2>1. {x \in 0..(t.una - 1) : IsData(s, x)} = {x \in 0..(t.una - 1) : IsData(t, x)}
    BY <1>2, <1>3, <1>4 DEF IsData
  <2> QED
    BY <1>2, <2>1 DEF DataIn
<1>8. 2 <= s.lbb /\ 1 <= s.lbb
  BY <1>2, <1>3 DEF SendOK
<1> QED
  BY <1>2, <1>5, <1>6, <1>7, <1>8 DEF SendOK, s

\* tcp_write takes as much of snd_buf as it queues.
LEMMA QueuedSend ==
    ASSUME NEW t, TxOK(t), SendOK(t), ~t.fin, NEW n \in Nat, 1 <= n
    PROVE  /\ SendOK(Queued(t, n))
           /\ Queued(t, n).una = t.una /\ Queued(t, n).fin = t.fin
           /\ Queued(t, n).lbb = t.lbb + n /\ Queued(t, n).acked = t.acked
<1> DEFINE s == Queued(t, n)
           new == t.lbb..(t.lbb + n - 1)
<1>1. t \in TxType
  BY DEF TxOK
<1>2. /\ s.fin = t.fin /\ s.una = t.una /\ s.nxt = t.nxt /\ s.lbb = t.lbb + n
      /\ s.unsent = t.unsent \cup new /\ s.unacked = t.unacked
      /\ s.buf = t.buf - n /\ s.acked = t.acked
  BY <1>1 DEF Queued, TxType
<1> HIDE DEF s
<1>3. /\ t.una \in Nat /\ t.lbb \in Nat /\ t.una <= t.lbb /\ t.buf \in Int
      /\ 1 <= t.lbb
  BY TxFields DEF SendOK
<1>4. /\ \A x \in new : x \notin t.una..(t.lbb - 1)
      /\ s.una..(s.lbb - 1) = (t.una..(t.lbb - 1)) \cup new
  BY <1>2, <1>3
<1> HIDE DEF new
<1>5. /\ s.unsent \cap s.unacked = {}
      /\ s.unsent \cup s.unacked = s.una..(s.lbb - 1)
  BY <1>2, <1>4 DEF SendOK
<1>6. \A S : DataIn(s, S) = DataIn(t, S)
  BY <1>2 DEF DataIn, IsData
<1>7. s.buf + DataIn(s, s.una..(s.lbb - 1)) = SND_BUF
  <2>1. DataIn(t, t.una..(t.lbb + n - 1))
            = DataIn(t, t.una..(t.lbb - 1)) + DataIn(t, t.lbb..(t.lbb + n - 1))
    <3> DEFINE m == t.lbb + n
    <3>1. /\ t.una \in Int /\ t.lbb \in Int /\ m \in Int
          /\ t.una <= t.lbb /\ t.lbb <= m /\ m - 1 = t.lbb + n - 1
      BY <1>3
    <3> HIDE DEF m
    <3>2. DataIn(t, t.una..(m - 1))
              = DataIn(t, t.una..(t.lbb - 1)) + DataIn(t, t.lbb..(m - 1))
      BY <3>1, DataSplit
    <3> QED
      BY <3>1, <3>2, Zenon
  <2>2. DataIn(t, t.lbb..(t.lbb + n - 1)) = n
    <3>1. /\ t.lbb \in Int /\ t.lbb + n - 1 \in Int /\ t.lbb <= (t.lbb + n - 1) + 1
          /\ (t.lbb + n - 1) - t.lbb + 1 = n
      BY <1>3
    <3>2. DataIn(t, t.lbb..(t.lbb + n - 1)) = (t.lbb + n - 1) - t.lbb + 1
      BY <1>3, <3>1, DataAll, Zenon
    <3> QED
      BY <3>1, <3>2, Zenon
  <2>3. DataIn(t, t.una..(t.lbb - 1)) \in Nat
    <3>1. t.una \in Int /\ t.lbb - 1 \in Int
      BY <1>3
    <3> QED
      BY <3>1, DataCount, Zenon
  <2> QED
    BY <1>2, <1>3, <1>6, <2>1, <2>2, <2>3 DEF SendOK
<1>8. s.acked = DataIn(s, 0..(s.una - 1)) /\ 1 <= s.lbb
  BY <1>2, <1>3, <1>6 DEF SendOK
<1> QED
  BY <1>2, <1>5, <1>7, <1>8 DEF SendOK, s

\* An acknowledgement moves bytes from the queues to what is reported.
LEMMA AckSend ==
    ASSUME NEW t, TxOK(t), SendOK(t), NEW ackno \in 0..t.nxt,
           NEW w \in OldWnd..MaxPeerWnd, NEW dup \in BOOLEAN
    PROVE  LET s == AckReceived(t, ackno, w, dup)
           IN /\ SendOK(s) /\ s.lbb = t.lbb /\ s.fin = t.fin
              /\ t.una = t.lbb => s.una = s.lbb
              /\ FinAcked(s, ackno) => s.una = s.lbb
<1> DEFINE u == WindowUpdate(t, w)
           below == Below(t, ackno)
           bytes == Cardinality({x \in below : IsData(t, x)})
           s == AckReceived(t, ackno, w, dup)
<1>1. t \in TxType
  BY DEF TxOK
<1>2. /\ t.una \in Nat /\ t.lbb \in Nat /\ t.nxt \in Nat
      /\ t.una <= t.lbb /\ t.nxt <= t.lbb /\ t.buf \in Int
      /\ ackno \in Nat /\ ackno <= t.lbb
  BY TxFields
<1>3. /\ Kept(t, u) /\ u.nxt = t.nxt /\ u \in TxType
      /\ u.unsent = t.unsent /\ u.unacked = t.unacked
  <2>1. CASE w = OldWnd
    BY <1>1, <2>1 DEF WindowUpdate, Kept
  <2>2. CASE w # OldWnd
    <3>1. w \in 0..MaxPeerWnd
      BY <2>2, ConstantsAssumption DEF OldWnd
    <3> QED
      BY <1>1, <2>2, <3>1 DEF WindowUpdate, Kept, TxType
  <2> QED
    BY <2>1, <2>2
<1> HIDE DEF u
<1>4. SendOK(u)
  BY <1>3, MovedSend DEF SendOK
<1>5. TxOK(s)
  BY AckOK
<1>6. /\ SendOK(s) /\ s.lbb = t.lbb /\ s.fin = t.fin /\ s.nxt = t.nxt
      /\ s.una = IF ackno > t.una THEN ackno ELSE t.una
  <2>1. CASE ackno > t.una
    <3>1. below = t.una..(ackno - 1)
      BY <1>2 DEF SendOK, Below
    <3>2. bytes = DataIn(t, t.una..(ackno - 1))
      BY <3>1 DEF DataIn
    <3> HIDE DEF bytes, below
    <3>3. s = [u EXCEPT !.una = ackno,
                        !.unacked = u.unacked \ below,
                        !.unsent = u.unsent \ below,
                        !.nrtx = 0,
                        !.infr = FALSE,
                        !.buf = u.buf + bytes,
                        !.acked = u.acked + bytes]
      BY <1>3, <2>1 DEF AckReceived, TxType, u, bytes, below
    <3> HIDE DEF s
    <3>4. /\ s.una = ackno /\ s.lbb = t.lbb /\ s.fin = t.fin /\ s.nxt = t.nxt
          /\ s.unacked = t.unacked \ below /\ s.unsent = t.unsent \ below
          /\ s.buf = t.buf + bytes /\ s.acked = t.acked + bytes
      BY <1>3, <3>3 DEF TxType, Kept
    <3>5. \A S : DataIn(s, S) = DataIn(t, S)
      BY <3>4, DataSame
    <3>6. /\ DataIn(t, t.una..(t.lbb - 1)) = bytes + DataIn(t, ackno..(t.lbb - 1))
          /\ DataIn(t, 0..(ackno - 1)) = DataIn(t, 0..(t.una - 1)) + bytes
      BY <1>2, <2>1, <3>2, DataSplit
    <3>7. bytes \in Nat /\ DataIn(t, ackno..(t.lbb - 1)) \in Nat
      <4>1. ackno - 1 \in Int /\ t.lbb - 1 \in Int /\ t.una \in Int /\ ackno \in Int
        BY <1>2
      <4> QED
        BY <3>2, <4>1, DataCount, Zenon
    <3>8. s.unsent \cup s.unacked = ackno..(t.lbb - 1)
      <4>1. (t.una..(t.lbb - 1)) \ (t.una..(ackno - 1)) = ackno..(t.lbb - 1)
        BY <1>2, <2>1
      <4>2. s.unsent \cup s.unacked = (t.unsent \cup t.unacked) \ below
        BY <3>4
      <4> QED
        BY <3>1, <4>1, <4>2 DEF SendOK
    <3>9. s.unsent \cap s.unacked = {} /\ \A x \in s.unacked : x < s.nxt
      BY <3>4 DEF SendOK
    <3>10. s.buf + DataIn(s, s.una..(s.lbb - 1)) = SND_BUF
      BY <1>2, <3>4, <3>5, <3>6, <3>7 DEF SendOK
    <3>11. s.acked = DataIn(s, 0..(s.una - 1))
      BY <3>4, <3>5, <3>6 DEF SendOK
    <3> QED
      BY <2>1, <3>4, <3>8, <3>9, <3>10, <3>11 DEF SendOK
  <2>2. CASE ~(ackno > t.una)
    <3>1. TxOK(u)
      BY <1>3 DEF TxOK, Kept
    <3>2. /\ Kept(u, tcp_rexmit_fast(u)) /\ tcp_rexmit_fast(u).nxt = u.nxt
          /\ SendOK(tcp_rexmit_fast(u))
      BY <1>4, <3>1, RexmitFastSend
    <3>3. s \in {u, tcp_rexmit_fast(u)}
      BY <2>2 DEF AckReceived, u
    <3> HIDE DEF s
    <3> QED
      BY <1>3, <1>4, <2>2, <3>2, <3>3 DEF Kept
  <2> QED
    BY <2>1, <2>2
<1> HIDE DEF s
<1>7. t.una = t.lbb => s.una = s.lbb
  BY <1>2, <1>6
<1>8. FinAcked(s, ackno) => s.una = s.lbb
  <2> SUFFICES ASSUME FinAcked(s, ackno)
               PROVE  s.una = s.lbb
    OBVIOUS
  <2>1. s.unsent = {} /\ \A x \in s.unacked : x < s.una
    <3>1. \A x \in s.unacked : x \in Nat /\ x < ackno
      BY <1>5, <1>6, TxFields DEF FinAcked, SendOK
    <3>2. \A x \in s.unacked : x < s.una
      BY <1>2, <1>6, <3>1
    <3> QED
      BY <3>2 DEF FinAcked
  <2>2. s.una \notin s.una..(s.lbb - 1)
    <3>1. s.una..(s.lbb - 1) = s.unacked
      BY <1>6, <2>1 DEF SendOK
    <3>2. s.una \in Nat /\ ~(s.una < s.una)
      <4>1. s.una \in Nat
        BY <1>5, TxFields
      <4> QED
        BY <4>1
    <3> QED
      BY <2>1, <3>1, <3>2, Zenon
  <2> QED
    BY <1>5, <2>2, TxFields
<1> QED
  BY <1>6, <1>7, <1>8 DEF s

-----------------------------------------------------------------------------
(* Functions on the state of the connection.                               *)

\* Replacing the send half by one with the same numbers.
LEMMA SetTxSound ==
    ASSUME NEW p, POK(p), Sound(p), NEW t, t \in TxType, Kept(p.tx, t),
           p.state \in Live => SendOK(t)
    PROVE  Sound([p EXCEPT !.tx = t])
<1> DEFINE q == [p EXCEPT !.tx = t]
<1>1. p \in PType
  BY DEF POK, Base
<1>2. /\ q.state = p.state /\ q.tx = t /\ q.conn = p.conn
      /\ q.err = p.err /\ q.rst = p.rst
  BY <1>1 DEF PType
<1> HIDE DEF q
<1>3. Sound(q)
  BY <1>2 DEF Sound, Kept, Graceful
<1> QED
  BY <1>3 DEF q

\* tcp_output as a step of a handler.
LEMMA OutputSound ==
    ASSUME NEW p, POK(p), Sound(p), NEW all \in BOOLEAN
    PROVE  Sound(Output(p, all))
<1>1. p \in PType /\ TxOK(p.tx)
  BY DEF POK, Base
<1>2. /\ Kept(p.tx, tcp_output(p.tx, all))
      /\ SendOK(p.tx) => SendOK(tcp_output(p.tx, all))
      /\ tcp_output(p.tx, all) \in TxType
  BY <1>1, OutputSend, OutputOK DEF TxOK
<1>3. Sound([p EXCEPT !.tx = tcp_output(p.tx, all)])
  BY <1>2, SetTxSound DEF Sound
<1> QED
  BY <1>1, <1>3 DEF Output, PType

\* What a handler does to the receive half and to the time does not matter.
LEMMA SameSound ==
    ASSUME NEW p, Sound(p), NEW q, q.state = p.state, q.tx = p.tx,
           q.conn.rxclosed = p.conn.rxclosed, q.err = p.err,
           p.rst => q.rst
    PROVE  Sound(q)
BY DEF Sound

\* A freed pcb keeps its numbers, and what was told stays told.
LEMMA FreePcbFields ==
    ASSUME NEW p, Base(p)
    PROVE  /\ FreePcb(p).state = "FREED" /\ FreePcb(p).conn = p.conn
           /\ FreePcb(p).err = p.err /\ FreePcb(p).rst = p.rst
           /\ FreePcb(p).tx = PurgeTx(p.tx)
           /\ Graceful(p.tx) => Graceful(FreePcb(p).tx)
<1>1. p \in PType /\ p.tx \in TxType
  BY DEF Base, TxOK
<1>2. /\ FreePcb(p).state = "FREED" /\ FreePcb(p).conn = p.conn
      /\ FreePcb(p).err = p.err /\ FreePcb(p).rst = p.rst
      /\ FreePcb(p).tx = PurgeTx(p.tx)
  BY <1>1 DEF FreePcb, Purge, PType
<1>3. Graceful(p.tx) => Graceful(PurgeTx(p.tx))
  BY <1>1 DEF Graceful, PurgeTx, TxType
<1> QED
  BY <1>2, <1>3

\* Report tells the delegate e, or nobody.
LEMMA ReportFields ==
    ASSUME NEW p, Base(p), NEW e \in Errs
    PROVE  /\ Report(p, e).err \in {e, "unset"}
           /\ Report(p, e).rst = p.rst
<1>1. p \in PType
  BY DEF Base
<1> QED
  BY <1>1 DEF Report, PType

\* A pcb that is freed with a word is Sound.
LEMMA ToldSound ==
    ASSUME NEW q, q.state = "FREED", q.err \in {"ERR_RST", "ERR_ABRT", "unset"}
    PROVE  Sound(q)
BY DEF Sound, Live, Closing

\* tcp_abort tells, except from TIME_WAIT.
LEMMA AbortSound ==
    ASSUME NEW p, Base(p), p.err # "ERR_CLSD",
           p.state = "TIME_WAIT" => p.conn.rxclosed /\ (p.rst \/ Graceful(p.tx))
    PROVE  Sound(tcp_abort(p))
<1> DEFINE z == FreePcb(p)
           q == [z EXCEPT !.rst = TRUE]
           r == Report(q, "ERR_ABRT")
<1>1. /\ z.state = "FREED" /\ z.conn = p.conn /\ z.err = p.err /\ z.rst = p.rst
      /\ Graceful(p.tx) => Graceful(z.tx)
      /\ POK(z)
  BY FreePcbFields, FreePcbPOK
<1> HIDE DEF z
<1>2. CASE p.state = "TIME_WAIT"
  <2>1. Sound(z)
    BY <1>1, <1>2 DEF Sound, Live, Closing
  <2> QED
    BY <1>2, <2>1 DEF tcp_abort, z
<1>3. CASE p.state # "TIME_WAIT"
  <2>1. POK(q) /\ q.state = "FREED"
    <3>1. z \in PType
      BY <1>1 DEF POK, Base
    <3>2. q.state = "FREED"
      BY <1>1, <3>1 DEF PType
    <3> QED
      BY <1>1, <3>2, SetRst
  <2>2. "ERR_ABRT" \in Errs
    BY DEF Errs
  <2> HIDE DEF q
  <2>3. r.state = "FREED" /\ r.err \in {"ERR_ABRT", "unset"}
    BY <2>1, <2>2, ReportBase, ReportFields DEF POK
  <2> HIDE DEF r
  <2>4. Sound(r)
    BY <2>3, ToldSound
  <2> QED
    BY <1>3, <2>4 DEF tcp_abort, r, q, z
<1> QED
  BY <1>2, <1>3

\* tcp_close_shutdown_fin: the FIN gets its number when the state says so.
LEMMA ShutdownFinSound ==
    ASSUME NEW p, POK(p), Sound(p), p.conn.rxclosed,
           NEW ok \in BOOLEAN, NEW all \in BOOLEAN
    PROVE  Sound(tcp_close_shutdown_fin(p, ok, all))
<1> DEFINE f == tcp_send_fin(p.tx)
           t == tcp_output(f, all)
           st == IF p.state = "CLOSE_WAIT" THEN "LAST_ACK" ELSE "FIN_WAIT_1"
           q == [p EXCEPT !.tx = t, !.state = st]
           w == [p EXCEPT !.conn.closepend = TRUE]
<1>1. p \in PType /\ p.conn \in ConnType /\ TxOK(p.tx)
  BY DEF POK, Base, PType
<1>2. CASE p.state \notin Writable
  BY <1>2 DEF tcp_close_shutdown_fin
<1>3. CASE p.state \in Writable /\ (ok \/ p.tx.unsent # {})
  <2>1. SendOK(p.tx) /\ ~p.tx.fin
    BY <1>3 DEF Sound, POK, Writable, Live
  <2>2. TxOK(f) /\ SendOK(f) /\ f.fin
    BY <1>1, <2>1, SendFinOK, SendFinSend
  <2> HIDE DEF f
  <2>3. TxOK(t) /\ SendOK(t) /\ t.fin
    BY <2>2, OutputOK, OutputSend DEF Kept
  <2> HIDE DEF t
  <2>4. q.state = st /\ q.tx = t /\ q.conn = p.conn /\ q.err = p.err
    BY <1>1, <2>3 DEF PType
  <2>5. tcp_close_shutdown_fin(p, ok, all) = q
    BY <1>1, <1>3 DEF tcp_close_shutdown_fin, q, t, f, PType
  <2> HIDE DEF q
  <2>6. Sound(q)
    BY <2>3, <2>4 DEF Sound, Closing
  <2> QED
    BY <2>5, <2>6
<1>4. CASE p.state \in Writable /\ ~(ok \/ p.tx.unsent # {})
  <2>1. /\ w.state = p.state /\ w.tx = p.tx /\ w.conn.rxclosed = p.conn.rxclosed
        /\ w.err = p.err /\ w.rst = p.rst
    BY <1>1 DEF PType, ConnType
  <2>2. tcp_close_shutdown_fin(p, ok, all) = w
    BY <1>4 DEF tcp_close_shutdown_fin
  <2> HIDE DEF w
  <2>3. Sound(w)
    BY <2>1, SameSound
  <2> QED
    BY <2>2, <2>3
<1> QED
  BY <1>2, <1>3, <1>4

\* tcp_close: a RST for unread data, else a FIN.
LEMMA CloseSound ==
    ASSUME NEW p, POK(p), Sound(p), NEW ok \in BOOLEAN, NEW all \in BOOLEAN
    PROVE  Sound(tcp_close(p, ok, all))
<1> DEFINE c == [p.conn EXCEPT !.rxclosed = TRUE]
           q == [p EXCEPT !.conn = c]
           z == Purge(q)
           s == [z EXCEPT !.rst = TRUE,
                          !.state = IF z.state = "ESTABLISHED" THEN "TIME_WAIT"
                                                               ELSE "FREED"]
<1>1. p \in PType /\ p.conn \in ConnType
  BY DEF POK, Base, PType
<1>2. c \in ConnType /\ c.rxclosed
  BY <1>1 DEF ConnType
<1>3. /\ q \in PType /\ q.state = p.state /\ q.rx = p.rx /\ q.tx = p.tx
      /\ q.conn = c /\ q.err = p.err /\ q.rst = p.rst
  BY <1>1, <1>2 DEF PType
<1>4. POK(q)
  BY <1>2, <1>3 DEF POK, Base
<1>5. q = [p EXCEPT !.conn.rxclosed = TRUE]
  BY <1>1 DEF PType, ConnType
<1> HIDE DEF q, c
<1>6. Sound(q)
  BY <1>2, <1>3 DEF Sound
<1>7. Sound(tcp_close_shutdown_fin(q, ok, all))
  BY <1>2, <1>3, <1>4, <1>6, ShutdownFinSound
<1>8. Sound(s)
  <2>1. z \in PType /\ z.conn = c /\ z.err = p.err
    <3>1. z \in PType /\ z.conn = c
      BY <1>3, <1>4, PurgeBase DEF POK, Base
    <3>2. z.err = q.err
      BY <1>3 DEF Purge, PType
    <3> QED
      BY <1>3, <3>1, <3>2
  <2> HIDE DEF z
  <2>2. /\ s.state \in {"TIME_WAIT", "FREED"} /\ s.rst = TRUE
        /\ s.conn = c /\ s.err = p.err
    BY <2>1 DEF PType
  <2> HIDE DEF s
  <2> QED
    BY <1>2, <2>2 DEF Sound, Live, Closing
<1>9. tcp_close(p, ok, all) \in {s, tcp_close_shutdown_fin(q, ok, all)}
  BY <1>5 DEF tcp_close
<1> QED
  BY <1>7, <1>8, <1>9

\* What a handler does behind the change of state: the queues move, the receive half
\* and the time do not matter.
LEMMA MovedSound ==
    ASSUME NEW q, NEW v, Sound(q), v.state = q.state, v.conn = q.conn,
           v.err = q.err, v.rst = q.rst, Kept(q.tx, v.tx),
           q.state \in Live => SendOK(v.tx)
    PROVE  Sound(v)
BY DEF Sound, Kept, Graceful

-----------------------------------------------------------------------------
(* Segments.                                                               *)

\* A segment that tcp_process accepts: a FIN counts as acknowledged only with all in
\* front of it.
LEMMA ReceiveSound ==
    ASSUME NEW p, POK(p), Sound(p), p.state \in Live, NEW seg, SegOK(seg, p),
           NEW all \in BOOLEAN, NEW g \in FreedReads
    PROVE  Sound(Receive(p, seg, all, g))
<1> DEFINE t == AckReceived(p.tx, seg.ackno, seg.w, seg.dup)
           accepts == p.state \in Receiving \cup {"SYN_RCVD"}
           k == IF accepts THEN TrimmedLen(p.rx, seg.k) ELSE 0
           f == accepts /\ TrimmedFin(p.rx, seg.k, seg.f)
           acked == FinAcked(t, seg.ackno)
           st == StateAfter(p.state, f, acked)
           c == [p.conn EXCEPT !.open = TRUE]
           received == [p EXCEPT !.tx = t, !.state = st, !.conn = c]
           q == IF st = "TIME_WAIT" THEN Purge(received) ELSE received
           r == AcceptInSequence(q.rx, p.conn, k, f, g)
           s == [q EXCEPT !.rx = r]
<1>1. p \in PType /\ p.conn \in ConnType /\ TxOK(p.tx) /\ SendOK(p.tx)
  BY DEF POK, Base, PType, Sound
<1>2. /\ TxOK(t) /\ SendOK(t) /\ t.fin = p.tx.fin
      /\ p.tx.una = p.tx.lbb => t.una = t.lbb
      /\ acked => t.una = t.lbb
  BY <1>1, AckOK, AckSend DEF SegOK
<1>3. f \in BOOLEAN /\ acked \in BOOLEAN
  BY DEF TrimmedFin, FinAcked, SegOK
<1>4. /\ c \in ConnType
      /\ c.closepend = p.conn.closepend /\ c.rxclosed = p.conn.rxclosed
  BY <1>1 DEF ConnType
<1> HIDE DEF t, k, f, acked, c
<1>5. /\ st \in States \cup {"CLOSED"}
      /\ st \in Closing => p.state \in Closing
      /\ st = "FIN_WAIT_2" => p.state = "FIN_WAIT_2" \/ acked
      /\ st = "TIME_WAIT" => /\ p.state \in Closing
                             /\ p.state = "FIN_WAIT_2" \/ acked
      /\ st = "CLOSED" => p.state = "LAST_ACK" /\ acked
      /\ st # "FREED"
  BY <1>3 DEF StateAfter, States, Live, Receiving, Closing
<1> HIDE DEF st
<1>6. /\ received \in PType /\ received.state = st /\ received.rx = p.rx
      /\ received.tx = t /\ received.conn = c
      /\ received.err = p.err /\ received.rst = p.rst
  BY <1>1, <1>2, <1>4, <1>5 DEF PType, TxOK
<1>7. received = [p EXCEPT !.tx = t, !.state = st, !.conn.open = TRUE]
  BY <1>1 DEF c, PType, ConnType
<1> HIDE DEF received
<1>8. Base(received)
  BY <1>1, <1>2, <1>4, <1>6 DEF Base, POK
<1>9. st \in {"TIME_WAIT", "CLOSED"} => p.conn.rxclosed /\ Graceful(t)
  <2>1. p.state \in Closing => p.conn.rxclosed /\ p.tx.fin
    BY DEF POK, Sound
  <2>2. p.state = "FIN_WAIT_2" => p.tx.una = p.tx.lbb
    BY DEF Sound
  <2> QED
    BY <1>2, <1>5, <2>1, <2>2, AllAcked DEF Closing
<1>10. /\ Base(q) /\ q.state = st /\ q.conn = c
       /\ q.err = p.err /\ q.rst = p.rst
       /\ st = "TIME_WAIT" => Graceful(q.tx)
       /\ st # "TIME_WAIT" => q.tx = t
  <2>1. CASE st = "TIME_WAIT"
    <3>1. q = Purge(received)
      BY <2>1
    <3>2. Base(q) /\ q.state = st /\ q.conn = c /\ q.tx = PurgeTx(t)
      BY <1>6, <1>8, <3>1, PurgeBase
    <3>3. q.err = p.err /\ q.rst = p.rst
      BY <1>6, <3>1 DEF Purge, PType
    <3>4. Graceful(PurgeTx(t))
      BY <1>2, <1>9, <2>1 DEF Graceful, PurgeTx, TxOK, TxType
    <3> QED
      BY <2>1, <3>2, <3>3, <3>4
  <2>2. CASE st # "TIME_WAIT"
    BY <1>6, <1>8, <2>2
  <2> QED
    BY <2>1, <2>2
<1> HIDE DEF q
<1>11. p.err # "ERR_CLSD"
  BY DEF Sound
<1>12. CASE st = "CLOSED"
  <2>1. Receive(p, seg, all, g) = FreePcb(q)
    BY <1>7, <1>9, <1>12 DEF Receive, t, f, k, st, acked, q
  <2>2. /\ FreePcb(q).state = "FREED" /\ FreePcb(q).conn = c
        /\ FreePcb(q).err = p.err /\ Graceful(FreePcb(q).tx)
    BY <1>9, <1>10, <1>12, FreePcbFields
  <2>3. Sound(FreePcb(q))
    BY <1>4, <1>9, <1>11, <1>12, <2>2 DEF Sound, Live, Closing
  <2> QED
    BY <2>1, <2>3
<1>13. CASE st # "CLOSED" /\ AfterClose(p, k)
  <2>1. Sound(tcp_abort(q))
    BY <1>4, <1>9, <1>10, <1>11, AbortSound
  <2>2. Receive(p, seg, all, g) = tcp_abort(q)
    BY <1>7, <1>13 DEF Receive, t, f, k, st, acked, q
  <2> QED
    BY <2>1, <2>2
<1>14. CASE st # "CLOSED" /\ ~AfterClose(p, k)
  <2>1. Sound(q)
    <3>1. st \in Live => SendOK(q.tx) /\ st # "TIME_WAIT"
      BY <1>2, <1>10 DEF Live
    <3>2. st \in Closing => q.tx.fin
      BY <1>2, <1>5, <1>10 DEF Sound, Closing
    <3>3. st = "FIN_WAIT_2" => q.tx.una = q.tx.lbb
      BY <1>2, <1>5, <1>10 DEF Sound
    <3> QED
      BY <1>4, <1>5, <1>9, <1>10, <1>11, <3>1, <3>2, <3>3 DEF Sound
  <2> DEFINE v == Output(s, all)
  <2>2. q \in PType /\ TxOK(q.tx)
    BY <1>10 DEF Base
  <2> HIDE DEF r
  <2>3. /\ v.state = q.state /\ v.conn = q.conn /\ v.err = q.err /\ v.rst = q.rst
        /\ v.tx = tcp_output(q.tx, all)
    BY <2>2 DEF Output, PType
  <2>4. Receive(p, seg, all, g) = v
    BY <1>7, <1>10, <1>14, SMTT(30) DEF Receive, t, f, k, st, acked, q, s, r, Base, PType
  <2> HIDE DEF v
  <2>5. /\ Kept(q.tx, v.tx)
        /\ SendOK(q.tx) => SendOK(v.tx)
    BY <2>2, <2>3, OutputSend
  <2>6. Sound(v)
    BY <2>1, <2>3, <2>5, MovedSound DEF Sound
  <2> QED
    BY <2>4, <2>6
<1> QED
  BY <1>12, <1>13, <1>14

\* Activity resets pcb->tmr and nothing else.
LEMMA RefreshSound ==
    ASSUME NEW p, POK(p), Sound(p)
    PROVE  Sound(Refresh(p))
<1>1. /\ Refresh(p).state = p.state /\ Refresh(p).tx = p.tx
      /\ Refresh(p).conn = p.conn /\ Refresh(p).err = p.err
      /\ Refresh(p).rst = p.rst
  BY DEF Refresh, POK, Base, PType
<1> QED
  BY <1>1, SameSound

\* A RST that is sent hides no end.
LEMMA RstSound ==
    ASSUME NEW p, POK(p), Sound(p), NEW b \in BOOLEAN
    PROVE  Sound([p EXCEPT !.rst = p.rst \/ b])
<1> DEFINE q == [p EXCEPT !.rst = p.rst \/ b]
<1>1. /\ q.state = p.state /\ q.tx = p.tx /\ q.conn = p.conn /\ q.err = p.err
      /\ q.rst = (p.rst \/ b)
  BY DEF POK, Base, PType
<1> HIDE DEF q
<1>2. Sound(q)
  BY <1>1, SameSound
<1> QED
  BY <1>2 DEF q

\* An acceptable RST is reported.
LEMMA ResetSound ==
    ASSUME NEW p, POK(p)
    PROVE  Sound(Reset(p))
<1>1. "ERR_RST" \in Errs
  BY DEF Errs
<1>2. Base(Report(p, "ERR_RST")) /\ Report(p, "ERR_RST").err \in {"ERR_RST", "unset"}
  BY <1>1, ReportBase, ReportFields DEF POK
<1>3. Reset(p).state = "FREED" /\ Reset(p).err \in {"ERR_RST", "unset"}
  BY <1>2, FreePcbFields DEF Reset
<1> QED
  BY <1>3, ToldSound

\* tcp_process during the handshake.
LEMMA SynReceivedSound ==
    ASSUME NEW p, POK(p), Sound(p), p.state \in Live, NEW seg, SegOK(seg, p),
           NEW all \in BOOLEAN, NEW g \in FreedReads
    PROVE  Sound(SynReceived(p, seg, all, g))
<1>0. p \in PType /\ p.rst \in BOOLEAN /\ TxOK(p.tx) /\ SendOK(p.tx)
  BY DEF POK, Base, PType, Sound
<1>1. Sound(Receive(p, seg, all, g))
  BY ReceiveSound
<1>2. Sound(Output([p EXCEPT !.rst = TRUE], all))
  <2>1. POK([p EXCEPT !.rst = TRUE])
    BY SetRst
  <2>2. Sound([p EXCEPT !.rst = p.rst \/ TRUE])
    BY RstSound
  <2>3. (p.rst \/ TRUE) = TRUE
    OBVIOUS
  <2> QED
    BY <2>1, <2>2, <2>3, OutputSound
<1>3. Sound(Output(p, all))
  BY OutputSound
<1>4. Sound(Output([p EXCEPT !.tx = tcp_rexmit(@)], all))
  <2>1. TxOK(tcp_rexmit(p.tx)) /\ tcp_rexmit(p.tx).fin = p.tx.fin
    BY RexmitOK, <1>0
  <2>2. Kept(p.tx, tcp_rexmit(p.tx)) /\ SendOK(tcp_rexmit(p.tx))
    BY <1>0, RexmitSend
  <2>3. /\ POK([p EXCEPT !.tx = tcp_rexmit(p.tx)])
        /\ Sound([p EXCEPT !.tx = tcp_rexmit(p.tx)])
    BY <2>1, <2>2, SetTx, SetTxSound DEF TxOK
  <2>4. [p EXCEPT !.tx = tcp_rexmit(@)] = [p EXCEPT !.tx = tcp_rexmit(p.tx)]
    BY <1>0 DEF PType
  <2> QED
    BY <2>3, <2>4, OutputSound
<1> QED
  BY <1>1, <1>2, <1>3, <1>4 DEF SynReceived

\* tcp_process in any state.
LEMMA ProcessSound ==
    ASSUME NEW p, POK(p), Sound(p), p.state \in Live, NEW seg, SegOK(seg, p),
           NEW all \in BOOLEAN, NEW g \in FreedReads
    PROVE  Sound(tcp_process(p, seg, all, g))
<1> DEFINE q == IF p.conn.rxclosed THEN p ELSE Refresh(p)
<1>1. /\ POK(q) /\ Sound(q) /\ q.state = p.state /\ q.rx = p.rx /\ q.tx = p.tx
  BY RefreshPOK, RefreshSound
<1>2. SegOK(seg, q)
  BY <1>1 DEF SegOK
<1> HIDE DEF q
<1>3. Sound(Reset(p)) /\ Sound(Output(p, all))
  BY ResetSound, OutputSound
<1>4. Sound(SynReceived(q, seg, all, g))
  BY <1>1, <1>2, SynReceivedSound
<1>5. Sound(Receive(q, seg, all, g))
  BY <1>1, <1>2, ReceiveSound
<1> QED
  BY <1>3, <1>4, <1>5 DEF tcp_process, q

\* tcp_timewait_input may send a RST or restart the wait.
LEMMA TimewaitSound ==
    ASSUME NEW p, POK(p), Sound(p), NEW seg, seg.exact \in BOOLEAN
    PROVE  Sound(tcp_timewait_input(p, seg))
<1>1. Sound([p EXCEPT !.rst = p.rst \/ seg.exact])
  BY RstSound
<1>2. Sound([p EXCEPT !.rst = @ \/ seg.exact])
  BY <1>1 DEF POK, Base, PType
<1> QED
  BY <1>2, RefreshSound DEF tcp_timewait_input

\* Refused data that is offered again.
LEMMA RefusedSound ==
    ASSUME NEW p, POK(p), Sound(p), NEW r
    PROVE  Sound([p EXCEPT !.rx = r])
<1> DEFINE q == [p EXCEPT !.rx = r]
<1>1. /\ q.state = p.state /\ q.tx = p.tx /\ q.conn = p.conn /\ q.err = p.err
      /\ q.rst = p.rst
  BY DEF POK, Base, PType
<1> HIDE DEF q
<1>2. Sound(q)
  BY <1>1, SameSound
<1> QED
  BY <1>2 DEF q

\* tcp_input.
LEMMA InputSound ==
    ASSUME NEW p, POK(p), Sound(p), NEW seg \in Segments(p), NEW all \in BOOLEAN,
           NEW g \in FreedReads
    PROVE  Sound(tcp_input(p, seg, all, g))
<1> DEFINE r == tcp_process_refused_data(p.rx, p.conn, g)
           q == [p EXCEPT !.rx = r]
<1>1. /\ p \in PType /\ p.state \in States /\ p.rst \in BOOLEAN
  BY DEF POK, Base, PType
<1>2. CASE p.state = "FREED"
  <2>1. Sound([p EXCEPT !.rst = p.rst \/ seg.kind # "RST"])
    BY RstSound
  <2>2. tcp_input(p, seg, all, g) = [p EXCEPT !.rst = p.rst \/ seg.kind # "RST"]
    BY <1>1, <1>2 DEF tcp_input, PType
  <2> QED
    BY <2>1, <2>2
<1>3. CASE p.state = "TIME_WAIT"
  BY <1>3, SegmentOK, TimewaitSound DEF tcp_input
<1>4. CASE p.state \in Live
  <2>1. POK(q) /\ Sound(q) /\ r.nxt = p.rx.nxt
    BY RefusedPOK, RefusedSound
  <2>2. q.state = p.state /\ q.tx = p.tx /\ q.rx = r
    BY <1>1 DEF PType
  <2>3. q = [p EXCEPT !.rx = tcp_process_refused_data(@, p.conn, g)]
    BY <1>1 DEF PType
  <2> HIDE DEF q
  <2>4. CASE q.rx.refused # 0 /\ seg.tcplen
    BY <1>4, <2>1, <2>3, <2>4 DEF tcp_input, Live
  <2>5. CASE ~(q.rx.refused # 0 /\ seg.tcplen)
    <3>1. SegOK(seg, q)
      BY <2>1, <2>2, <2>5, SegmentOK
    <3>2. Sound(tcp_process(q, seg, all, g))
      BY <1>4, <2>1, <2>2, <3>1, ProcessSound
    <3> QED
      BY <1>4, <2>3, <2>5, <3>2 DEF tcp_input, Live
  <2> QED
    BY <2>4, <2>5
<1> QED
  BY <1>1, <1>2, <1>3, <1>4 DEF States

-----------------------------------------------------------------------------
(* Timers.                                                                 *)

\* tcp_fasttmr: its four duties one after the other.
LEMMA FasttmrSound ==
    ASSUME NEW p, POK(p), Sound(p), NEW out \in BOOLEAN, NEW ok \in BOOLEAN,
           NEW all \in BOOLEAN, NEW g \in FreedReads
    PROVE  Sound(tcp_fasttmr(p, out, ok, all, g))
<1> DEFINE acked == IF out THEN Output(p, all) ELSE p
           c == [acked.conn EXCEPT !.closepend = FALSE]
           q == [acked EXCEPT !.conn = c]
           fin == IF acked.conn.closepend
                  THEN tcp_close_shutdown_fin(
                            [acked EXCEPT !.conn.closepend = FALSE], ok, all)
                  ELSE acked
           read == [fin EXCEPT !.rx = tcp_process_refused_data(@, fin.conn, g)]
<1>1. POK(acked) /\ Sound(acked)
  BY OutputPOK, OutputSound
<1> HIDE DEF acked
<1>2. acked \in PType /\ acked.conn \in ConnType
  BY <1>1 DEF POK, Base, PType
<1>3. /\ c \in ConnType /\ c.closepend = FALSE
      /\ c.rxclosed = acked.conn.rxclosed
  BY <1>2 DEF ConnType
<1> HIDE DEF c
<1>4. /\ q \in PType /\ q.state = acked.state /\ q.rx = acked.rx
      /\ q.tx = acked.tx /\ q.conn = c /\ q.err = acked.err /\ q.rst = acked.rst
  BY <1>2, <1>3 DEF PType
<1>5. q = [acked EXCEPT !.conn.closepend = FALSE]
  BY <1>2 DEF c, PType, ConnType
<1> HIDE DEF q
<1>6. POK(q) /\ Sound(q)
  <2>1. POK(q)
    BY <1>1, <1>3, <1>4 DEF POK, Base
  <2> QED
    BY <1>1, <1>3, <1>4, <2>1, SameSound
<1>7. POK(fin) /\ Sound(fin)
  <2>1. acked.conn.closepend => q.conn.rxclosed
    BY <1>1, <1>3, <1>4 DEF POK, Base
  <2>2. acked.conn.closepend => /\ POK(tcp_close_shutdown_fin(q, ok, all))
                                /\ Sound(tcp_close_shutdown_fin(q, ok, all))
    BY <1>6, <2>1, ShutdownFinPOK, ShutdownFinSound
  <2> QED
    BY <1>1, <1>5, <2>2
<1> HIDE DEF fin
<1>8. POK(read) /\ Sound(read)
  <2>1. read = [fin EXCEPT !.rx = tcp_process_refused_data(fin.rx, fin.conn, g)]
    BY <1>7 DEF POK, Base, PType
  <2> HIDE DEF read
  <2> QED
    BY <1>7, <2>1, RefusedPOK, RefusedSound
<1>9. Sound(tcp_close(read, ok, all))
  <2> HIDE DEF read
  <2> QED
    BY <1>8, CloseSound
<1>10. tcp_fasttmr(p, out, ok, all, g)
          = IF read.conn.close_after_writing /\ AllWritten(read.tx)
            THEN tcp_close(read, ok, all) ELSE read
  BY Zenon DEF tcp_fasttmr, acked, fin
<1> HIDE DEF read
<1> QED
  BY <1>8, <1>9, <1>10

\* The retransmission or the probe of a slow tick.
LEMMA RetransmitSound ==
    ASSUME NEW p, POK(p), Sound(p), p.state \in Live,
           NEW due \in BOOLEAN, NEW all \in BOOLEAN
    PROVE  Sound(Retransmit(p, due, all))
<1>1. p \in PType /\ TxOK(p.tx) /\ SendOK(p.tx)
  BY DEF POK, Base, Sound
<1>2. Sound([p EXCEPT !.tx = tcp_zero_window_probe(p.tx)])
  BY <1>1, ProbeOK, ProbeSend, SetTxSound DEF TxOK
<1>3. Sound([p EXCEPT !.tx = tcp_rexmit_rto(p.tx, all)])
  BY <1>1, RexmitRtoOK, RexmitRtoSend, SetTxSound DEF TxOK
<1>4. /\ [p EXCEPT !.tx = tcp_zero_window_probe(@)]
            = [p EXCEPT !.tx = tcp_zero_window_probe(p.tx)]
      /\ [p EXCEPT !.tx = tcp_rexmit_rto(@, all)]
            = [p EXCEPT !.tx = tcp_rexmit_rto(p.tx, all)]
  BY <1>1 DEF PType
<1> QED
  BY <1>2, <1>3, <1>4 DEF Retransmit

\* tcp_slowtmr: who is removed is told, except at the end of TIME_WAIT.
LEMMA SlowtmrSound ==
    ASSUME NEW p, POK(p), Sound(p), NEW out \in BOOLEAN, NEW due \in BOOLEAN,
           NEW all \in BOOLEAN
    PROVE  Sound(tcp_slowtmr(p, out, due, all))
<1> DEFINE now == [p EXCEPT !.idle = Min2(p.idle + 1, IdleMax)]
           x == Retransmit(now, due, all)
           z == FreePcb(x)
           w == [z EXCEPT !.rst = z.rst \/ KeepaliveOver(now)]
           v == Report(w, "ERR_ABRT")
<1>1. p \in PType /\ p.idle \in 0..IdleMax /\ p.state \in States
  BY DEF POK, Base, PType
<1>2. Min2(p.idle + 1, IdleMax) \in 0..IdleMax
  BY <1>1, ConstantsAssumption DEF Min2, IdleMax
<1>3. /\ now.state = p.state /\ now.tx = p.tx /\ now.conn = p.conn
      /\ now.err = p.err /\ now.rst = p.rst
  BY <1>1 DEF PType
<1>4. now = [p EXCEPT !.idle = Min2(@ + 1, IdleMax)]
  BY <1>1 DEF PType
<1>5. POK(now)
  BY <1>2, SetIdle
<1> HIDE DEF now
<1>6. Sound(now)
  BY <1>3, SameSound
<1>7. CASE p.state = "FREED"
  BY <1>7 DEF tcp_slowtmr
<1>8. CASE p.state = "TIME_WAIT"
  <2>1. /\ FreePcb(now).state = "FREED" /\ FreePcb(now).conn = now.conn
        /\ FreePcb(now).err = now.err /\ FreePcb(now).rst = now.rst
        /\ Graceful(now.tx) => Graceful(FreePcb(now).tx)
    BY <1>5, FreePcbFields DEF POK
  <2>2. Sound(FreePcb(now))
    BY <1>3, <1>6, <1>8, <2>1 DEF Sound, Live, Closing
  <2>3. tcp_slowtmr(p, out, due, all) \in {now, FreePcb(now)}
    BY <1>4, <1>8 DEF tcp_slowtmr
  <2> QED
    BY <1>6, <2>2, <2>3
<1>9. CASE p.state \in Live
  <2>1. POK(x) /\ Sound(x)
    BY <1>3, <1>5, <1>6, <1>9, RetransmitPOK, RetransmitSound
  <2> HIDE DEF x
  <2>2. Sound(Output(x, all))
    BY <2>1, OutputSound
  <2>3. POK(z) /\ z.state = "FREED"
    BY <2>1, FreePcbPOK, FreePcbFields DEF POK
  <2> HIDE DEF z
  <2>4. z \in PType /\ z.rst \in BOOLEAN
    BY <2>3 DEF POK, Base, PType
  <2>5. (z.rst \/ KeepaliveOver(now)) \in BOOLEAN
    BY <2>4 DEF KeepaliveOver
  <2>6. POK(w) /\ w.state = "FREED"
    <3>1. w.state = "FREED"
      BY <2>3, <2>4 DEF PType
    <3> QED
      BY <2>3, <2>5, <3>1, SetRst
  <2>7. w = [z EXCEPT !.rst = @ \/ KeepaliveOver(now)]
    BY <2>4 DEF PType
  <2> HIDE DEF w
  <2>8. "ERR_ABRT" \in Errs
    BY DEF Errs
  <2>9. v.state = "FREED" /\ v.err \in {"ERR_ABRT", "unset"}
    BY <2>6, <2>8, ReportBase, ReportFields DEF POK
  <2> HIDE DEF v
  <2>10. Sound(v)
    BY <2>9, ToldSound
  <2>11. tcp_slowtmr(p, out, due, all) \in {x, Output(x, all), v}
    BY <1>4, <1>9, <2>7 DEF tcp_slowtmr, x, z, v, Live
  <2> QED
    BY <2>1, <2>2, <2>10, <2>11
<1> QED
  BY <1>1, <1>7, <1>8, <1>9 DEF States

\* tcp_tmr, with or without the slow timer.
LEMMA TmrSound ==
    ASSUME NEW p, POK(p), Sound(p), NEW slow \in BOOLEAN, NEW out \in BOOLEAN,
           NEW ok \in BOOLEAN, NEW due \in BOOLEAN, NEW all \in BOOLEAN,
           NEW g \in FreedReads
    PROVE  Sound(tcp_tmr(p, slow, out, ok, due, all, g))
<1> DEFINE fast == tcp_fasttmr(p, out, ok, all, g)
<1>1. POK(fast) /\ Sound(fast)
  BY FasttmrPOK, FasttmrSound
<1> HIDE DEF fast
<1>2. Sound(tcp_slowtmr(fast, out, due, all))
  BY <1>1, SlowtmrSound
<1> QED
  BY <1>1, <1>2 DEF tcp_tmr, fast

-----------------------------------------------------------------------------
(* The invariant.                                                          *)

\* A connection starts with its SYN-ACK in flight and all of snd_buf.
LEMMA InitSound == Init => Sound(Now)
<1> SUFFICES ASSUME Init
             PROVE  Sound(Now)
  OBVIOUS
<1>1. /\ tx.una = 0 /\ tx.nxt = 1 /\ tx.lbb = 1 /\ tx.unsent = {}
      /\ tx.unacked = {0} /\ tx.buf = SND_BUF /\ tx.fin = FALSE /\ tx.acked = 0
  BY DEF Init
<1>2. DataIn(tx, 0..(1 - 1)) = 0 /\ DataIn(tx, 0..(0 - 1)) = 0
  <2>1. /\ {s \in 0..(1 - 1) : IsData(tx, s)} = {}
        /\ {s \in 0..(0 - 1) : IsData(tx, s)} = {}
    BY DEF IsData
  <2> QED
    BY <2>1, FS_EmptySet DEF DataIn
<1>3. SendOK(tx)
  <2>1. 0..(1 - 1) = {0}
    OBVIOUS
  <2> QED
    BY <1>1, <1>2, <2>1, ConstantsAssumption DEF SendOK
<1>4. state = "SYN_RCVD" /\ err = "none"
  BY DEF Init
<1> QED
  BY <1>3, <1>4, NowFields DEF Sound, Closing

\* Each action keeps it.
LEMMA NextSound == SInv /\ [Next]_vars => Sound(Now)'
<1> SUFFICES ASSUME SInv, [Next]_vars
             PROVE  Sound(Now)'
  OBVIOUS
<1> USE NowFields
<1>0. /\ POK(Now) /\ Sound(Now) /\ Now \in PType /\ odd \in BOOLEAN
      /\ tx \in TxType /\ conn \in ConnType
  BY DEF SInv, IInv, POK, Base, PType
<1>1. Pace \subseteq BOOLEAN /\ Alloc \subseteq BOOLEAN
  BY DEF Pace, Alloc
<1>2. /\ Now'.state = state' /\ Now'.tx = tx' /\ Now'.conn = conn'
      /\ Now'.err = err' /\ Now'.rst = rst'
  BY DEF Now
<1>3. CASE Input
  <2>1. PICK seg \in Segments(Now), all \in Pace, g \in FreedReads :
            Become(tcp_input(Now, seg, all, g))
    BY <1>3 DEF Input
  <2>2. /\ POK(tcp_input(Now, seg, all, g))
        /\ Sound(tcp_input(Now, seg, all, g))
    BY <1>0, <1>1, InputPOK, InputSound
  <2> QED
    BY <2>1, <2>2, BecomeNow DEF POK, Base
<1>4. CASE Tick
  <2>1. PICK due \in BOOLEAN, out \in BOOLEAN, ok \in Alloc, all \in Pace,
             g \in FreedReads :
            Become(tcp_tmr(Now, ~odd, out, ok, due, all, g))
    BY <1>4 DEF Tick, TickWith
  <2>2. /\ POK(tcp_tmr(Now, ~odd, out, ok, due, all, g))
        /\ Sound(tcp_tmr(Now, ~odd, out, ok, due, all, g))
    <3>1. /\ (~odd) \in BOOLEAN /\ out \in BOOLEAN /\ ok \in BOOLEAN
          /\ due \in BOOLEAN /\ all \in BOOLEAN /\ g \in FreedReads
      BY <1>0, <1>1
    <3>2. \A slow \in BOOLEAN :
              /\ POK(tcp_tmr(Now, slow, out, ok, due, all, g))
              /\ Sound(tcp_tmr(Now, slow, out, ok, due, all, g))
      BY <1>0, <3>1, TmrPOK, TmrSound
    <3> QED
      BY <3>1, <3>2
  <2> QED
    BY <2>1, <2>2, BecomeNow DEF POK, Base
<1>5. CASE close
  <2>1. PICK ok \in Alloc, all \in Pace : Become(tcp_close(Now, ok, all))
    BY <1>5 DEF close
  <2>2. POK(tcp_close(Now, ok, all)) /\ Sound(tcp_close(Now, ok, all))
    BY <1>0, <1>1, ClosePOK, CloseSound
  <2> QED
    BY <2>1, <2>2, BecomeNow DEF POK, Base
<1>6. ASSUME NEW n \in 1..MaxWritten, write(n)
      PROVE  Sound(Now)'
  <2>1. PICK all \in BOOLEAN :
            /\ state \in Writable
            /\ tx.lbb + n <= MaxWritten + 1
            /\ tx' = tcp_output(Queued(tx, n), all)
            /\ UNCHANGED <<state, conn, err, rst>>
    BY <1>6 DEF write, Queued
  <2>2. TxOK(tx) /\ SendOK(tx) /\ ~tx.fin
    BY <1>0, <2>1 DEF POK, Base, Sound, Writable, Live
  <2>3. n \in Nat /\ 1 <= n
    BY ConstantsAssumption
  <2>4. TxOK(Queued(tx, n)) /\ SendOK(Queued(tx, n))
    BY <2>1, <2>2, <2>3, QueuedOK, QueuedSend
  <2>5. SendOK(tx')
    BY <2>1, <2>4, OutputSend
  <2> QED
    BY <1>0, <1>2, <2>1, <2>5 DEF Sound, Writable, Closing
<1>7. CASE \/ TimerEnds \/ syncSetDelegate \/ asyncSetDelegate \/ readData
           \/ closeAfterWriting \/ UNCHANGED vars
  <2>1. /\ UNCHANGED <<state, tx, err, rst>>
        /\ conn'.rxclosed = conn.rxclosed
    BY <1>0, <1>7 DEF TimerEnds, syncSetDelegate, asyncSetDelegate, readData,
                      closeAfterWriting, vars, ConnType
  <2>2. /\ Now'.state = Now.state /\ Now'.tx = Now.tx
        /\ Now'.conn.rxclosed = Now.conn.rxclosed
        /\ Now'.err = Now.err /\ Now'.rst = Now.rst
    BY <1>2, <2>1
  <2> QED
    BY <1>0, <2>2, SameSound
<1> QED
  BY <1>3, <1>4, <1>5, <1>6, <1>7 DEF Next

-----------------------------------------------------------------------------
(* The theorems.                                                           *)

\* The accounts of the send half and what is known of the ends hold in every
\* reachable state.
THEOREM SoundInvariance == Spec => []SInv
<1>1. Init => SInv
  BY InitIInv, InitSound DEF SInv
<1>2. SInv /\ [Next]_vars => SInv'
  BY NextIInv, NextSound DEF SInv
<1> QED
  BY <1>1, <1>2, PTL DEF Spec

\* tcp_out.c, tcp_in.c:785-950: whatever is retransmitted, probed or acknowledged while
\* requeued, the two queues hold every number from lastack to snd_lbb once, and
\* snd_buf and the bytes reported by didWriteData: agree with them.
THEOREM QueuesAccounted == Spec => []SendAccounting
<1>1. SInv => SendAccounting
  <2> SUFFICES ASSUME SInv, state \in Live
               PROVE  /\ tx.unsent \cap tx.unacked = {}
                      /\ Outstanding(tx) = tx.una..(tx.lbb - 1)
                      /\ \A s \in tx.unacked : s < tx.nxt
                      /\ tx.nxt <= tx.lbb
                      /\ tx.buf + DataIn(tx, Outstanding(tx)) = SND_BUF
                      /\ tx.acked = DataIn(tx, 0..(tx.una - 1))
    BY DEF SendAccounting
  <2>1. SendOK(tx) /\ TxOK(tx)
    BY NowFields DEF SInv, IInv, POK, Base, Sound
  <2> QED
    BY <2>1 DEF SendOK, TxOK, Outstanding
<1> QED
  BY <1>1, SoundInvariance, PTL

\* zp_tcp_err, tcp_input, tcp_slowtmr: a connection that ends without the application
\* having closed it is reported, and one that ends without a word and without a RST
\* has had everything that was written acknowledged, and the FIN behind it.
THEOREM EndsReported == Spec => []EndsKnown
<1>1. SInv => EndReported
  BY NowFields DEF SInv, Sound, EndReported
<1>2. SInv => SilentEndIsGraceful
  <2> SUFFICES ASSUME SInv, state = "FREED" /\ err = "none" /\ ~rst
               PROVE  tx.una = tx.lbb /\ tx.fin /\ tx.acked = Written
    BY DEF SilentEndIsGraceful
  <2>1. Graceful(tx)
    BY NowFields DEF SInv, Sound
  <2> QED
    BY <2>1 DEF Graceful, Written
<1> QED
  BY <1>1, <1>2, SoundInvariance, PTL DEF EndsKnown

-----------------------------------------------------------------------------
(* Requests: the inductive invariant.                                      *)

\* A closed connection keeps no data, and neither does one that is not open yet;
\* nobody is told of an end before it.
Asked(p) ==
    /\ p.state # "FREED" => p.err = "none"
    /\ p.conn.rxclosed \/ p.state = "SYN_RCVD" => p.rx.refused = 0

RInv == SInv /\ Asked(Now)

\* Data is passed on at the price of canReadData, and not after close.
Step(p, q) ==
    /\ q.rx.canRead => p.rx.canRead
    /\ q.rx.read # p.rx.read => p.rx.canRead /\ ~q.rx.canRead /\ ~p.conn.rxclosed
    /\ p.conn.rxclosed => q.conn.rxclosed

\* What every function but tcp_close does.
Quiet(p, q) == Step(p, q) /\ Asked(q) /\ q.conn.rxclosed = p.conn.rxclosed

-----------------------------------------------------------------------------
(* Requests: functions on the state of the connection.                     *)

\* One step behind another.
LEMMA StepStep ==
    ASSUME NEW p, NEW q, NEW s, Step(p, q), Step(q, s)
    PROVE  Step(p, s)
BY DEF Step

\* ... and without a close in either.
LEMMA QuietQuiet ==
    ASSUME NEW p, NEW q, NEW s, Quiet(p, q), Quiet(q, s)
    PROVE  Quiet(p, s)
BY StepStep DEF Quiet

\* The send half, the time, a RST: nothing of this is in Step.
LEMMA SameQuiet ==
    ASSUME NEW p, Asked(p), NEW q, q.state = p.state, q.rx = p.rx,
           q.conn.rxclosed = p.conn.rxclosed, q.err = p.err
    PROVE  Quiet(p, q)
BY DEF Quiet, Step, Asked

\* A freed pcb has nothing left to pass on.
LEMMA FreedQuiet ==
    ASSUME NEW p, NEW q, POK(q), q.state = "FREED",
           q.rx.read = p.rx.read, q.rx.canRead = p.rx.canRead,
           q.conn.rxclosed = p.conn.rxclosed
    PROVE  Quiet(p, q)
<1>1. q.rx.refused = 0
  BY DEF POK, Live
<1> QED
  BY <1>1 DEF Quiet, Step, Asked

\* Purging forgets the refused data and nothing else of the receive half.
LEMMA PurgeRxRead ==
    ASSUME NEW p, Base(p)
    PROVE  /\ PurgeRx(p.rx).read = p.rx.read
           /\ PurgeRx(p.rx).canRead = p.rx.canRead
           /\ PurgeRx(p.rx).refused = 0
           /\ Purge(p).rx = PurgeRx(p.rx) /\ FreePcb(p).rx = PurgeRx(p.rx)
<1>1. p \in PType /\ p.rx \in RxType
  BY DEF Base, RxOK
<1>2. Purge(p).rx = PurgeRx(p.rx) /\ FreePcb(p).rx = PurgeRx(p.rx)
  BY <1>1 DEF FreePcb, Purge, PType
<1> QED
  BY <1>1, <1>2 DEF PurgeRx, RxType

\* tcp_output as a step of a handler.
LEMMA OutputQuiet ==
    ASSUME NEW p, POK(p), Asked(p), NEW all
    PROVE  Quiet(p, Output(p, all))
<1>1. p \in PType
  BY DEF POK, Base
<1>2. /\ Output(p, all).state = p.state /\ Output(p, all).rx = p.rx
      /\ Output(p, all).conn = p.conn /\ Output(p, all).err = p.err
  BY <1>1 DEF Output, PType
<1> QED
  BY <1>2, SameQuiet

\* Offering refused data again.
LEMMA RefusedQuiet ==
    ASSUME NEW p, POK(p), Asked(p), NEW g \in FreedReads
    PROVE  Quiet(p, [p EXCEPT !.rx = tcp_process_refused_data(p.rx, p.conn, g)])
<1> DEFINE r == tcp_process_refused_data(p.rx, p.conn, g)
           q == [p EXCEPT !.rx = r]
<1>1. p \in PType /\ p.rx \in RxType
  BY DEF POK, Base, PType
<1>2. /\ r.refused \in {0, p.rx.refused}
      /\ r.canRead => p.rx.canRead
      /\ r.read # p.rx.read => p.rx.canRead /\ ~r.canRead /\ p.rx.refused # 0
  <2>1. CASE p.rx.refused = 0 \/ ~Takes(p.rx, p.conn)
    BY <2>1 DEF tcp_process_refused_data
  <2>2. CASE ~(p.rx.refused = 0 \/ ~Takes(p.rx, p.conn))
    <3>1. r.refused = 0 /\ r.canRead = FALSE
      BY <1>1, <2>2 DEF tcp_process_refused_data, RxType
    <3> QED
      BY <2>2, <3>1 DEF Takes
  <2> QED
    BY <2>1, <2>2
<1> HIDE DEF r
<1>3. q.state = p.state /\ q.rx = r /\ q.conn = p.conn /\ q.err = p.err
  BY <1>1 DEF PType
<1> HIDE DEF q
<1>4. Quiet(p, q)
  BY <1>2, <1>3 DEF Quiet, Step, Asked
<1> QED
  BY <1>4 DEF q, r

\* tcp_abort frees.
LEMMA AbortQuiet ==
    ASSUME NEW p, Base(p)
    PROVE  Quiet(p, tcp_abort(p))
<1> DEFINE z == FreePcb(p)
           q == [z EXCEPT !.rst = TRUE]
           r == Report(q, "ERR_ABRT")
<1>1. POK(z) /\ z.state = "FREED" /\ z.rx = PurgeRx(p.rx) /\ z.conn = p.conn
  BY FreePcbFields, FreePcbPOK, PurgeRxRead
<1> HIDE DEF z
<1>2. POK(q) /\ q.state = z.state /\ q.rx = z.rx /\ q.conn = z.conn
  <2>1. z \in PType
    BY <1>1 DEF POK, Base
  <2> QED
    BY <1>1, <2>1, SetRst DEF PType
<1> HIDE DEF q
<1>3. "ERR_ABRT" \in Errs
  BY DEF Errs
<1>4. POK(r) /\ r.state = z.state /\ r.rx = z.rx /\ r.conn = z.conn
  BY <1>2, <1>3, ReportPOK, ReportBase DEF POK
<1> HIDE DEF r
<1>5. Quiet(p, z) /\ Quiet(p, r)
  BY <1>1, <1>4, PurgeRxRead, FreedQuiet
<1>6. tcp_abort(p) \in {z, r}
  BY DEF tcp_abort, z, q, r
<1> QED
  BY <1>5, <1>6

\* tcp_close_shutdown_fin, for which the connection is closed already.
LEMMA ShutdownFinQuiet ==
    ASSUME NEW p, POK(p), Asked(p), p.conn.rxclosed, NEW ok, NEW all
    PROVE  LET q == tcp_close_shutdown_fin(p, ok, all)
           IN Quiet(p, q) /\ q.rst = p.rst
<1> DEFINE t == tcp_output(tcp_send_fin(p.tx), all)
           st == IF p.state = "CLOSE_WAIT" THEN "LAST_ACK" ELSE "FIN_WAIT_1"
           q == [p EXCEPT !.tx = t, !.state = st]
           w == [p EXCEPT !.conn.closepend = TRUE]
<1>1. p \in PType /\ p.conn \in ConnType
  BY DEF POK, Base, PType
<1>2. CASE p.state \notin Writable
  BY <1>2, SameQuiet DEF tcp_close_shutdown_fin
<1>3. CASE p.state \in Writable /\ (ok \/ p.tx.unsent # {})
  <2>1. tcp_close_shutdown_fin(p, ok, all) = q
    BY <1>1, <1>3 DEF tcp_close_shutdown_fin, PType
  <2> HIDE DEF t
  <2>2. /\ q.state = st /\ q.rx = p.rx /\ q.conn = p.conn /\ q.err = p.err
        /\ q.rst = p.rst
    BY <1>1 DEF PType
  <2>3. p.err = "none" /\ p.rx.refused = 0
    BY <1>3 DEF Asked, Writable
  <2> HIDE DEF q
  <2>4. Quiet(p, q)
    BY <2>2, <2>3 DEF Quiet, Step, Asked
  <2> QED
    BY <2>1, <2>2, <2>4
<1>4. CASE p.state \in Writable /\ ~(ok \/ p.tx.unsent # {})
  <2>1. /\ w.state = p.state /\ w.rx = p.rx /\ w.err = p.err /\ w.rst = p.rst
        /\ w.conn.rxclosed = p.conn.rxclosed
    BY <1>1 DEF PType, ConnType
  <2>2. tcp_close_shutdown_fin(p, ok, all) = w
    BY <1>4 DEF tcp_close_shutdown_fin
  <2> HIDE DEF w
  <2> QED
    BY <2>1, <2>2, SameQuiet
<1> QED
  BY <1>2, <1>3, <1>4

\* Unread data is data that was accepted and not passed on.
LEMMA UnreadIsUnread ==
    ASSUME NEW p, POK(p), p.state \in Live, Garbage = {}, Unread(p.rx)
    PROVE  p.rx.read < Accepted(p.rx)
<1>1. /\ p.rx.wnd \in Nat /\ p.rx.refused \in Nat /\ p.rx.read \in Nat
      /\ p.rx.fin \in BOOLEAN /\ WND \in Nat
  BY ConstantsAssumption DEF POK, Base, RxOK, RxType
<1>2. RxFull(p.rx) /\ RxWindow(p.rx) /\ (p.rx.fin => p.rx.refused > 0)
  BY DEF POK, Base, RxOK
<1>3. p.rx.refused > 0
  BY <1>1, <1>2 DEF Unread, RxWindow
<1> QED
  BY <1>1, <1>2, <1>3 DEF RxFull

\* tcp_close passes nothing on, and resets only if there is unread data.
LEMMA CloseStep ==
    ASSUME NEW p, POK(p), Asked(p), NEW ok, NEW all
    PROVE  LET q == tcp_close(p, ok, all)
           IN /\ Step(p, q) /\ Asked(q)
              /\ Garbage = {} /\ q.rst # p.rst => p.rx.read < Accepted(p.rx)
<1> DEFINE c == [p.conn EXCEPT !.rxclosed = TRUE]
           q == [p EXCEPT !.conn = c]
           z == Purge(q)
           s == [z EXCEPT !.rst = TRUE,
                          !.state = IF z.state = "ESTABLISHED" THEN "TIME_WAIT"
                                                               ELSE "FREED"]
           resets == p.state \in {"ESTABLISHED", "CLOSE_WAIT"} /\ Unread(p.rx)
           f == tcp_close_shutdown_fin(q, ok, all)
<1>1. p \in PType /\ p.conn \in ConnType /\ p.rx \in RxType /\ p.state \in States
  BY DEF POK, Base, PType
<1>2. c \in ConnType /\ c.rxclosed /\ c.closepend = p.conn.closepend
  BY <1>1 DEF ConnType
<1>3. /\ q \in PType /\ q.state = p.state /\ q.rx = p.rx /\ q.tx = p.tx
      /\ q.conn = c /\ q.err = p.err /\ q.rst = p.rst
  BY <1>1, <1>2 DEF PType
<1>4. POK(q)
  BY <1>2, <1>3 DEF POK, Base
<1>5. q = [p EXCEPT !.conn.rxclosed = TRUE]
  BY <1>1 DEF PType, ConnType
<1> HIDE DEF q, c
<1>6. tcp_close(p, ok, all) = IF resets THEN s ELSE f
  BY <1>3, <1>5 DEF tcp_close
<1>7. CASE resets
  <2>1. /\ z \in PType /\ z.state = p.state /\ z.conn = c /\ z.rx = PurgeRx(p.rx)
        /\ z.err = p.err
    <3>1. /\ z \in PType /\ z.state = q.state /\ z.conn = q.conn
          /\ z.rx = PurgeRx(q.rx)
      BY <1>4, PurgeBase DEF POK, Base
    <3>2. z.err = q.err
      BY <1>3 DEF Purge, PType
    <3> QED
      BY <1>3, <3>1, <3>2
  <2> HIDE DEF z
  <2>2. /\ s.state \in {"TIME_WAIT", "FREED"} /\ s.rx = PurgeRx(p.rx)
        /\ s.conn = c /\ s.err = p.err
    BY <2>1 DEF PType
  <2> HIDE DEF s
  <2>3. /\ PurgeRx(p.rx).read = p.rx.read /\ PurgeRx(p.rx).canRead = p.rx.canRead
        /\ PurgeRx(p.rx).refused = 0
    BY PurgeRxRead DEF POK
  <2>4. p.err = "none"
    BY <1>7 DEF Asked
  <2>5. Step(p, s) /\ Asked(s)
    BY <1>2, <2>2, <2>3, <2>4 DEF Step, Asked
  <2>6. Garbage = {} => p.rx.read < Accepted(p.rx)
    BY <1>7, UnreadIsUnread DEF Live
  <2> QED
    BY <1>6, <1>7, <2>5, <2>6
<1>8. CASE ~resets
  <2>1. q.rx.refused = 0
    <3>1. CASE p.state \in {"ESTABLISHED", "CLOSE_WAIT"}
      BY <1>3, <1>8, <3>1 DEF Unread
    <3>2. CASE p.state \in Closing \cup {"SYN_RCVD"}
      BY <1>3, <3>2 DEF POK, Asked
    <3>3. CASE p.state \in {"TIME_WAIT", "FREED"}
      BY <1>3, <3>3 DEF POK, Live
    <3> QED
      BY <1>1, <3>1, <3>2, <3>3 DEF States, Live, Closing
  <2>2. Step(p, q) /\ Asked(q)
    BY <1>2, <1>3, <2>1 DEF Step, Asked
  <2>3. Quiet(q, f) /\ f.rst = q.rst
    BY <1>2, <1>3, <1>4, <2>2, ShutdownFinQuiet
  <2> HIDE DEF f
  <2> QED
    BY <1>3, <1>6, <1>8, <2>2, <2>3, StepStep DEF Quiet
<1> QED
  BY <1>7, <1>8

-----------------------------------------------------------------------------
(* Requests: segments.                                                     *)

\* A segment that tcp_process accepts: data for a closed connection aborts it, other
\* data goes to the application if it asked.
LEMMA ReceiveQuiet ==
    ASSUME NEW p, POK(p), Asked(p), p.state \in Live, NEW seg, SegOK(seg, p),
           NEW all \in BOOLEAN, NEW g \in FreedReads
    PROVE  Quiet(p, Receive(p, seg, all, g))
<1> DEFINE t == AckReceived(p.tx, seg.ackno, seg.w, seg.dup)
           accepts == p.state \in Receiving \cup {"SYN_RCVD"}
           k == IF accepts THEN TrimmedLen(p.rx, seg.k) ELSE 0
           f == accepts /\ TrimmedFin(p.rx, seg.k, seg.f)
           acked == FinAcked(t, seg.ackno)
           st == StateAfter(p.state, f, acked)
           c == [p.conn EXCEPT !.open = TRUE]
           received == [p EXCEPT !.tx = t, !.state = st, !.conn = c]
           q == IF st = "TIME_WAIT" THEN Purge(received) ELSE received
           r == AcceptInSequence(q.rx, p.conn, k, f, g)
           s == [q EXCEPT !.rx = r]
           v == Output(s, all)
<1>1. p \in PType /\ p.conn \in ConnType /\ TxOK(p.tx)
  BY DEF POK, Base, PType
<1>2. TxOK(t)
  BY <1>1, AckOK DEF SegOK
<1>3. f \in BOOLEAN /\ acked \in BOOLEAN /\ k \in Nat
  <2>1. p.rx.wnd \in Nat
    BY ConstantsAssumption DEF POK, Base, RxOK, RxType
  <2> QED
    BY <2>1 DEF TrimmedFin, TrimmedLen, Min2, FinAcked, SegOK
<1>4. /\ c \in ConnType
      /\ c.closepend = p.conn.closepend /\ c.rxclosed = p.conn.rxclosed
  BY <1>1 DEF ConnType
<1> HIDE DEF t, k, f, acked, c
<1>5. /\ st \in States \cup {"CLOSED"}
      /\ st # "SYN_RCVD" /\ st # "FREED"
      /\ st = "CLOSED" => p.state = "LAST_ACK"
  BY <1>3 DEF StateAfter, States, Live, Receiving
<1> HIDE DEF st
<1>6. /\ received \in PType /\ received.state = st /\ received.rx = p.rx
      /\ received.tx = t /\ received.conn = c /\ received.err = p.err
  BY <1>1, <1>2, <1>4, <1>5 DEF PType, TxOK
<1>7. received = [p EXCEPT !.tx = t, !.state = st, !.conn.open = TRUE]
  BY <1>1 DEF c, PType, ConnType
<1> HIDE DEF received
<1>8. Base(received)
  BY <1>1, <1>2, <1>4, <1>6 DEF Base, POK
<1>9. p.rx.refused \in Nat /\ p.err = "none"
  BY ConstantsAssumption DEF POK, Base, RxOK, RxType, Asked, Live
<1>10. /\ Base(q) /\ q.state = st /\ q.conn = c /\ q.err = p.err
       /\ q.rx.read = p.rx.read /\ q.rx.canRead = p.rx.canRead
       /\ q.rx.refused \in {0, p.rx.refused}
  <2>1. CASE st = "TIME_WAIT"
    <3>1. q = Purge(received)
      BY <2>1
    <3>2. Base(q) /\ q.state = st /\ q.conn = c /\ q.rx = PurgeRx(received.rx)
      BY <1>6, <1>8, <3>1, PurgeBase
    <3>3. q.err = p.err
      BY <1>6, <3>1 DEF Purge, PType
    <3> QED
      BY <1>6, <1>8, <3>2, <3>3, PurgeRxRead
  <2>2. CASE st # "TIME_WAIT"
    BY <1>6, <1>8, <2>2
  <2> QED
    BY <2>1, <2>2
<1> HIDE DEF q
<1>11. Step(p, q) /\ q.conn.rxclosed = p.conn.rxclosed
  BY <1>4, <1>10 DEF Step
<1>12. CASE st = "CLOSED"
  <2>1. p.conn.rxclosed
    BY <1>5, <1>12 DEF POK, Closing
  <2>2. Receive(p, seg, all, g) = FreePcb(q)
    BY <1>7, <1>12, <2>1 DEF Receive, t, f, k, st, acked, q
  <2>3. /\ POK(FreePcb(q)) /\ FreePcb(q).state = "FREED" /\ FreePcb(q).conn = q.conn
        /\ FreePcb(q).rx.read = q.rx.read /\ FreePcb(q).rx.canRead = q.rx.canRead
    BY <1>10, FreePcbPOK, FreePcbFields, PurgeRxRead
  <2>4. Quiet(q, FreePcb(q))
    BY <2>3, FreedQuiet
  <2> QED
    BY <1>11, <2>2, <2>4, StepStep DEF Quiet
<1>13. CASE st # "CLOSED" /\ AfterClose(p, k)
  <2>1. Quiet(q, tcp_abort(q))
    BY <1>10, AbortQuiet
  <2>2. Receive(p, seg, all, g) = tcp_abort(q)
    BY <1>7, <1>13 DEF Receive, t, f, k, st, acked, q
  <2> QED
    BY <1>11, <2>1, <2>2, StepStep DEF Quiet
<1>14. CASE st # "CLOSED" /\ ~AfterClose(p, k)
  <2>1. q \in PType /\ q.rx \in RxType
    BY <1>10 DEF Base, RxOK
  <2>2. /\ r.canRead => q.rx.canRead
        /\ r.read # q.rx.read => k > 0 /\ q.rx.canRead /\ ~r.canRead
        /\ ~(k > 0) => r.refused \in {0, q.rx.refused}
    <3>1. CASE k + (IF f THEN 1 ELSE 0) = 0
      BY <1>3, <2>1, <3>1 DEF AcceptInSequence
    <3>2. CASE k + (IF f THEN 1 ELSE 0) # 0
      <4> DEFINE taken == k > 0 /\ Takes(q.rx, p.conn)
                 kept == k > 0 /\ ~taken
      <4>1. /\ r.canRead = (q.rx.canRead /\ ~taken)
            /\ r.read = IF taken THEN q.rx.read + k ELSE q.rx.read
            /\ r.refused = IF kept THEN k ELSE 0
        BY <2>1, <3>2 DEF AcceptInSequence, RxType
      <4> QED
        BY <4>1 DEF Takes
    <3> QED
      BY <3>1, <3>2
  <2> HIDE DEF r
  <2>3. v.state = q.state /\ v.rx = r /\ v.conn = q.conn /\ v.err = q.err
    BY <2>1 DEF Output, PType
  <2>4. Receive(p, seg, all, g) = v
    BY <1>7, <1>10, <1>14, SMTT(30) DEF Receive, t, f, k, st, acked, q, s, r, Base, PType
  <2> HIDE DEF v
  <2>5. p.conn.rxclosed => ~(k > 0) /\ p.rx.refused = 0
    BY <1>14 DEF AfterClose, Asked
  <2>6. Quiet(p, v)
    BY <1>4, <1>5, <1>9, <1>10, <2>2, <2>3, <2>5 DEF Quiet, Step, Asked
  <2> QED
    BY <2>4, <2>6
<1> QED
  BY <1>12, <1>13, <1>14

\* Activity resets pcb->tmr and nothing else.
LEMMA RefreshQuiet ==
    ASSUME NEW p, POK(p), Asked(p)
    PROVE  Quiet(p, Refresh(p))
<1>1. /\ Refresh(p).state = p.state /\ Refresh(p).rx = p.rx
      /\ Refresh(p).conn = p.conn /\ Refresh(p).err = p.err
  BY DEF Refresh, POK, Base, PType
<1> QED
  BY <1>1, SameQuiet

\* A RST that is sent is not in Step.
LEMMA RstQuiet ==
    ASSUME NEW p, POK(p), Asked(p), NEW b
    PROVE  Quiet(p, [p EXCEPT !.rst = b])
<1> DEFINE q == [p EXCEPT !.rst = b]
<1>1. q.state = p.state /\ q.rx = p.rx /\ q.conn = p.conn /\ q.err = p.err
  BY DEF POK, Base, PType
<1> HIDE DEF q
<1>2. Quiet(p, q)
  BY <1>1, SameQuiet
<1> QED
  BY <1>2 DEF q

\* An acceptable RST frees.
LEMMA ResetQuiet ==
    ASSUME NEW p, POK(p)
    PROVE  Quiet(p, Reset(p))
<1> DEFINE r == Report(p, "ERR_RST")
<1>1. "ERR_RST" \in Errs
  BY DEF Errs
<1>2. Base(r) /\ r.rx = p.rx /\ r.conn = p.conn
  BY <1>1, ReportBase DEF POK
<1> HIDE DEF r
<1>3. /\ POK(FreePcb(r)) /\ FreePcb(r).state = "FREED" /\ FreePcb(r).conn = r.conn
      /\ FreePcb(r).rx.read = r.rx.read /\ FreePcb(r).rx.canRead = r.rx.canRead
  BY <1>2, FreePcbPOK, FreePcbFields, PurgeRxRead
<1>4. Quiet(p, FreePcb(r))
  BY <1>2, <1>3, FreedQuiet
<1> QED
  BY <1>4 DEF Reset, r

\* tcp_process during the handshake.
LEMMA SynReceivedQuiet ==
    ASSUME NEW p, POK(p), Asked(p), p.state \in Live, NEW seg, SegOK(seg, p),
           NEW all \in BOOLEAN, NEW g \in FreedReads
    PROVE  Quiet(p, SynReceived(p, seg, all, g))
<1> DEFINE a == [p EXCEPT !.rst = TRUE]
           b == [p EXCEPT !.tx = tcp_rexmit(p.tx)]
<1>1. p \in PType /\ TxOK(p.tx)
  BY DEF POK, Base
<1>2. Quiet(p, Receive(p, seg, all, g)) /\ Quiet(p, Output(p, all))
  BY ReceiveQuiet, OutputQuiet
<1>3. POK(a) /\ Quiet(p, a)
  BY SetRst, RstQuiet
<1>4. POK(b) /\ Quiet(p, b)
  <2>1. POK(b)
    BY <1>1, RexmitOK, SetTx
  <2>2. b.state = p.state /\ b.rx = p.rx /\ b.conn = p.conn /\ b.err = p.err
    BY <1>1 DEF PType
  <2> HIDE DEF b
  <2> QED
    BY <2>1, <2>2, SameQuiet
<1>5. b = [p EXCEPT !.tx = tcp_rexmit(@)]
  BY <1>1 DEF PType
<1> HIDE DEF a, b
<1>6. Quiet(p, Output(a, all)) /\ Quiet(p, Output(b, all))
  BY <1>3, <1>4, OutputQuiet, QuietQuiet DEF Quiet
<1> QED
  BY <1>2, <1>5, <1>6 DEF SynReceived, a

\* tcp_process in any state.
LEMMA ProcessQuiet ==
    ASSUME NEW p, POK(p), Asked(p), p.state \in Live, NEW seg, SegOK(seg, p),
           NEW all \in BOOLEAN, NEW g \in FreedReads
    PROVE  Quiet(p, tcp_process(p, seg, all, g))
<1> DEFINE q == IF p.conn.rxclosed THEN p ELSE Refresh(p)
<1>1. /\ POK(q) /\ Quiet(p, q) /\ q.state = p.state /\ q.rx = p.rx /\ q.tx = p.tx
  BY RefreshPOK, RefreshQuiet, SameQuiet
<1>2. SegOK(seg, q) /\ Asked(q)
  BY <1>1 DEF SegOK, Quiet
<1> HIDE DEF q
<1>3. Quiet(p, Reset(p)) /\ Quiet(p, Output(p, all))
  BY ResetQuiet, OutputQuiet
<1>4. Quiet(p, SynReceived(q, seg, all, g))
  BY <1>1, <1>2, SynReceivedQuiet, QuietQuiet
<1>5. Quiet(p, Receive(q, seg, all, g))
  BY <1>1, <1>2, ReceiveQuiet, QuietQuiet
<1> QED
  BY <1>3, <1>4, <1>5 DEF tcp_process, q

\* tcp_input.
LEMMA InputQuiet ==
    ASSUME NEW p, POK(p), Asked(p), NEW seg \in Segments(p), NEW all \in BOOLEAN,
           NEW g \in FreedReads
    PROVE  Quiet(p, tcp_input(p, seg, all, g))
<1> DEFINE r == tcp_process_refused_data(p.rx, p.conn, g)
           q == [p EXCEPT !.rx = r]
<1>1. p \in PType /\ p.state \in States
  BY DEF POK, Base
<1>2. CASE p.state = "FREED"
  <2>1. tcp_input(p, seg, all, g) = [p EXCEPT !.rst = p.rst \/ seg.kind # "RST"]
    BY <1>1, <1>2 DEF tcp_input, PType
  <2> QED
    BY <2>1, RstQuiet, SMTT(30)
<1>3. CASE p.state = "TIME_WAIT"
  <2>1. [p EXCEPT !.rst = @ \/ seg.exact] = [p EXCEPT !.rst = p.rst \/ seg.exact]
    BY <1>1 DEF PType
  <2>2. Quiet(p, [p EXCEPT !.rst = p.rst \/ seg.exact]) /\ Quiet(p, Refresh(p))
        /\ Quiet(p, p)
    BY RstQuiet, RefreshQuiet, SameQuiet
  <2> QED
    BY <1>3, <2>1, <2>2 DEF tcp_input, tcp_timewait_input
<1>4. CASE p.state \in Live
  <2>1. POK(q) /\ Quiet(p, q) /\ r.nxt = p.rx.nxt
    BY RefusedPOK, RefusedQuiet
  <2>2. q.state = p.state /\ q.tx = p.tx /\ q.rx = r
    BY <1>1 DEF PType
  <2>3. q = [p EXCEPT !.rx = tcp_process_refused_data(@, p.conn, g)]
    BY <1>1 DEF PType
  <2> HIDE DEF q
  <2>4. CASE q.rx.refused # 0 /\ seg.tcplen
    BY <1>4, <2>1, <2>3, <2>4 DEF tcp_input, Live
  <2>5. CASE ~(q.rx.refused # 0 /\ seg.tcplen)
    <3>1. SegOK(seg, q)
      BY <2>1, <2>2, <2>5, SegmentOK
    <3>2. Quiet(p, tcp_process(q, seg, all, g))
      BY <1>4, <2>1, <2>2, <3>1, ProcessQuiet, QuietQuiet DEF Quiet
    <3> QED
      BY <1>4, <2>3, <2>5, <3>2 DEF tcp_input, Live
  <2> QED
    BY <2>4, <2>5
<1> QED
  BY <1>1, <1>2, <1>3, <1>4 DEF States

-----------------------------------------------------------------------------
(* Requests: timers.                                                       *)

\* tcp_fasttmr: it closes only for closeAfterWriting, with nothing outstanding, and
\* resets only what was not read.
LEMMA FasttmrStep ==
    ASSUME NEW p, POK(p), Sound(p), Asked(p), NEW out \in BOOLEAN, NEW ok \in BOOLEAN,
           NEW all \in BOOLEAN, NEW g \in FreedReads
    PROVE  LET q == tcp_fasttmr(p, out, ok, all, g)
           IN /\ Step(p, q) /\ Asked(q)
              /\ ~p.conn.rxclosed /\ q.conn.rxclosed =>
                    /\ p.conn.close_after_writing
                    /\ p.state \in Live => p.tx.una = p.tx.lbb
                    /\ Garbage = {} /\ q.rst # p.rst => p.rx.read < Accepted(p.rx)
<1> DEFINE acked == IF out THEN Output(p, all) ELSE p
           c == [acked.conn EXCEPT !.closepend = FALSE]
           q == [acked EXCEPT !.conn = c]
           fin == IF acked.conn.closepend
                  THEN tcp_close_shutdown_fin(
                            [acked EXCEPT !.conn.closepend = FALSE], ok, all)
                  ELSE acked
           r == tcp_process_refused_data(fin.rx, fin.conn, g)
           read == [fin EXCEPT !.rx = tcp_process_refused_data(@, fin.conn, g)]
           w == tcp_close(read, ok, all)
<1>1. /\ POK(acked) /\ Sound(acked) /\ Quiet(p, acked)
      /\ acked.state = p.state /\ acked.rx = p.rx /\ acked.conn = p.conn
      /\ acked.rst = p.rst /\ Kept(p.tx, acked.tx)
  <2>1. CASE out
    <3>1. p \in PType /\ TxOK(p.tx)
      BY DEF POK, Base
    <3>2. /\ acked.state = p.state /\ acked.rx = p.rx /\ acked.conn = p.conn
          /\ acked.rst = p.rst /\ acked.tx = tcp_output(p.tx, all)
      BY <2>1, <3>1 DEF Output, PType
    <3> QED
      BY <2>1, <3>1, <3>2, OutputPOK, OutputSound, OutputQuiet, OutputSend
  <2>2. CASE ~out
    BY <2>2, SameQuiet DEF Kept
  <2> QED
    BY <2>1, <2>2
<1> HIDE DEF acked
<1>2. acked \in PType /\ acked.conn \in ConnType
  BY <1>1 DEF POK, Base, PType
<1>3. c \in ConnType /\ c.closepend = FALSE /\ c.rxclosed = acked.conn.rxclosed
  BY <1>2 DEF ConnType
<1> HIDE DEF c
<1>4. /\ q \in PType /\ q.state = acked.state /\ q.rx = acked.rx
      /\ q.tx = acked.tx /\ q.conn = c /\ q.err = acked.err /\ q.rst = acked.rst
  BY <1>2, <1>3 DEF PType
<1>5. q = [acked EXCEPT !.conn.closepend = FALSE]
  BY <1>2 DEF c, PType, ConnType
<1> HIDE DEF q
<1>6. POK(q) /\ Quiet(acked, q)
  <2>1. POK(q)
    BY <1>1, <1>3, <1>4 DEF POK, Base
  <2> QED
    BY <1>1, <1>3, <1>4, <2>1, SameQuiet DEF Quiet
<1>7. POK(fin) /\ Quiet(p, fin)
  <2>1. acked.conn.closepend => q.conn.rxclosed
    BY <1>1, <1>3, <1>4 DEF POK, Base
  <2>2. acked.conn.closepend => /\ POK(tcp_close_shutdown_fin(q, ok, all))
                                /\ Quiet(q, tcp_close_shutdown_fin(q, ok, all))
    BY <1>6, <2>1, ShutdownFinPOK, ShutdownFinQuiet DEF Quiet
  <2> QED
    BY <1>1, <1>5, <1>6, <2>2, QuietQuiet
<1>8. ~p.conn.rxclosed => fin = acked
  BY <1>1 DEF POK, Base
<1> HIDE DEF fin
<1>9. /\ POK(read) /\ Quiet(p, read)
      /\ read.rx = r /\ read.tx = fin.tx /\ read.conn = fin.conn
      /\ read.rst = fin.rst
  <2>1. read = [fin EXCEPT !.rx = r]
    BY <1>7 DEF POK, Base, PType
  <2>2. /\ POK([fin EXCEPT !.rx = r]) /\ Quiet(fin, [fin EXCEPT !.rx = r])
    BY <1>7, RefusedPOK, RefusedQuiet DEF Quiet
  <2>3. fin \in PType
    BY <1>7 DEF POK, Base
  <2> HIDE DEF r
  <2>4. /\ read.rx = r /\ read.tx = fin.tx /\ read.conn = fin.conn
        /\ read.rst = fin.rst
    BY <2>1, <2>3 DEF PType
  <2> HIDE DEF read
  <2> QED
    BY <1>7, <2>1, <2>2, <2>4, QuietQuiet
<1>10. tcp_fasttmr(p, out, ok, all, g)
          = IF read.conn.close_after_writing /\ AllWritten(read.tx) THEN w ELSE read
  BY Zenon DEF tcp_fasttmr, acked, fin
<1> HIDE DEF read
<1>11. /\ Step(read, w) /\ Asked(w)
       /\ Garbage = {} /\ w.rst # read.rst => read.rx.read < Accepted(read.rx)
  BY <1>9, CloseStep DEF Quiet
<1> HIDE DEF w
<1>12. CASE read.conn.close_after_writing /\ AllWritten(read.tx)
  <2>1. Step(p, w)
    BY <1>9, <1>11, StepStep DEF Quiet
  <2>2. ASSUME ~p.conn.rxclosed
        PROVE  /\ p.conn.close_after_writing
               /\ p.state \in Live => p.tx.una = p.tx.lbb
               /\ Garbage = {} /\ w.rst # p.rst => p.rx.read < Accepted(p.rx)
    <3>1. read.conn = p.conn /\ read.tx = acked.tx /\ read.rst = p.rst
      BY <1>1, <1>8, <1>9, <2>2
    <3>2. read.rx = p.rx
      BY <1>1, <1>8, <1>9, <1>12, <2>2, <3>1 DEF tcp_process_refused_data, Takes
    <3>3. p.state \in Live => p.tx.una = p.tx.lbb
      <4>1. ASSUME p.state \in Live
            PROVE  p.tx.una = p.tx.lbb
        <5>1. SendOK(acked.tx) /\ TxOK(acked.tx)
          BY <1>1, <4>1 DEF Sound, POK, Base
        <5>2. acked.tx.una..(acked.tx.lbb - 1) = {}
          BY <1>12, <3>1, <5>1 DEF SendOK, AllWritten
        <5>3. acked.tx.una = acked.tx.lbb
          BY <5>1, <5>2, TxFields
        <5> QED
          BY <1>1, <5>3 DEF Kept
      <4> QED
        BY <4>1
    <3> QED
      BY <1>11, <1>12, <3>1, <3>2, <3>3
  <2> QED
    BY <1>10, <1>11, <1>12, <2>1, <2>2
<1>13. CASE ~(read.conn.close_after_writing /\ AllWritten(read.tx))
  BY <1>9, <1>10, <1>13 DEF Quiet
<1> QED
  BY <1>12, <1>13

\* tcp_slowtmr closes nothing, and its RST is reported.
LEMMA SlowtmrQuiet ==
    ASSUME NEW p, POK(p), Asked(p), NEW out \in BOOLEAN, NEW due \in BOOLEAN,
           NEW all \in BOOLEAN
    PROVE  LET q == tcp_slowtmr(p, out, due, all)
           IN Quiet(p, q) /\ (q.rst = p.rst \/ q.err # "none")
<1> DEFINE now == [p EXCEPT !.idle = Min2(p.idle + 1, IdleMax)]
           x == Retransmit(now, due, all)
           o == Output(x, all)
           n == FreePcb(now)
           z == FreePcb(x)
           w == [z EXCEPT !.rst = z.rst \/ KeepaliveOver(now)]
           v == Report(w, "ERR_ABRT")
<1>1. p \in PType /\ p.idle \in 0..IdleMax /\ p.state \in States
  BY DEF POK, Base, PType
<1>2. Min2(p.idle + 1, IdleMax) \in 0..IdleMax
  BY <1>1, ConstantsAssumption DEF Min2, IdleMax
<1>3. /\ now.state = p.state /\ now.rx = p.rx /\ now.conn = p.conn
      /\ now.err = p.err /\ now.rst = p.rst
  BY <1>1 DEF PType
<1>4. now = [p EXCEPT !.idle = Min2(@ + 1, IdleMax)]
  BY <1>1 DEF PType
<1>5. POK(now)
  BY <1>2, SetIdle
<1> HIDE DEF now
<1>6. Quiet(p, now)
  BY <1>3, SameQuiet
<1>7. POK(x) /\ Quiet(now, x) /\ x.rst = now.rst
  <2>1. POK(x)
    BY <1>5, RetransmitPOK
  <2>2. now \in PType
    BY <1>5 DEF POK, Base
  <2>3. /\ x.state = now.state /\ x.rx = now.rx /\ x.conn = now.conn
        /\ x.err = now.err /\ x.rst = now.rst
    BY <2>2 DEF Retransmit, PType
  <2> HIDE DEF x
  <2> QED
    BY <1>6, <2>1, <2>3, SameQuiet DEF Quiet
<1> HIDE DEF x
<1>8. Quiet(p, x)
  BY <1>6, <1>7, QuietQuiet
<1>9. Quiet(p, o) /\ o.rst = p.rst
  <2>1. Quiet(x, o)
    BY <1>7, OutputQuiet DEF Quiet
  <2>2. o.rst = x.rst
    BY <1>7 DEF Output, POK, Base, PType
  <2> HIDE DEF o
  <2> QED
    BY <1>3, <1>7, <1>8, <2>1, <2>2, QuietQuiet
<1>10. Quiet(p, n) /\ n.rst = p.rst
  <2>1. /\ POK(n) /\ n.state = "FREED" /\ n.conn = now.conn /\ n.rst = now.rst
        /\ n.rx.read = now.rx.read /\ n.rx.canRead = now.rx.canRead
    BY <1>5, FreePcbPOK, FreePcbFields, PurgeRxRead DEF POK
  <2> HIDE DEF n
  <2>2. Quiet(now, n)
    BY <2>1, FreedQuiet
  <2> QED
    BY <1>3, <1>6, <2>1, <2>2, QuietQuiet
<1>11. Quiet(p, v) /\ v.err # "none"
  <2>1. /\ POK(z) /\ z.state = "FREED" /\ z.conn = x.conn
        /\ z.rx.read = x.rx.read /\ z.rx.canRead = x.rx.canRead
    BY <1>7, FreePcbPOK, FreePcbFields, PurgeRxRead DEF POK
  <2> HIDE DEF z
  <2>2. z \in PType /\ z.rst \in BOOLEAN
    BY <2>1 DEF POK, Base, PType
  <2>3. (z.rst \/ KeepaliveOver(now)) \in BOOLEAN
    BY <2>2 DEF KeepaliveOver
  <2>4. POK(w)
    BY <2>1, <2>3, SetRst
  <2>5. w.state = z.state /\ w.rx = z.rx /\ w.conn = z.conn
    BY <2>2 DEF PType
  <2> HIDE DEF w
  <2>6. "ERR_ABRT" \in Errs
    BY DEF Errs
  <2>7. /\ POK(v) /\ v.state = w.state /\ v.rx = w.rx /\ v.conn = w.conn
        /\ v.err \in {"ERR_ABRT", "unset"}
    BY <2>4, <2>6, ReportPOK, ReportBase, ReportFields DEF POK
  <2> HIDE DEF v
  <2>8. Quiet(x, v)
    BY <2>1, <2>5, <2>7, FreedQuiet
  <2> QED
    BY <1>8, <2>7, <2>8, QuietQuiet
<1>12. Quiet(p, p)
  BY SameQuiet
<1>13. w = [z EXCEPT !.rst = @ \/ KeepaliveOver(now)]
  BY <1>7, FreePcbPOK DEF POK, Base, PType
<1> HIDE DEF o, n, w
<1>14. tcp_slowtmr(p, out, due, all) \in {p, now, n, x, o, v}
  BY <1>4, <1>13 DEF tcp_slowtmr, x, o, n, z
<1> HIDE DEF z, v
<1> QED
  BY <1>3, <1>6, <1>7, <1>8, <1>9, <1>10, <1>11, <1>12, <1>14

-----------------------------------------------------------------------------
(* Requests: the invariant.                                                *)

\* What a step does to what was asked for: the four parts of RequestsRespected.
Respects ==
    /\ conn.rxclosed => rx'.read = rx.read
    /\ rx'.read # rx.read => rx.canRead /\ ~rx'.canRead
    /\ ~conn.rxclosed /\ conn'.rxclosed =>
          /\ Garbage = {} /\ rst' # rst /\ err' = err => rx.read < Accepted(rx)
          /\ odd' # odd => conn.close_after_writing /\ tx.acked = Written

\* With nothing outstanding and no FIN, what is acknowledged is what was written.
LEMMA AllWrittenAcked ==
    ASSUME NEW t, TxOK(t), SendOK(t), ~t.fin, t.una = t.lbb
    PROVE  t.acked = t.lbb - 1
<1>1. t.lbb \in Nat /\ 1 <= t.lbb
  BY TxFields DEF SendOK
<1>2. {s \in 0..(t.lbb - 1) : IsData(t, s)} = 1..(t.lbb - 1)
  BY <1>1 DEF IsData
<1>3. Cardinality(1..(t.lbb - 1)) = t.lbb - 1
  BY <1>1, FS_Interval
<1> QED
  BY <1>2, <1>3 DEF SendOK, DataIn

\* Each action respects what was asked for.
LEMMA NextRespects == RInv /\ [Next]_vars => Asked(Now)' /\ Respects
<1> SUFFICES ASSUME RInv, [Next]_vars
             PROVE  Asked(Now)' /\ Respects
  OBVIOUS
<1> USE NowFields
<1>0. /\ POK(Now) /\ Sound(Now) /\ Asked(Now) /\ Now \in PType /\ odd \in BOOLEAN
      /\ rx \in RxType /\ conn \in ConnType
  BY DEF RInv, SInv, IInv, POK, Base, PType
<1>1. Pace \subseteq BOOLEAN /\ Alloc \subseteq BOOLEAN
  BY DEF Pace, Alloc
<1>2. /\ Now'.state = state' /\ Now'.rx = rx' /\ Now'.tx = tx' /\ Now'.conn = conn'
      /\ Now'.err = err' /\ Now'.rst = rst'
  BY DEF Now
<1>3. CASE Input
  <2>1. PICK seg \in Segments(Now), all \in Pace, g \in FreedReads :
            Become(tcp_input(Now, seg, all, g))
    BY <1>3 DEF Input
  <2> DEFINE q == tcp_input(Now, seg, all, g)
  <2>2. POK(q) /\ Quiet(Now, q) /\ Become(q)
    BY <1>0, <1>1, <2>1, InputPOK, InputQuiet
  <2> HIDE DEF q
  <2>3. Now' = q
    BY <2>2, BecomeNow DEF POK, Base
  <2> QED
    BY <1>2, <2>2, <2>3 DEF Quiet, Step, Respects
<1>4. CASE Tick
  <2>1. PICK due \in BOOLEAN, out \in BOOLEAN, ok \in Alloc, all \in Pace,
             g \in FreedReads :
            /\ state # "FREED"
            /\ Become(tcp_tmr(Now, ~odd, out, ok, due, all, g))
    BY <1>4 DEF Tick, TickWith
  <2> DEFINE q == tcp_tmr(Now, ~odd, out, ok, due, all, g)
             fast == tcp_fasttmr(Now, out, ok, all, g)
  <2>2. POK(q) /\ Become(q)
    BY <1>0, <1>1, <2>1, TmrPOK
  <2>3. /\ POK(fast) /\ Step(Now, fast) /\ Asked(fast)
        /\ ~Now.conn.rxclosed /\ fast.conn.rxclosed =>
              /\ Now.conn.close_after_writing
              /\ Now.state \in Live => Now.tx.una = Now.tx.lbb
              /\ Garbage = {} /\ fast.rst # Now.rst => Now.rx.read < Accepted(Now.rx)
    <3>1. /\ POK(Now) /\ Sound(Now) /\ Asked(Now)
          /\ out \in BOOLEAN /\ ok \in BOOLEAN /\ all \in BOOLEAN /\ g \in FreedReads
      BY <1>0, <1>1
    <3>2. POK(fast)
      BY <1>1, <3>1, FasttmrPOK
    <3> QED
      BY <1>1, <3>1, <3>2, FasttmrStep
  <2> HIDE DEF fast
  <2>4. Quiet(fast, q) /\ (q.rst = fast.rst \/ q.err # "none")
    <3>1. Quiet(fast, fast)
      BY <2>3, SameQuiet
    <3>2. /\ Quiet(fast, tcp_slowtmr(fast, out, due, all))
          /\ \/ tcp_slowtmr(fast, out, due, all).rst = fast.rst
             \/ tcp_slowtmr(fast, out, due, all).err # "none"
      BY <1>1, <2>3, SlowtmrQuiet
    <3> QED
      BY <3>1, <3>2 DEF tcp_tmr, fast
  <2> HIDE DEF q
  <2>5. Now' = q /\ Step(Now, q)
    BY <2>2, <2>3, <2>4, BecomeNow, StepStep DEF POK, Base, Quiet
  <2>6. ASSUME ~conn.rxclosed, conn'.rxclosed
        PROVE  /\ Garbage = {} /\ rst' # rst /\ err' = err => rx.read < Accepted(rx)
               /\ conn.close_after_writing /\ tx.acked = Written
    <3>1. fast.conn.rxclosed
      BY <1>2, <2>4, <2>5, <2>6 DEF Quiet
    <3>2. err = "none"
      BY <1>0, <2>1 DEF Asked
    <3>3. state \in Live /\ ~tx.fin
      BY <1>0, <2>1, <2>6 DEF POK, Base, PType, Sound, States, Live, Closing, Writable
    <3>4. tx.una = tx.lbb /\ conn.close_after_writing
      BY <2>3, <2>6, <3>1, <3>3
    <3>5. tx.acked = Written
      BY <1>0, <3>3, <3>4, AllWrittenAcked DEF POK, Base, Sound, Written
    <3> QED
      BY <1>2, <2>3, <2>4, <2>5, <2>6, <3>1, <3>2, <3>4, <3>5
  <2> QED
    BY <1>2, <2>4, <2>5, <2>6 DEF Quiet, Step, Respects
<1>5. CASE close
  <2>1. PICK ok \in Alloc, all \in Pace :
            Become(tcp_close(Now, ok, all)) /\ odd' = odd
    BY <1>5 DEF close
  <2> DEFINE q == tcp_close(Now, ok, all)
  <2>2. /\ POK(q) /\ Become(q) /\ Step(Now, q) /\ Asked(q)
        /\ Garbage = {} /\ q.rst # Now.rst => Now.rx.read < Accepted(Now.rx)
    BY <1>0, <1>1, <2>1, ClosePOK, CloseStep
  <2> HIDE DEF q
  <2>3. Now' = q
    BY <2>2, BecomeNow DEF POK, Base
  <2> QED
    BY <1>2, <2>1, <2>2, <2>3 DEF Step, Respects
<1>6. CASE (\E n \in 1..MaxWritten : write(n)) \/ UNCHANGED vars
  <2>1. UNCHANGED <<state, rx, conn, err, rst>>
    BY <1>6 DEF write, vars
  <2> QED
    BY <1>0, <1>2, <2>1 DEF Asked, Respects
<1>7. CASE TimerEnds \/ syncSetDelegate \/ asyncSetDelegate \/ closeAfterWriting
  <2>1. /\ UNCHANGED <<state, rx, err, rst>>
        /\ conn'.rxclosed = conn.rxclosed
    BY <1>0, <1>7 DEF TimerEnds, syncSetDelegate, asyncSetDelegate,
                      closeAfterWriting, ConnType
  <2> QED
    BY <1>0, <1>2, <2>1 DEF Asked, Respects
<1>8. CASE readData
  <2>1. /\ UNCHANGED <<state, conn, err, rst>>
        /\ rx'.read = rx.read /\ rx'.refused = rx.refused
    BY <1>0, <1>8 DEF readData, RxType
  <2> QED
    BY <1>0, <1>2, <2>1 DEF Asked, Respects
<1> QED
  BY <1>3, <1>4, <1>5, <1>6, <1>7, <1>8 DEF Next

-----------------------------------------------------------------------------
(* Requests: the theorems.                                                 *)

\* Nobody is told of an end before it, and closed connections keep no data.
THEOREM AskedInvariance == Spec => []RInv
<1>1. Init => Asked(Now)
  BY NowFields DEF Init, Asked
<1>2. RInv /\ [Next]_vars => Asked(Now)'
  BY NextRespects
<1>3. RInv <=> SInv /\ Asked(Now)
  BY DEF RInv
<1> QED
  BY <1>1, <1>2, <1>3, SoundInvariance, PTL DEF Spec

\* ZPTCPConnection.m: nothing is passed to didReadData: after close; it comes once for each
\* readData; closeAfterWriting closes when all that was written is acknowledged; and, if
\* a freed pbuf still reads as its length, close resets only what was not read.
THEOREM RequestsKept ==
    ASSUME Garbage = {}
    PROVE  Spec => RequestsRespected
<1>1. RInv /\ [Next]_vars =>
          [~conn.rxclosed /\ conn'.rxclosed /\ rst' # rst /\ err' = err =>
              rx.read < Accepted(rx)]_vars
  BY NextRespects DEF Respects
<1>2. RInv /\ [Next]_vars => [conn.rxclosed => rx'.read = rx.read]_vars
  BY NextRespects DEF Respects
<1>3. RInv /\ [Next]_vars => [rx'.read # rx.read => rx.canRead /\ ~rx'.canRead]_vars
  BY NextRespects DEF Respects
<1>4. RInv /\ [Next]_vars =>
          [~conn.rxclosed /\ conn'.rxclosed /\ odd' # odd =>
              /\ conn.close_after_writing
              /\ tx.acked = Written]_vars
  BY NextRespects DEF Respects
<1> QED
  BY <1>1, <1>2, <1>3, <1>4, AskedInvariance, PTL
  DEF Spec, RequestsRespected, CloseResetsOnlyUnread, NothingReadAfterClose,
      ReadOnDemand, ClosedAfterWriting

-----------------------------------------------------------------------------
(* What the application sees.                                              *)

\* The bytes written, of the send half t.
WrittenOf(t) == t.lbb - (IF t.fin THEN 2 ELSE 1)

\* Data read, with the request it answers.
ShowsReads(p, q) ==
    \/ q.rx.read = p.rx.read /\ q.rx.canRead = p.rx.canRead
    \/ p.rx.read < q.rx.read /\ ~p.conn.close_after_writing

\* Bytes reported as written; no function but write adds to those written.
ShowsAcks(t, s) ==
    /\ WrittenOf(s) = WrittenOf(t)
    /\ t.acked <= s.acked
    /\ t.acked <= WrittenOf(t) => s.acked <= WrittenOf(s)

Shows(p, q) ==
    /\ p \in PType /\ q \in PType
    /\ ShowsReads(p, q)
    /\ p.rx.eof > 0 => q.rx.eof > 0
    /\ ShowsAcks(p.tx, q.tx)
    /\ q.conn.delegate = p.conn.delegate
    /\ q.conn.close_after_writing = p.conn.close_after_writing
    /\ p.conn.open => q.conn.open
    /\ p.rst => q.rst

-----------------------------------------------------------------------------
(* The refinement: functions on the state of the connection.               *)

\* One step behind another.
LEMMA ShowsShows ==
    ASSUME NEW p, NEW q, NEW s, Shows(p, q), Shows(q, s)
    PROVE  Shows(p, s)
<1>1. /\ p.rx.read \in Nat /\ q.rx.read \in Nat /\ s.rx.read \in Nat
      /\ p.tx.acked \in Int /\ q.tx.acked \in Int /\ s.tx.acked \in Int
  BY ConstantsAssumption DEF Shows, PType, RxType, TxType
<1>2. ShowsReads(p, s)
  BY <1>1 DEF Shows, ShowsReads
<1>3. ShowsAcks(p.tx, s.tx)
  BY <1>1 DEF Shows, ShowsAcks
<1> QED
  BY <1>2, <1>3 DEF Shows

\* Numbers that move between the queues, the time, the state, the report, a RST:
\* none of this is in Shows.
LEMMA SameShows ==
    ASSUME NEW p \in PType, NEW q \in PType,
           q.rx.read = p.rx.read, q.rx.canRead = p.rx.canRead, q.rx.eof = p.rx.eof,
           q.tx.lbb = p.tx.lbb, q.tx.fin = p.tx.fin, q.tx.acked = p.tx.acked,
           q.conn.delegate = p.conn.delegate,
           q.conn.close_after_writing = p.conn.close_after_writing,
           p.conn.open => q.conn.open, p.rst => q.rst
    PROVE  Shows(p, q)
<1>1. p.tx.acked \in Int
  BY DEF PType, TxType
<1>2. ShowsAcks(p.tx, q.tx)
  BY <1>1 DEF ShowsAcks, WrittenOf
<1> QED
  BY <1>2 DEF Shows, ShowsReads

\* Purging forgets nothing the application sees.
LEMMA PurgeShows ==
    ASSUME NEW p, Base(p)
    PROVE  Shows(p, Purge(p)) /\ Purge(p).rst = p.rst /\ Purge(p).err = p.err
<1>1. p \in PType /\ p.rx \in RxType /\ p.tx \in TxType
  BY DEF Base, RxOK, TxOK
<1>2. /\ Purge(p) \in PType /\ Purge(p).conn = p.conn
      /\ Purge(p).rx = PurgeRx(p.rx) /\ Purge(p).tx = PurgeTx(p.tx)
  BY PurgeBase DEF Base
<1>3. Purge(p).rst = p.rst /\ Purge(p).err = p.err
  BY <1>1 DEF Purge, PType
<1>4. /\ PurgeRx(p.rx).read = p.rx.read /\ PurgeRx(p.rx).canRead = p.rx.canRead
      /\ PurgeRx(p.rx).eof = p.rx.eof
      /\ PurgeTx(p.tx).lbb = p.tx.lbb /\ PurgeTx(p.tx).fin = p.tx.fin
      /\ PurgeTx(p.tx).acked = p.tx.acked
  BY <1>1 DEF PurgeRx, PurgeTx, RxType, TxType
<1> QED
  BY <1>1, <1>2, <1>3, <1>4, SameShows

\* ... and neither does freeing.
LEMMA FreeShows ==
    ASSUME NEW p, Base(p)
    PROVE  Shows(p, FreePcb(p))
<1> DEFINE q == Purge(p)
           s == [q EXCEPT !.state = "FREED"]
<1>1. Base(q) /\ Shows(p, q)
  BY PurgeBase, PurgeShows
<1>2. q \in PType
  BY <1>1 DEF Base
<1> HIDE DEF q
<1>3. /\ s \in PType /\ s.rx = q.rx /\ s.tx = q.tx /\ s.conn = q.conn
      /\ s.rst = q.rst
  BY <1>2 DEF PType, States
<1> HIDE DEF s
<1>4. Shows(p, s)
  BY <1>1, <1>2, <1>3, SameShows, ShowsShows
<1> QED
  BY <1>4 DEF FreePcb, s, q

\* A report is not in Shows: the service has it from the end.
LEMMA ReportShows ==
    ASSUME NEW p, Base(p), NEW e \in Errs
    PROVE  Shows(p, Report(p, e))
<1>1. /\ p \in PType /\ Report(p, e) \in PType
      /\ Report(p, e).rx = p.rx /\ Report(p, e).tx = p.tx
      /\ Report(p, e).conn = p.conn /\ Report(p, e).rst = p.rst
  BY ReportBase, ReportFields DEF Base
<1> QED
  BY <1>1, SameShows

\* A RST once sent stays sent.
LEMMA RstShows ==
    ASSUME NEW p, POK(p), NEW b \in BOOLEAN, p.rst => b
    PROVE  Shows(p, [p EXCEPT !.rst = b])
<1> DEFINE q == [p EXCEPT !.rst = b]
<1>1. p \in PType
  BY DEF POK, Base
<1>2. q \in PType /\ q.rx = p.rx /\ q.tx = p.tx /\ q.conn = p.conn /\ q.rst = b
  BY <1>1 DEF PType
<1> HIDE DEF q
<1>3. Shows(p, q)
  BY <1>1, <1>2, SameShows
<1> QED
  BY <1>3 DEF q

\* Moving numbers between the queues.
LEMMA TxShows ==
    ASSUME NEW p, POK(p), NEW t \in TxType, Kept(p.tx, t)
    PROVE  Shows(p, [p EXCEPT !.tx = t])
<1> DEFINE q == [p EXCEPT !.tx = t]
<1>1. p \in PType
  BY DEF POK, Base
<1>2. q \in PType /\ q.rx = p.rx /\ q.tx = t /\ q.conn = p.conn /\ q.rst = p.rst
  BY <1>1 DEF PType
<1> HIDE DEF q
<1>3. Shows(p, q)
  BY <1>1, <1>2, SameShows DEF Kept
<1> QED
  BY <1>3 DEF q

\* tcp_output as a step of a handler.
LEMMA OutputShows ==
    ASSUME NEW p, POK(p), NEW all \in BOOLEAN
    PROVE  Shows(p, Output(p, all))
<1>1. p \in PType /\ TxOK(p.tx)
  BY DEF POK, Base
<1>2. tcp_output(p.tx, all) \in TxType /\ Kept(p.tx, tcp_output(p.tx, all))
  BY <1>1, OutputOK, OutputSend DEF TxOK
<1>3. Shows(p, [p EXCEPT !.tx = tcp_output(p.tx, all)])
  BY <1>2, TxShows
<1> QED
  BY <1>1, <1>3 DEF Output, PType

\* Activity.
LEMMA RefreshShows ==
    ASSUME NEW p, POK(p)
    PROVE  Shows(p, Refresh(p))
<1>1. p \in PType /\ Refresh(p) \in PType
  BY RefreshPOK DEF POK, Base
<1>2. /\ Refresh(p).rx = p.rx /\ Refresh(p).tx = p.tx
      /\ Refresh(p).conn = p.conn /\ Refresh(p).rst = p.rst
  BY <1>1 DEF Refresh, PType
<1> QED
  BY <1>1, <1>2, SameShows

\* Offering refused data again: what is read is more than before.
LEMMA RefusedShows ==
    ASSUME NEW p, POK(p), NEW g \in FreedReads
    PROVE  Shows(p, [p EXCEPT !.rx = tcp_process_refused_data(p.rx, p.conn, g)])
<1> DEFINE r == tcp_process_refused_data(p.rx, p.conn, g)
           q == [p EXCEPT !.rx = r]
<1>1. /\ p \in PType /\ p.rx \in RxType /\ p.conn \in ConnType /\ q \in PType
      /\ r \in RxType
  <2>1. p \in PType /\ p.rx \in RxType /\ p.conn \in ConnType
    BY DEF POK, Base, PType
  <2>2. RxOK(r)
    BY <2>1, ProcessRefusedOK DEF POK, Base
  <2> QED
    BY <2>1, <2>2 DEF RxOK, PType
<1>2. p.rx.read \in Nat /\ p.rx.refused \in Nat /\ p.rx.eof \in Nat
  BY <1>1, ConstantsAssumption DEF RxType
<1>3. /\ \/ r.read = p.rx.read /\ r.canRead = p.rx.canRead
         \/ p.rx.read < r.read /\ ~p.conn.close_after_writing
      /\ p.rx.eof > 0 => r.eof > 0
  <2>1. CASE p.rx.refused = 0 \/ ~Takes(p.rx, p.conn)
    BY <2>1 DEF tcp_process_refused_data
  <2>2. CASE ~(p.rx.refused = 0 \/ ~Takes(p.rx, p.conn))
    <3> DEFINE eof == EofReport(p.conn)
    <3>1. eof \in {0, 1}
      BY <1>1, EofReportType
    <3>2. /\ r.read = p.rx.read + p.rx.refused
          /\ r.eof = IF p.rx.fin THEN p.rx.eof + eof ELSE p.rx.eof
      BY <1>1, <2>2 DEF tcp_process_refused_data, RxType
    <3> HIDE DEF eof, r
    <3> QED
      BY <1>2, <2>2, <3>1, <3>2 DEF Takes
  <2> QED
    BY <2>1, <2>2
<1> HIDE DEF r
<1>4. q.rx = r /\ q.tx = p.tx /\ q.conn = p.conn /\ q.rst = p.rst
  BY <1>1 DEF PType
<1> HIDE DEF q
<1>5. p.tx.acked \in Int
  BY <1>1 DEF PType, TxType
<1>6. ShowsAcks(p.tx, q.tx)
  BY <1>4, <1>5 DEF ShowsAcks
<1>7. Shows(p, q)
  BY <1>1, <1>3, <1>4, <1>6 DEF Shows, ShowsReads
<1> QED
  BY <1>7 DEF q, r

\* tcp_abort.
LEMMA AbortShows ==
    ASSUME NEW p, Base(p)
    PROVE  Shows(p, tcp_abort(p))
<1> DEFINE z == FreePcb(p)
           q == [z EXCEPT !.rst = TRUE]
           r == Report(q, "ERR_ABRT")
<1>1. POK(z) /\ Shows(p, z)
  BY FreePcbPOK, FreeShows
<1> HIDE DEF z
<1>2. POK(q) /\ Shows(z, q)
  BY <1>1, SetRst, RstShows
<1> HIDE DEF q
<1>3. Shows(q, r)
  BY <1>2, ReportShows DEF POK, Errs
<1> HIDE DEF r
<1>4. Shows(p, r)
  BY <1>1, <1>2, <1>3, ShowsShows
<1>5. tcp_abort(p) \in {z, r}
  BY DEF tcp_abort, z, q, r
<1> QED
  BY <1>1, <1>4, <1>5

\* An acceptable RST.
LEMMA ResetShows ==
    ASSUME NEW p, POK(p)
    PROVE  Shows(p, Reset(p))
<1> DEFINE r == Report(p, "ERR_RST")
<1>1. Base(r) /\ Shows(p, r)
  BY ReportBase, ReportShows DEF POK, Errs
<1> HIDE DEF r
<1>2. Shows(p, FreePcb(r))
  BY <1>1, FreeShows, ShowsShows
<1> QED
  BY <1>2 DEF Reset, r

\* The FIN is a number of its own: it is not written.
LEMMA ShutdownFinShows ==
    ASSUME NEW p, POK(p), p.conn.rxclosed, NEW ok \in BOOLEAN, NEW all \in BOOLEAN
    PROVE  LET q == tcp_close_shutdown_fin(p, ok, all)
           IN /\ Shows(p, q)
              /\ q.state = "FREED" => p.state = "FREED"
              /\ q.rx = p.rx /\ q.tx.acked = p.tx.acked
              /\ q.err = p.err /\ q.rst = p.rst
              /\ q.conn.rxclosed /\ q.conn.open = p.conn.open
<1> DEFINE f == tcp_send_fin(p.tx)
           t == tcp_output(f, all)
           st == IF p.state = "CLOSE_WAIT" THEN "LAST_ACK" ELSE "FIN_WAIT_1"
           q == [p EXCEPT !.tx = t, !.state = st]
           w == [p EXCEPT !.conn.closepend = TRUE]
<1>1. p \in PType /\ p.conn \in ConnType /\ TxOK(p.tx) /\ p.tx \in TxType
  BY DEF POK, Base, PType
<1>2. p.tx.acked \in Int /\ p.tx.lbb \in Int /\ p.tx.fin \in BOOLEAN
  BY <1>1, TxFields
<1>3. CASE p.state \notin Writable
  BY <1>1, <1>3, SameShows DEF tcp_close_shutdown_fin
<1>4. CASE p.state \in Writable /\ (ok \/ p.tx.unsent # {})
  <2>1. tcp_close_shutdown_fin(p, ok, all) = q
    BY <1>1, <1>4 DEF tcp_close_shutdown_fin, PType
  <2>2. ~p.tx.fin
    BY <1>4 DEF POK
  <2>3. TxOK(f) /\ f.lbb = p.tx.lbb + 1 /\ f.fin = TRUE /\ f.acked = p.tx.acked
    BY <1>1, <2>2, SendFinOK DEF tcp_send_fin, TxType
  <2> HIDE DEF f
  <2>4. t \in TxType /\ Kept(f, t)
    BY <2>3, OutputOK, OutputSend DEF TxOK
  <2>5. t.acked = p.tx.acked /\ ShowsAcks(p.tx, t)
    BY <1>2, <2>2, <2>3, <2>4 DEF ShowsAcks, WrittenOf, Kept
  <2> HIDE DEF t
  <2>6. st \in States /\ st # "FREED"
    BY DEF States, Live
  <2> HIDE DEF st
  <2>7. /\ q \in PType /\ q.state = st /\ q.rx = p.rx /\ q.tx = t
        /\ q.conn = p.conn /\ q.err = p.err /\ q.rst = p.rst
    BY <1>1, <2>4, <2>6 DEF PType
  <2> HIDE DEF q
  <2>8. Shows(p, q)
    BY <1>1, <2>5, <2>7 DEF Shows, ShowsReads
  <2> QED
    BY <2>1, <2>5, <2>6, <2>7, <2>8
<1>5. CASE p.state \in Writable /\ ~(ok \/ p.tx.unsent # {})
  <2>1. /\ w \in PType /\ w.state = p.state /\ w.rx = p.rx /\ w.tx = p.tx
        /\ w.err = p.err /\ w.rst = p.rst
        /\ w.conn.rxclosed = p.conn.rxclosed /\ w.conn.open = p.conn.open
        /\ w.conn.delegate = p.conn.delegate
        /\ w.conn.close_after_writing = p.conn.close_after_writing
    BY <1>1 DEF PType, ConnType
  <2>2. tcp_close_shutdown_fin(p, ok, all) = w
    BY <1>5 DEF tcp_close_shutdown_fin
  <2> HIDE DEF w
  <2> QED
    BY <1>1, <2>1, <2>2, SameShows
<1> QED
  BY <1>3, <1>4, <1>5

\* tcp_close passes nothing on, reports nothing, and ends at once only with a RST.
LEMMA CloseShows ==
    ASSUME NEW p, POK(p), NEW ok \in BOOLEAN, NEW all \in BOOLEAN
    PROVE  LET q == tcp_close(p, ok, all)
           IN /\ Shows(p, q)
              /\ q.state = "FREED" => p.state = "FREED" \/ q.rst
              /\ q.rx.read = p.rx.read /\ q.rx.canRead = p.rx.canRead
              /\ q.rx.eof = p.rx.eof /\ q.tx.acked = p.tx.acked
              /\ q.err = p.err
              /\ q.conn.rxclosed /\ q.conn.open = p.conn.open
<1> DEFINE c == [p.conn EXCEPT !.rxclosed = TRUE]
           q == [p EXCEPT !.conn = c]
           z == Purge(q)
           s == [z EXCEPT !.rst = TRUE,
                          !.state = IF z.state = "ESTABLISHED" THEN "TIME_WAIT"
                                                               ELSE "FREED"]
           f == tcp_close_shutdown_fin(q, ok, all)
<1>1. p \in PType /\ p.conn \in ConnType
  BY DEF POK, Base, PType
<1>2. /\ c \in ConnType /\ c.rxclosed /\ c.delegate = p.conn.delegate
      /\ c.close_after_writing = p.conn.close_after_writing
      /\ c.open = p.conn.open /\ c.closepend = p.conn.closepend
  BY <1>1 DEF ConnType
<1>3. /\ q \in PType /\ q.state = p.state /\ q.rx = p.rx /\ q.tx = p.tx
      /\ q.conn = c /\ q.err = p.err /\ q.rst = p.rst
  BY <1>1, <1>2 DEF PType
<1>4. POK(q)
  BY <1>2, <1>3 DEF POK, Base
<1>5. q = [p EXCEPT !.conn.rxclosed = TRUE]
  BY <1>1 DEF PType, ConnType
<1> HIDE DEF q, c
<1>6. Shows(p, q)
  BY <1>1, <1>2, <1>3, SameShows
<1>7. /\ Shows(q, f)
      /\ f.state = "FREED" => q.state = "FREED"
      /\ f.rx = q.rx /\ f.tx.acked = q.tx.acked /\ f.err = q.err
      /\ f.conn.rxclosed /\ f.conn.open = q.conn.open
  BY <1>2, <1>3, <1>4, ShutdownFinShows
<1>8. /\ Shows(p, s) /\ s.rst
      /\ s.rx.read = p.rx.read /\ s.rx.canRead = p.rx.canRead
      /\ s.rx.eof = p.rx.eof /\ s.tx.acked = p.tx.acked /\ s.err = p.err
      /\ s.conn.rxclosed /\ s.conn.open = p.conn.open
  <2>1. q.rx \in RxType /\ q.tx \in TxType /\ Base(q)
    BY <1>4 DEF POK, Base, RxOK, TxOK
  <2>2. /\ Shows(q, z) /\ z.rx = PurgeRx(q.rx) /\ z.tx = PurgeTx(q.tx)
        /\ z.conn = q.conn /\ z.err = q.err /\ z.rst = q.rst
    BY <2>1, PurgeShows, PurgeBase
  <2>3. /\ z.rx.read = q.rx.read /\ z.rx.canRead = q.rx.canRead
        /\ z.rx.eof = q.rx.eof /\ z.tx.acked = q.tx.acked
    BY <2>1, <2>2 DEF PurgeRx, PurgeTx, RxType, TxType
  <2>4. z \in PType
    BY <2>2 DEF Shows
  <2> HIDE DEF z
  <2>5. /\ s \in PType /\ s.rx = z.rx /\ s.tx = z.tx /\ s.conn = z.conn
        /\ s.err = z.err /\ s.rst = TRUE
    BY <2>4 DEF PType, States
  <2> HIDE DEF s
  <2>6. Shows(z, s)
    BY <2>4, <2>5, SameShows
  <2> QED
    BY <1>2, <1>3, <1>6, <2>2, <2>3, <2>5, <2>6, ShowsShows
<1>9. tcp_close(p, ok, all) \in {s, f}
  BY <1>5 DEF tcp_close
<1> HIDE DEF s, f
<1> QED
  BY <1>2, <1>3, <1>6, <1>7, <1>8, <1>9, ShowsShows

-----------------------------------------------------------------------------
(* The refinement: segments.                                               *)

\* The numbers 1 to n are n.
LEMMA IntervalSize ==
    ASSUME NEW n \in Nat
    PROVE  Cardinality(1..n) = n
<1>1. 1 \in Int /\ n \in Int
  OBVIOUS
<1>2. Cardinality(1..n) = IF 1 > n THEN 0 ELSE n - 1 + 1
  BY <1>1, FS_Interval, Zenon
<1> QED
  BY <1>2

\* All the data there is was written.
LEMMA DataWritten ==
    ASSUME NEW t, TxOK(t), SendOK(t)
    PROVE  DataIn(t, 0..(t.lbb - 1)) = WrittenOf(t)
<1>1. t.lbb \in Nat /\ 1 <= t.lbb /\ (t.fin => 2 <= t.lbb) /\ t.fin \in BOOLEAN
  BY TxFields DEF SendOK
<1>2. WrittenOf(t) \in Nat
  BY <1>1 DEF WrittenOf
<1>3. {x \in 0..(t.lbb - 1) : IsData(t, x)} = 1..WrittenOf(t)
  BY <1>1 DEF IsData, WrittenOf
<1> QED
  BY <1>2, <1>3, IntervalSize DEF DataIn

\* An acknowledgement reports bytes, and none that was not written.
LEMMA AckShows ==
    ASSUME NEW t, TxOK(t), SendOK(t), NEW ackno \in 0..t.nxt,
           NEW w \in OldWnd..MaxPeerWnd, NEW dup \in BOOLEAN
    PROVE  ShowsAcks(t, AckReceived(t, ackno, w, dup))
<1> DEFINE s == AckReceived(t, ackno, w, dup)
<1>1. SendOK(s) /\ s.lbb = t.lbb /\ s.fin = t.fin /\ TxOK(s)
  BY AckSend, AckOK
<1>2. t.una <= s.una
  <2>1. t \in TxType /\ t.una \in Nat /\ ackno \in Nat
    BY TxFields DEF TxOK
  <2>2. WindowUpdate(t, w) \in TxType /\ Kept(t, WindowUpdate(t, w))
        /\ WindowUpdate(t, w).unsent = t.unsent /\ WindowUpdate(t, w).unacked = t.unacked
        /\ WindowUpdate(t, w).nxt = t.nxt
    <3>1. CASE w = OldWnd
      BY <2>1, <3>1 DEF WindowUpdate, Kept
    <3>2. CASE w # OldWnd
      <4>1. w \in 0..MaxPeerWnd
        BY <3>2, ConstantsAssumption DEF OldWnd
      <4> QED
        BY <2>1, <3>2, <4>1 DEF WindowUpdate, Kept, TxType
    <3> QED
      BY <3>1, <3>2
  <2> DEFINE u == WindowUpdate(t, w)
             v == tcp_rexmit_fast(u)
  <2>3. Kept(u, v)
    <3>1. TxOK(u) /\ SendOK(u)
      BY <2>2, MovedSend DEF TxOK, SendOK, Kept
    <3> QED
      BY <3>1, RexmitFastSend
  <2>4. CASE ackno > t.una
    BY <2>1, <2>2, <2>4 DEF AckReceived, TxType
  <2>5. CASE ~(ackno > t.una)
    <3>1. s \in {u, v}
      BY <2>5 DEF AckReceived
    <3> QED
      BY <2>1, <2>2, <2>3, <3>1 DEF Kept
  <2> QED
    BY <2>4, <2>5
<1> HIDE DEF s
<1>3. /\ t.una \in Int /\ s.una \in Int /\ t.lbb \in Int /\ 0 <= t.una
      /\ s.una <= t.lbb
      /\ t.acked \in Int /\ s.acked \in Int
  BY <1>1, TxFields DEF SendOK
<1>4. /\ t.acked = DataIn(t, 0..(t.una - 1))
      /\ s.acked = DataIn(t, 0..(s.una - 1))
  BY <1>1, DataSame DEF SendOK
<1>5. DataIn(t, 0..(s.una - 1))
          = DataIn(t, 0..(t.una - 1)) + DataIn(t, t.una..(s.una - 1))
  BY <1>2, <1>3, DataSplit
<1>6. DataIn(t, t.una..(s.una - 1)) \in Nat
  <2>1. s.una - 1 \in Int
    BY <1>3
  <2> QED
    BY <1>3, <2>1, DataCount
<1>7. t.acked <= s.acked
  BY <1>3, <1>4, <1>5, <1>6
<1>8. s.acked <= WrittenOf(s)
  <2>1. DataIn(t, 0..(t.lbb - 1))
            = DataIn(t, 0..(s.una - 1)) + DataIn(t, s.una..(t.lbb - 1))
    <3>1. 0 \in Int /\ 0 <= s.una
      BY <1>2, <1>3
    <3> QED
      BY <1>3, <3>1, DataSplit
  <2>2. DataIn(t, s.una..(t.lbb - 1)) \in Nat
    <3>1. t.lbb - 1 \in Int
      BY <1>3
    <3> QED
      BY <1>3, <3>1, DataCount
  <2>3. DataIn(t, 0..(t.lbb - 1)) = WrittenOf(t)
    BY DataWritten
  <2>4. WrittenOf(s) = WrittenOf(t)
    BY <1>1 DEF WrittenOf
  <2> QED
    BY <1>3, <1>4, <2>1, <2>2, <2>3, <2>4
<1>9. ShowsAcks(t, s)
  BY <1>1, <1>7, <1>8 DEF ShowsAcks, WrittenOf
<1> QED
  BY <1>9 DEF s

\* A segment that tcp_process accepts.
LEMMA ReceiveShows ==
    ASSUME NEW p, POK(p), Sound(p), p.state \in Live, NEW seg, SegOK(seg, p),
           NEW all \in BOOLEAN, NEW g \in FreedReads
    PROVE  Shows(p, Receive(p, seg, all, g))
<1> DEFINE t == AckReceived(p.tx, seg.ackno, seg.w, seg.dup)
           accepts == p.state \in Receiving \cup {"SYN_RCVD"}
           k == IF accepts THEN TrimmedLen(p.rx, seg.k) ELSE 0
           f == accepts /\ TrimmedFin(p.rx, seg.k, seg.f)
           acked == FinAcked(t, seg.ackno)
           st == StateAfter(p.state, f, acked)
           c == [p.conn EXCEPT !.open = TRUE]
           received == [p EXCEPT !.tx = t, !.state = st, !.conn = c]
           q == IF st = "TIME_WAIT" THEN Purge(received) ELSE received
           r == AcceptInSequence(q.rx, p.conn, k, f, g)
           s == [q EXCEPT !.rx = r]
           v == Output(s, all)
<1>1. /\ p \in PType /\ p.conn \in ConnType /\ p.rx \in RxType
      /\ TxOK(p.tx) /\ SendOK(p.tx)
  BY DEF POK, Base, PType, Sound
<1>2. TxOK(t) /\ ShowsAcks(p.tx, t)
  BY <1>1, AckOK, AckShows DEF SegOK
<1>3. f \in BOOLEAN /\ acked \in BOOLEAN /\ k \in Nat
  <2>1. p.rx.wnd \in Nat
    BY <1>1, ConstantsAssumption DEF RxType
  <2> QED
    BY <2>1 DEF TrimmedFin, TrimmedLen, Min2, FinAcked, SegOK
<1>4. /\ c \in ConnType /\ c.open /\ c.delegate = p.conn.delegate
      /\ c.close_after_writing = p.conn.close_after_writing
      /\ c.closepend = p.conn.closepend /\ c.rxclosed = p.conn.rxclosed
  BY <1>1 DEF ConnType
<1> HIDE DEF t, k, f, acked, c
<1>5. /\ st \in States \cup {"CLOSED"}
      /\ st = "CLOSED" => p.state = "LAST_ACK"
  BY <1>3 DEF StateAfter, States, Live, Receiving
<1> HIDE DEF st
<1>6. /\ received \in PType /\ received.state = st /\ received.rx = p.rx
      /\ received.tx = t /\ received.conn = c /\ received.rst = p.rst
  BY <1>1, <1>2, <1>4, <1>5 DEF PType, TxOK
<1>7. received = [p EXCEPT !.tx = t, !.state = st, !.conn.open = TRUE]
  BY <1>1 DEF c, PType, ConnType
<1> HIDE DEF received
<1>8. Base(received) /\ Shows(p, received)
  <2>1. Base(received)
    BY <1>1, <1>2, <1>4, <1>6 DEF Base, POK
  <2> QED
    BY <1>1, <1>2, <1>4, <1>6, <2>1 DEF Shows, ShowsReads
<1>9. Base(q) /\ Shows(p, q) /\ q.conn = c
  BY <1>6, <1>8, PurgeBase, PurgeShows, ShowsShows
<1> HIDE DEF q
<1>10. CASE st = "CLOSED"
  <2>1. p.conn.rxclosed
    BY <1>5, <1>10 DEF POK, Closing
  <2>2. Receive(p, seg, all, g) = FreePcb(q)
    BY <1>7, <1>10, <2>1 DEF Receive, t, f, k, st, acked, q
  <2> QED
    BY <1>9, <2>2, FreeShows, ShowsShows
<1>11. CASE st # "CLOSED" /\ AfterClose(p, k)
  <2>1. Receive(p, seg, all, g) = tcp_abort(q)
    BY <1>7, <1>11 DEF Receive, t, f, k, st, acked, q
  <2> QED
    BY <1>9, <2>1, AbortShows, ShowsShows
<1>12. CASE st # "CLOSED" /\ ~AfterClose(p, k)
  <2>1. q \in PType /\ q.rx \in RxType /\ TxOK(q.tx)
    BY <1>9 DEF Base, RxOK
  <2>2. Receive(p, seg, all, g) = v
    BY <1>7, <1>12, <2>1 DEF Receive, t, f, k, st, acked, q, s, r, PType
  <2>3. v = [q EXCEPT !.rx = r, !.tx = tcp_output(q.tx, all)]
    BY <2>1 DEF Output, PType
  <2>4. v \in PType
    <3>1. POK(Receive(p, seg, all, g))
      BY ReceivePOK
    <3> QED
      BY <2>2, <3>1 DEF POK, Base
  <2>5. /\ \/ r.read = q.rx.read /\ r.canRead = q.rx.canRead
           \/ q.rx.read < r.read /\ ~p.conn.close_after_writing
        /\ q.rx.eof > 0 => r.eof > 0
    <3>1. CASE k + (IF f THEN 1 ELSE 0) = 0
      BY <1>3, <2>1, <3>1 DEF AcceptInSequence
    <3>2. CASE k + (IF f THEN 1 ELSE 0) # 0
      <4> DEFINE taken == k > 0 /\ Takes(q.rx, p.conn)
                 kept == k > 0 /\ ~taken
                 eof == EofReport(p.conn)
                 now == ReportFin(f, kept)
      <4>1. /\ r.canRead = (q.rx.canRead /\ ~taken)
            /\ r.read = IF taken THEN q.rx.read + k ELSE q.rx.read
            /\ r.eof = IF now THEN q.rx.eof + eof ELSE q.rx.eof
        BY <2>1, <3>2 DEF AcceptInSequence, RxType
      <4>2. eof \in {0, 1}
        BY <1>1, EofReportType
      <4>3. q.rx.read \in Nat /\ q.rx.eof \in Nat /\ q.rx.canRead \in BOOLEAN
        BY <2>1, ConstantsAssumption DEF RxType
      <4> HIDE DEF eof, now, r
      <4> QED
        BY <1>3, <4>1, <4>2, <4>3 DEF Takes
    <3> QED
      BY <3>1, <3>2
  <2> HIDE DEF r, v
  <2>6. /\ v.rx = r /\ v.tx = tcp_output(q.tx, all) /\ v.conn = q.conn
        /\ v.rst = q.rst
    BY <2>1, <2>3 DEF PType
  <2>7. ShowsAcks(q.tx, v.tx)
    <3>1. Kept(q.tx, v.tx) /\ q.tx.acked \in Int
      BY <2>1, <2>6, OutputSend, TxFields
    <3> QED
      BY <3>1 DEF Kept, ShowsAcks, WrittenOf
  <2>8. Shows(q, v)
    BY <1>4, <1>9, <2>1, <2>4, <2>5, <2>6, <2>7 DEF Shows, ShowsReads
  <2> QED
    BY <1>9, <2>2, <2>8, ShowsShows
<1> QED
  BY <1>10, <1>11, <1>12

\* tcp_process during the handshake.
LEMMA SynReceivedShows ==
    ASSUME NEW p, POK(p), Sound(p), p.state \in Live, NEW seg, SegOK(seg, p),
           NEW all \in BOOLEAN, NEW g \in FreedReads
    PROVE  Shows(p, SynReceived(p, seg, all, g))
<1> DEFINE a == [p EXCEPT !.rst = TRUE]
           b == [p EXCEPT !.tx = tcp_rexmit(p.tx)]
<1>1. p \in PType /\ TxOK(p.tx) /\ SendOK(p.tx)
  BY DEF POK, Base, Sound
<1>2. Shows(p, Receive(p, seg, all, g)) /\ Shows(p, Output(p, all))
  BY ReceiveShows, OutputShows
<1>3. POK(a) /\ Shows(p, a)
  BY SetRst, RstShows
<1>4. POK(b) /\ Shows(p, b)
  BY <1>1, RexmitOK, RexmitSend, SetTx, TxShows DEF TxOK
<1>5. b = [p EXCEPT !.tx = tcp_rexmit(@)]
  BY <1>1 DEF PType
<1> HIDE DEF a, b
<1>6. Shows(p, Output(a, all)) /\ Shows(p, Output(b, all))
  BY <1>3, <1>4, OutputShows, ShowsShows
<1> QED
  BY <1>2, <1>5, <1>6 DEF SynReceived, a

\* tcp_process in any state.
LEMMA ProcessShows ==
    ASSUME NEW p, POK(p), Sound(p), p.state \in Live, NEW seg, SegOK(seg, p),
           NEW all \in BOOLEAN, NEW g \in FreedReads
    PROVE  Shows(p, tcp_process(p, seg, all, g))
<1> DEFINE q == IF p.conn.rxclosed THEN p ELSE Refresh(p)
<1>0. Shows(p, p)
  BY SameShows DEF POK, Base
<1>1. /\ POK(q) /\ Sound(q) /\ Shows(p, q)
      /\ q.state = p.state /\ q.rx = p.rx /\ q.tx = p.tx
  BY <1>0, RefreshPOK, RefreshSound, RefreshShows
<1>2. SegOK(seg, q)
  BY <1>1 DEF SegOK
<1> HIDE DEF q
<1>3. Shows(p, Reset(p)) /\ Shows(p, Output(p, all))
  BY ResetShows, OutputShows
<1>4. Shows(p, SynReceived(q, seg, all, g))
  BY <1>1, <1>2, SynReceivedShows, ShowsShows
<1>5. Shows(p, Receive(q, seg, all, g))
  BY <1>1, <1>2, ReceiveShows, ShowsShows
<1> QED
  BY <1>3, <1>4, <1>5 DEF tcp_process, q

\* tcp_input, with a pcb.
LEMMA InputShows ==
    ASSUME NEW p, POK(p), Sound(p), p.state # "FREED", NEW seg \in Segments(p),
           NEW all \in BOOLEAN, NEW g \in FreedReads
    PROVE  Shows(p, tcp_input(p, seg, all, g))
<1> DEFINE r == tcp_process_refused_data(p.rx, p.conn, g)
           q == [p EXCEPT !.rx = r]
<1>1. p \in PType /\ p.state \in States /\ p.rst \in BOOLEAN
  BY DEF POK, Base, PType
<1>2. CASE p.state = "TIME_WAIT"
  <2>1. seg.exact \in BOOLEAN
    BY SegmentOK
  <2>2. [p EXCEPT !.rst = @ \/ seg.exact] = [p EXCEPT !.rst = p.rst \/ seg.exact]
    BY <1>1 DEF PType
  <2>3. (p.rst \/ seg.exact) \in BOOLEAN /\ (p.rst => p.rst \/ seg.exact)
    BY <1>1, <2>1
  <2>4. Shows(p, [p EXCEPT !.rst = p.rst \/ seg.exact])
    BY <2>3, RstShows
  <2>5. Shows(p, Refresh(p)) /\ Shows(p, p)
    BY <1>1, RefreshShows, SameShows
  <2> QED
    BY <1>2, <2>2, <2>4, <2>5 DEF tcp_input, tcp_timewait_input
<1>3. CASE p.state \in Live
  <2>1. POK(q) /\ Sound(q) /\ Shows(p, q) /\ r.nxt = p.rx.nxt
    BY RefusedPOK, RefusedSound, RefusedShows
  <2>2. q.state = p.state /\ q.tx = p.tx /\ q.rx = r
    BY <1>1 DEF PType
  <2>3. q = [p EXCEPT !.rx = tcp_process_refused_data(@, p.conn, g)]
    BY <1>1 DEF PType
  <2> HIDE DEF q
  <2>4. CASE q.rx.refused # 0 /\ seg.tcplen
    BY <1>3, <2>1, <2>3, <2>4 DEF tcp_input, Live
  <2>5. CASE ~(q.rx.refused # 0 /\ seg.tcplen)
    <3>1. SegOK(seg, q)
      BY <2>1, <2>2, <2>5, SegmentOK
    <3>2. Shows(p, tcp_process(q, seg, all, g))
      BY <1>3, <2>1, <2>2, <3>1, ProcessShows, ShowsShows
    <3> QED
      BY <1>3, <2>3, <2>5, <3>2 DEF tcp_input, Live
  <2> QED
    BY <2>4, <2>5
<1> QED
  BY <1>1, <1>2, <1>3 DEF States

-----------------------------------------------------------------------------
(* The refinement: timers.                                                 *)

\* tcp_fasttmr: its four duties one after the other.
LEMMA FasttmrShows ==
    ASSUME NEW p, POK(p), NEW out \in BOOLEAN, NEW ok \in BOOLEAN,
           NEW all \in BOOLEAN, NEW g \in FreedReads
    PROVE  Shows(p, tcp_fasttmr(p, out, ok, all, g))
<1> DEFINE acked == IF out THEN Output(p, all) ELSE p
           c == [acked.conn EXCEPT !.closepend = FALSE]
           q == [acked EXCEPT !.conn = c]
           fin == IF acked.conn.closepend
                  THEN tcp_close_shutdown_fin(
                            [acked EXCEPT !.conn.closepend = FALSE], ok, all)
                  ELSE acked
           read == [fin EXCEPT !.rx = tcp_process_refused_data(@, fin.conn, g)]
           w == tcp_close(read, ok, all)
<1>0. Shows(p, p)
  BY SameShows DEF POK, Base
<1>1. POK(acked) /\ Shows(p, acked)
  BY <1>0, OutputPOK, OutputShows
<1> HIDE DEF acked
<1>2. acked \in PType /\ acked.conn \in ConnType
  BY <1>1 DEF POK, Base, PType
<1>3. /\ c \in ConnType /\ c.closepend = FALSE /\ c.rxclosed = acked.conn.rxclosed
      /\ c.delegate = acked.conn.delegate /\ c.open = acked.conn.open
      /\ c.close_after_writing = acked.conn.close_after_writing
  BY <1>2 DEF ConnType
<1> HIDE DEF c
<1>4. /\ q \in PType /\ q.state = acked.state /\ q.rx = acked.rx
      /\ q.tx = acked.tx /\ q.conn = c /\ q.rst = acked.rst
  BY <1>2, <1>3 DEF PType
<1>5. q = [acked EXCEPT !.conn.closepend = FALSE]
  BY <1>2 DEF c, PType, ConnType
<1> HIDE DEF q
<1>6. POK(q) /\ Shows(acked, q)
  BY <1>1, <1>2, <1>3, <1>4, SameShows DEF POK, Base
<1>7. POK(fin) /\ Shows(p, fin)
  <2>1. acked.conn.closepend => q.conn.rxclosed
    BY <1>1, <1>3, <1>4 DEF POK, Base
  <2>2. acked.conn.closepend => /\ POK(tcp_close_shutdown_fin(q, ok, all))
                                /\ Shows(q, tcp_close_shutdown_fin(q, ok, all))
    BY <1>6, <2>1, ShutdownFinPOK, ShutdownFinShows
  <2> QED
    BY <1>1, <1>5, <1>6, <2>2, ShowsShows
<1> HIDE DEF fin
<1>8. POK(read) /\ Shows(p, read)
  <2>1. read = [fin EXCEPT !.rx = tcp_process_refused_data(fin.rx, fin.conn, g)]
    BY <1>7 DEF POK, Base, PType
  <2> HIDE DEF read
  <2> QED
    BY <1>7, <2>1, RefusedPOK, RefusedShows, ShowsShows
<1>9. tcp_fasttmr(p, out, ok, all, g)
          = IF read.conn.close_after_writing /\ AllWritten(read.tx) THEN w ELSE read
  BY Zenon DEF tcp_fasttmr, acked, fin
<1> HIDE DEF read
<1>10. Shows(p, w)
  BY <1>8, CloseShows, ShowsShows
<1> HIDE DEF w
<1> QED
  BY <1>8, <1>9, <1>10

\* The retransmission or the probe of a slow tick.
LEMMA RetransmitShows ==
    ASSUME NEW p, POK(p), Sound(p), p.state \in Live,
           NEW due \in BOOLEAN, NEW all \in BOOLEAN
    PROVE  Shows(p, Retransmit(p, due, all))
<1>1. p \in PType /\ TxOK(p.tx) /\ SendOK(p.tx)
  BY DEF POK, Base, Sound
<1>2. Shows(p, [p EXCEPT !.tx = tcp_zero_window_probe(p.tx)])
  BY <1>1, ProbeOK, ProbeSend, TxShows DEF TxOK
<1>3. Shows(p, [p EXCEPT !.tx = tcp_rexmit_rto(p.tx, all)])
  BY <1>1, RexmitRtoOK, RexmitRtoSend, TxShows DEF TxOK
<1>4. /\ [p EXCEPT !.tx = tcp_zero_window_probe(@)]
            = [p EXCEPT !.tx = tcp_zero_window_probe(p.tx)]
      /\ [p EXCEPT !.tx = tcp_rexmit_rto(@, all)]
            = [p EXCEPT !.tx = tcp_rexmit_rto(p.tx, all)]
  BY <1>1 DEF PType
<1>5. Shows(p, p)
  BY <1>1, SameShows
<1> QED
  BY <1>2, <1>3, <1>4, <1>5 DEF Retransmit

\* tcp_slowtmr.
LEMMA SlowtmrShows ==
    ASSUME NEW p, POK(p), Sound(p), NEW out \in BOOLEAN, NEW due \in BOOLEAN,
           NEW all \in BOOLEAN
    PROVE  Shows(p, tcp_slowtmr(p, out, due, all))
<1> DEFINE now == [p EXCEPT !.idle = Min2(p.idle + 1, IdleMax)]
           x == Retransmit(now, due, all)
           z == FreePcb(x)
           w == [z EXCEPT !.rst = z.rst \/ KeepaliveOver(now)]
           v == Report(w, "ERR_ABRT")
<1>1. p \in PType /\ p.idle \in 0..IdleMax /\ p.state \in States
  BY DEF POK, Base, PType
<1>2. Min2(p.idle + 1, IdleMax) \in 0..IdleMax
  BY <1>1, ConstantsAssumption DEF Min2, IdleMax
<1>3. /\ now.state = p.state /\ now.rx = p.rx /\ now.tx = p.tx
      /\ now.conn = p.conn /\ now.err = p.err /\ now.rst = p.rst
  BY <1>1 DEF PType
<1>4. now = [p EXCEPT !.idle = Min2(@ + 1, IdleMax)]
  BY <1>1 DEF PType
<1>5. POK(now)
  BY <1>2, SetIdle
<1> HIDE DEF now
<1>6. Sound(now) /\ Shows(p, now) /\ Shows(p, p)
  BY <1>1, <1>3, <1>5, SameSound, SameShows DEF POK, Base
<1>7. CASE p.state = "FREED"
  BY <1>6, <1>7 DEF tcp_slowtmr
<1>8. CASE p.state = "TIME_WAIT"
  <2>1. Shows(p, FreePcb(now))
    BY <1>5, <1>6, FreeShows, ShowsShows DEF POK
  <2>2. tcp_slowtmr(p, out, due, all) \in {now, FreePcb(now)}
    BY <1>4, <1>8 DEF tcp_slowtmr
  <2> QED
    BY <1>6, <2>1, <2>2
<1>9. CASE p.state \in Live
  <2>1. POK(x) /\ Shows(p, x)
    BY <1>3, <1>5, <1>6, <1>9, RetransmitPOK, RetransmitShows, ShowsShows
  <2> HIDE DEF x
  <2>2. Shows(p, Output(x, all))
    BY <2>1, OutputShows, ShowsShows
  <2>3. POK(z) /\ Shows(p, z)
    BY <2>1, FreePcbPOK, FreeShows, ShowsShows DEF POK
  <2> HIDE DEF z
  <2>4. z \in PType /\ z.rst \in BOOLEAN
    BY <2>3 DEF POK, Base, PType
  <2>5. (z.rst \/ KeepaliveOver(now)) \in BOOLEAN
    BY <2>4 DEF KeepaliveOver
  <2>6. POK(w) /\ Shows(p, w)
    BY <2>3, <2>5, SetRst, RstShows, ShowsShows
  <2>7. w = [z EXCEPT !.rst = @ \/ KeepaliveOver(now)]
    BY <2>4 DEF PType
  <2> HIDE DEF w
  <2>8. Shows(p, v)
    BY <2>6, ReportShows, ShowsShows DEF POK, Errs
  <2> HIDE DEF v
  <2>9. tcp_slowtmr(p, out, due, all) \in {x, Output(x, all), v}
    BY <1>4, <1>9, <2>7 DEF tcp_slowtmr, x, z, v, Live
  <2> QED
    BY <2>1, <2>2, <2>8, <2>9
<1> QED
  BY <1>1, <1>7, <1>8, <1>9 DEF States

\* tcp_tmr, with or without the slow timer; the connection is closed only for
\* closeAfterWriting.
LEMMA TmrShows ==
    ASSUME NEW p, POK(p), Sound(p), Asked(p), NEW slow \in BOOLEAN,
           NEW out \in BOOLEAN, NEW ok \in BOOLEAN, NEW due \in BOOLEAN,
           NEW all \in BOOLEAN, NEW g \in FreedReads
    PROVE  LET q == tcp_tmr(p, slow, out, ok, due, all, g)
           IN /\ Shows(p, q)
              /\ Step(p, q)
              /\ q.conn.rxclosed => p.conn.rxclosed \/ p.conn.close_after_writing
<1> DEFINE fast == tcp_fasttmr(p, out, ok, all, g)
           s == tcp_slowtmr(fast, out, due, all)
<1>1. /\ POK(fast) /\ Sound(fast) /\ Asked(fast) /\ Shows(p, fast) /\ Step(p, fast)
      /\ fast.conn.rxclosed => p.conn.rxclosed \/ p.conn.close_after_writing
  BY FasttmrPOK, FasttmrSound, FasttmrShows, FasttmrStep
<1> HIDE DEF fast
<1>2. /\ Shows(fast, s) /\ Step(fast, s) /\ s.conn.rxclosed = fast.conn.rxclosed
  BY <1>1, SlowtmrShows, SlowtmrQuiet DEF Quiet
<1>3. tcp_tmr(p, slow, out, ok, due, all, g) = IF slow THEN s ELSE fast
  BY DEF tcp_tmr, fast
<1> HIDE DEF s
<1> QED
  BY <1>1, <1>2, <1>3, ShowsShows, StepStep

-----------------------------------------------------------------------------
(* The refinement.                                                         *)

\* What is reported was written; only an open connection has a delegate.
Visible(p) ==
    /\ p.tx.acked <= WrittenOf(p.tx)
    /\ p.conn.delegate => p.conn.open

VInv == RInv /\ Visible(Now)

\* What a handler shows is Visible again.
LEMMA ShowsVisible ==
    ASSUME NEW p, NEW q, Visible(p), Shows(p, q)
    PROVE  Visible(q)
BY DEF Visible, Shows, ShowsAcks

\* A segment or a tick is a step of the service, or nothing the application sees.
LEMMA ServesAfter ==
    ASSUME VInv, POK(Now)', Sound(Now)', Asked(Now)', state # "FREED",
           Shows(Now, Now'), Step(Now, Now'),
           conn'.rxclosed => conn.rxclosed \/ conn.close_after_writing
    PROVE  Service!Serve
<1> USE NowFields
<1>1. /\ POK(Now) /\ Sound(Now) /\ Asked(Now) /\ Visible(Now)
  BY DEF VInv, RInv, SInv, IInv
<1>2. /\ Now'.state = state' /\ Now'.rx = rx' /\ Now'.tx = tx' /\ Now'.conn = conn'
      /\ Now'.err = err' /\ Now'.rst = rst'
  BY DEF Now
<1>3. /\ rx.read \in Nat /\ rx'.read \in 0..StreamLen /\ rx.eof \in Nat
      /\ rx.canRead \in BOOLEAN /\ rx'.canRead \in BOOLEAN
      /\ conn \in ConnType /\ conn' \in ConnType
      /\ rst \in BOOLEAN /\ rst' \in BOOLEAN
  BY <1>1, <1>2, ConstantsAssumption DEF POK, Base, PType, RxType
<1> DEFINE phase == IF state = "FREED" THEN "ended"
                    ELSE IF conn.rxclosed \/ conn.close_after_writing THEN "closing"
                    ELSE IF conn.open THEN "open" ELSE "opening"
           phaseNext == IF state' = "FREED" THEN "ended"
                    ELSE IF conn'.rxclosed \/ conn'.close_after_writing THEN "closing"
                    ELSE IF conn'.open THEN "open" ELSE "opening"
<1>4. phase # "ended" /\ phaseNext \in Service!Successors[phase]
  BY <1>2, <1>3 DEF Service!Successors, Shows, Step
<1> HIDE DEF phase, phaseNext
<1>5. phase = "closing" <=> conn.rxclosed \/ conn.close_after_writing
  BY DEF phase
<1>6. phaseNext = "ended" <=> state' = "FREED"
  BY DEF phaseNext
<1>7. \/ UNCHANGED <<rx.canRead, rx.read>>
      \/ /\ rx.canRead /\ ~rx'.canRead
         /\ phase # "closing"
         /\ rx.read < rx'.read /\ rx'.read <= StreamLen
  BY <1>2, <1>3, <1>5 DEF Shows, ShowsReads, Step
<1>8. \/ UNCHANGED (rx.eof > 0)
      \/ ~(rx.eof > 0) /\ rx'.eof > 0 /\ rx'.read = StreamLen
  BY <1>2, <1>3 DEF Shows, POK, Base, RxOK
<1>9. /\ tx.acked <= tx'.acked /\ tx'.acked <= WrittenOf(tx)
      /\ WrittenOf(tx') = WrittenOf(tx)
  BY <1>1, <1>2 DEF Shows, ShowsAcks, Visible
<1>10. phaseNext = "ended" =>
          \/ err' # "none"
          \/ phase = "closing" /\ (tx'.acked = WrittenOf(tx) \/ rst')
  <2>1. CASE state' = "FREED" /\ err' = "none"
    <3>1. conn'.rxclosed /\ (rst' \/ Graceful(tx'))
      BY <1>2, <2>1 DEF Sound
    <3>2. Graceful(tx') => tx'.acked = WrittenOf(tx')
      BY DEF Graceful, WrittenOf
    <3> QED
      BY <1>5, <1>9, <3>1, <3>2
  <2> QED
    BY <1>6, <2>1
<1>11. err' # "none" => err # "none" \/ phaseNext = "ended"
  BY <1>2, <1>6 DEF Asked
<1>12. rst => rst'
  BY <1>2 DEF Shows
<1> QED
  BY <1>4, <1>7, <1>8, <1>9, <1>10, <1>11, <1>12
  DEF Service!Serve, Service!Reads, Service!Ends, Service!Acks, Service!Over,
      Written, WrittenOf, phase, phaseNext

\* What the service does not tell apart.
LEMMA UnseenStep ==
    ASSUME state' = state, rx'.canRead = rx.canRead, rx'.read = rx.read,
           rx'.eof = rx.eof, tx' = tx, conn'.rxclosed = conn.rxclosed,
           conn'.close_after_writing = conn.close_after_writing,
           conn'.open = conn.open, err' = err, rst' = rst
    PROVE  UNCHANGED Service!svars
BY DEF Service!svars, Written

\* close of an open connection: the service closes, and may end with a RST.
LEMMA ClosesAfter ==
    ASSUME VInv, close
    PROVE  Service!Close /\ Shows(Now, Now')
<1> USE NowFields
<1>1. POK(Now) /\ Pace \subseteq BOOLEAN /\ Alloc \subseteq BOOLEAN
  BY DEF VInv, RInv, SInv, IInv, Pace, Alloc
<1>2. PICK ok \in Alloc, all \in Pace : Become(tcp_close(Now, ok, all))
  BY DEF close
<1> DEFINE q == tcp_close(Now, ok, all)
<1>3. /\ Become(q) /\ POK(q)
      /\ Shows(Now, q)
      /\ q.state = "FREED" => Now.state = "FREED" \/ q.rst
      /\ q.rx.read = Now.rx.read /\ q.rx.canRead = Now.rx.canRead
      /\ q.rx.eof = Now.rx.eof /\ q.tx.acked = Now.tx.acked
      /\ q.err = Now.err
      /\ q.conn.rxclosed /\ q.conn.open = Now.conn.open
  BY <1>1, <1>2, ClosePOK, CloseShows
<1> HIDE DEF q
<1>4. Now' = q
  BY <1>3, BecomeNow DEF POK, Base
<1>5. /\ q.state = state' /\ q.rx = rx' /\ q.tx = tx' /\ q.conn = conn'
      /\ q.err = err' /\ q.rst = rst'
  BY <1>3 DEF Become
<1>6. state # "FREED" /\ conn.open
  BY DEF close
<1>7. WrittenOf(tx') = WrittenOf(tx) /\ (rst => rst')
  BY <1>3, <1>5 DEF Shows, ShowsAcks
<1> QED
  BY <1>3, <1>4, <1>5, <1>6, <1>7 DEF Service!Close, Written, WrittenOf

\* A connection starts as the service does.
LEMMA InitService == Init => VInv /\ Service!SInit
<1> SUFFICES ASSUME Init
             PROVE  VInv /\ Service!SInit
  OBVIOUS
<1>1. /\ tx.lbb = 1 /\ tx.fin = FALSE /\ tx.acked = 0
      /\ rx.canRead = FALSE /\ rx.read = 0 /\ rx.eof = 0 /\ rx.refused = 0
      /\ conn.open = FALSE /\ conn.delegate = FALSE /\ conn.rxclosed = FALSE
      /\ conn.close_after_writing = FALSE
      /\ state = "SYN_RCVD" /\ err = "none" /\ rst = FALSE
  BY DEF Init
<1>2. SInv
  BY InitIInv, InitSound DEF SInv
<1>3. Asked(Now) /\ Visible(Now)
  BY <1>1, NowFields DEF Asked, Visible, WrittenOf
<1>4. Service!SInit
  BY <1>1 DEF Service!SInit, Written
<1> QED
  BY <1>2, <1>3, <1>4 DEF VInv, RInv

\* Every step is a step of the service, and leaves what was reported below what was
\* written.
LEMMA NextService ==
    ASSUME VInv, [Next]_vars
    PROVE  /\ Visible(Now)'
           /\ Service!SNext \/ UNCHANGED Service!svars
<1> USE NowFields
<1>0. /\ POK(Now) /\ Sound(Now) /\ Asked(Now) /\ Visible(Now)
      /\ Now \in PType /\ odd \in BOOLEAN /\ rx \in RxType /\ conn \in ConnType
  BY DEF VInv, RInv, SInv, IInv, POK, Base, PType
<1>1. Pace \subseteq BOOLEAN /\ Alloc \subseteq BOOLEAN
  BY DEF Pace, Alloc
<1>2. /\ Now'.state = state' /\ Now'.rx = rx' /\ Now'.tx = tx' /\ Now'.conn = conn'
      /\ Now'.err = err' /\ Now'.rst = rst'
  BY DEF Now
<1>3. POK(Now)' /\ Sound(Now)' /\ Asked(Now)'
  BY NextIInv, NextSound, NextRespects DEF VInv, RInv, SInv, IInv
<1>4. CASE Input
  <2>1. PICK seg \in Segments(Now), all \in Pace, g \in FreedReads :
            Become(tcp_input(Now, seg, all, g))
    BY <1>4 DEF Input
  <2> DEFINE q == tcp_input(Now, seg, all, g)
  <2>2. POK(q) /\ Quiet(Now, q) /\ Become(q)
    BY <1>0, <1>1, <2>1, InputPOK, InputQuiet
  <2>3. Now' = q
    BY <2>2, BecomeNow DEF POK, Base
  <2>4. CASE state # "FREED"
    <3>1. Shows(Now, q)
      BY <1>0, <1>1, <2>4, InputShows
    <3> HIDE DEF q
    <3>2. Shows(Now, Now') /\ Step(Now, Now') /\ conn'.rxclosed = conn.rxclosed
      BY <1>2, <2>2, <2>3, <3>1 DEF Quiet
    <3>3. Service!Serve
      BY <1>3, <2>4, <3>2, ServesAfter
    <3> QED
      BY <1>0, <3>2, <3>3, ShowsVisible DEF Service!SNext
  <2>5. CASE state = "FREED"
    <3>1. q = [Now EXCEPT !.rst = rst \/ seg.kind # "RST"]
      BY <1>0, <2>5 DEF tcp_input, PType
    <3> HIDE DEF q
    <3>2. /\ UNCHANGED <<state, rx, tx, conn, err>>
          /\ rst' = (rst \/ seg.kind # "RST")
      BY <1>0, <1>2, <2>3, <3>1 DEF PType
    <3>3. Visible(Now)'
      BY <1>0, <1>2, <3>2 DEF Visible
    <3>4. CASE rst' = rst
      BY <3>2, <3>3, <3>4, UnseenStep
    <3>5. CASE rst'
      <4>1. Service!Serve
        BY <2>5, <3>2, <3>5 DEF Service!Serve, Written
      <4> QED
        BY <3>3, <4>1 DEF Service!SNext
    <3>6. rst \in BOOLEAN
      BY <1>0 DEF PType
    <3> QED
      BY <3>2, <3>4, <3>5, <3>6
  <2> QED
    BY <2>4, <2>5
<1>5. CASE Tick
  <2>1. PICK due \in BOOLEAN, out \in BOOLEAN, ok \in Alloc, all \in Pace,
             g \in FreedReads :
            /\ state # "FREED"
            /\ Become(tcp_tmr(Now, ~odd, out, ok, due, all, g))
    BY <1>5 DEF Tick, TickWith
  <2> DEFINE slow == ~odd
             q == tcp_tmr(Now, slow, out, ok, due, all, g)
  <2>2. /\ POK(q) /\ Become(q) /\ Shows(Now, q) /\ Step(Now, q)
        /\ q.conn.rxclosed => Now.conn.rxclosed \/ Now.conn.close_after_writing
    <3>1. Become(q)
      BY <2>1
    <3>2. /\ slow \in BOOLEAN /\ out \in BOOLEAN /\ ok \in BOOLEAN
          /\ due \in BOOLEAN /\ all \in BOOLEAN /\ g \in FreedReads
      BY <1>0, <1>1
    <3> HIDE DEF slow
    <3>3. POK(Now) /\ Sound(Now) /\ Asked(Now)
      BY <1>0
    <3>4. POK(q)
      BY <3>2, <3>3, TmrPOK
    <3>5. /\ Shows(Now, q) /\ Step(Now, q)
          /\ q.conn.rxclosed => Now.conn.rxclosed \/ Now.conn.close_after_writing
      BY <3>2, <3>3, TmrShows, ZenonT(60)
    <3> QED
      BY <3>1, <3>4, <3>5
  <2> HIDE DEF q
  <2>3. Now' = q
    BY <2>2, BecomeNow DEF POK, Base
  <2>4. Service!Serve
    BY <1>2, <1>3, <2>1, <2>2, <2>3, ServesAfter
  <2> QED
    BY <1>0, <2>2, <2>3, <2>4, ShowsVisible DEF Service!SNext
<1>6. CASE close
  <2>1. Service!Close /\ Shows(Now, Now')
    BY <1>6, ClosesAfter
  <2> QED
    BY <1>0, <2>1, ShowsVisible DEF Service!SNext
<1>7. CASE TimerEnds \/ UNCHANGED vars
  <2>1. /\ UNCHANGED <<state, rx, tx, err, rst>>
        /\ conn'.rxclosed = conn.rxclosed /\ conn'.open = conn.open
        /\ conn'.close_after_writing = conn.close_after_writing
        /\ conn'.delegate = conn.delegate
    BY <1>0, <1>7 DEF TimerEnds, vars, ConnType
  <2>2. Visible(Now)'
    BY <1>0, <1>2, <2>1 DEF Visible
  <2> QED
    BY <2>1, <2>2, UnseenStep
<1>8. CASE syncSetDelegate \/ asyncSetDelegate
  <2>1. /\ UNCHANGED <<state, rx, tx, err, rst>>
        /\ conn'.rxclosed = conn.rxclosed /\ conn'.open = conn.open /\ conn.open
        /\ conn'.close_after_writing = conn.close_after_writing
    BY <1>0, <1>8 DEF syncSetDelegate, asyncSetDelegate, ConnType
  <2>2. Visible(Now)'
    BY <1>0, <1>2, <2>1 DEF Visible
  <2> QED
    BY <2>1, <2>2, UnseenStep
<1>9. CASE closeAfterWriting
  <2>1. /\ UNCHANGED <<state, rx, tx, err, rst>> /\ conn.open
        /\ conn'.rxclosed = conn.rxclosed /\ conn'.open = conn.open
        /\ conn'.delegate = conn.delegate /\ conn'.close_after_writing
    BY <1>0, <1>9 DEF closeAfterWriting, ConnType
  <2>2. Visible(Now)'
    BY <1>0, <1>2, <2>1 DEF Visible
  <2>3. CASE state = "FREED"
    <3>1. UNCHANGED Service!svars
      BY <2>1, <2>3 DEF Service!svars, Written
    <3> QED
      BY <2>2, <3>1
  <2>4. CASE state # "FREED"
    <3>1. Service!Close
      BY <2>1, <2>4 DEF Service!Close, Written
    <3> QED
      BY <2>2, <3>1 DEF Service!SNext
  <2> QED
    BY <2>3, <2>4
<1>10. CASE readData
  <2>1. /\ UNCHANGED <<state, tx, conn, err, rst>> /\ conn.delegate
        /\ state # "FREED"
        /\ rx'.canRead /\ rx'.read = rx.read /\ rx'.eof = rx.eof
    BY <1>0, <1>10 DEF readData, RxType
  <2>2. Visible(Now)'
    BY <1>0, <1>2, <2>1 DEF Visible
  <2>3. conn.open
    BY <1>0, <2>1 DEF Visible
  <2>4. Service!ReadData
    BY <2>1, <2>3 DEF Service!ReadData, Written
  <2> QED
    BY <2>2, <2>4 DEF Service!SNext
<1>11. ASSUME NEW n \in 1..MaxWritten, write(n)
       PROVE  Visible(Now)' /\ Service!SNext
  <2>1. PICK all \in BOOLEAN :
            /\ state \in Writable /\ conn.delegate
            /\ tx.lbb + n <= MaxWritten + 1
            /\ tx' = tcp_output(Queued(tx, n), all)
            /\ UNCHANGED <<state, rx, conn, err, rst>>
    BY <1>11 DEF write, Queued
  <2>2. TxOK(tx) /\ SendOK(tx) /\ ~tx.fin
    BY <1>0, <2>1 DEF POK, Base, Sound, Writable, Live
  <2>3. n \in Nat /\ 1 <= n /\ MaxWritten \in Nat
    BY ConstantsAssumption
  <2>4. /\ TxOK(Queued(tx, n))
        /\ Queued(tx, n).fin = tx.fin /\ Queued(tx, n).acked = tx.acked
        /\ Queued(tx, n).lbb = tx.lbb + n
    BY <2>1, <2>2, <2>3, QueuedOK, QueuedSend
  <2>5. tx'.lbb = tx.lbb + n /\ tx'.fin = tx.fin /\ tx'.acked = tx.acked
    BY <2>1, <2>4, OutputSend DEF Kept
  <2>6. tx.lbb \in Nat /\ tx.acked \in Int
    BY <2>2, TxFields
  <2>7. /\ Written = tx.lbb - 1 /\ Written' = tx.lbb + n - 1
        /\ WrittenOf(tx) = tx.lbb - 1 /\ WrittenOf(tx') = tx.lbb + n - 1
    <3>1. ~tx'.fin
      BY <2>2, <2>5
    <3> QED
      BY <2>2, <2>3, <2>5, <2>6, <3>1 DEF Written, WrittenOf
  <2>8. Visible(Now)'
    BY <1>0, <1>2, <2>1, <2>3, <2>5, <2>6, <2>7 DEF Visible
  <2>9. conn.open /\ state # "FREED"
    BY <1>0, <2>1 DEF Visible, Writable
  <2>10. Written + n <= MaxWritten /\ Written' = Written + n
    BY <2>1, <2>3, <2>6, <2>7
  <2>11. Service!Write(n)
    BY <2>1, <2>5, <2>9, <2>10 DEF Service!Write
  <2> QED
    BY <2>8, <2>11 DEF Service!SNext
<1> QED
  BY <1>4, <1>5, <1>6, <1>7, <1>8, <1>9, <1>10, <1>11 DEF Next

\* ZPTCPConnection.h: whatever the peer, the timer and the application do, in any
\* order, the application sees what the service promises: data once for each
\* readData and in order, the end of the stream behind it, bytes reported as written
\* after they were, and an end that is told, asked for, or left to a RST.
THEOREM ServiceImplemented == Spec => ImplementsService
<1>1. Init => VInv /\ Service!SInit
  BY InitService
<1>2. VInv /\ [Next]_vars => VInv'
  BY NextIInv, NextSound, NextRespects, NextService DEF VInv, RInv, SInv
<1>3. VInv /\ [Next]_vars => [Service!SNext]_(Service!svars)
  BY NextService
<1> QED
  BY <1>1, <1>2, <1>3, PTL DEF Spec, ImplementsService, Service!SSpec
=============================================================================
