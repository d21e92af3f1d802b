---------------------------- MODULE MCTcpReceive ----------------------------
(***************************************************************************)
(* Model checking of TcpReceive: progress, for which a history variable    *)
(* says who has moved, and what a comment says of delayed ACKs.            *)
(***************************************************************************)
EXTENDS TcpReceive

VARIABLE turn       \* a bit for each actor, flipped when it moves

Flip(actor) == turn' = [turn EXCEPT ![actor] = ~@]

Retransmits(seg) == seg.seq = pcb.acked /\ TCP_TCPLEN(seg) > 0

MCInit == Init /\ turn = [peer |-> FALSE, app |-> FALSE, timer |-> FALSE]

MCNext ==
    /\ ~pcb.failed
    /\ \/ \E seg \in Segments(pcb) :
             /\ InputOf(seg)
             /\ IF Retransmits(seg) THEN Flip("peer") ELSE UNCHANGED turn
       \/ readData /\ Flip("app")
       \/ Tick /\ Flip("timer")
       \/ write /\ UNCHANGED turn

\* The peer retransmits what is not acknowledged (there is always a segment or a
\* probe to do it with), the application goes on reading, the timer ticks.
Fairness ==
    /\ WF_turn(pcb.acked <= StreamLen /\ Flip("peer"))
    /\ WF_turn(Flip("app"))
    /\ WF_turn(Flip("timer"))

MCSpec == MCInit /\ [][MCNext]_<<pcb, turn>>

MCFairSpec == MCSpec /\ Fairness

\* The application gets the whole stream and its end, whatever is lost, repeated
\* or overtaken on the way, and however small the window updates are.
StreamArrives == <>(Len(pcb.read) = StreamLen /\ pcb.eof = 1)
\* "send delayed ACKs" (tcp_fasttmr in tcp.c): after the fast timer a delayed ACK
\* has been sent, or it is still due.
DelayedAckSent ==
    [][turn'.timer # turn.timer /\ pcb.delay =>
        pcb'.acked = pcb'.nxt \/ pcb'.delay \/ pcb'.now]_<<pcb, turn>>
=============================================================================
