------------------------- MODULE MCZPTCPConnection -------------------------
(***************************************************************************)
(* Model checking of ZPTCPConnection: a history variable, and statements   *)
(* of the repository's comments that the code does not keep.               *)
(***************************************************************************)
EXTENDS ZPTCPConnection

VARIABLE stay       \* slow ticks since the state was entered, saturating

MCInit == Init /\ stay = 0

MCNext ==
    /\ Next
    /\ stay' = IF state' # state THEN 0
               ELSE IF odd' /\ ~odd THEN Min2(stay + 1, IdleMax) ELSE stay

MCSpec == MCInit /\ [][MCNext]_<<vars, stay>>

MCFairSpec == MCSpec /\ Fairness

-----------------------------------------------------------------------------

\* "Check if this PCB has stayed too long in FIN-WAIT-2" (tcp.c): it is removed
\* from there by the timer when it has been in that state for longer than
\* TCP_FIN_WAIT_TIMEOUT.
StayedInFinWait2 ==
    [][state = "FIN_WAIT_2" /\ state' = "FREED" /\ odd' # odd =>
        stay + 1 > FIN_WAIT_TIMEOUT]_<<vars, stay>>

\* "received data although already closed -> abort (send RST) to notify the
\* remote host that not all data has been processed" (tcp_in.c): a segment ends
\* a connection that waits for the end of the peer's stream by resetting it, or
\* by a RST to the peer.
AbortSendsReset ==
    [][/\ state \in {"FIN_WAIT_1", "FIN_WAIT_2"} /\ state' = "FREED"
       /\ odd' = odd /\ err' = err
       => rst']_<<vars, stay>>

\* "the connection is closed, and put in a closing state. The pcb is then
\* automatically freed in tcp_slowtmr()" (tcp.c): if from some time on nothing
\* happens but the ticks of the timer, a closed connection is freed.
ClosedIsFreed ==
    <>[][odd' # odd]_<<vars, stay>> => (conn.rxclosed ~> state = "FREED")
=============================================================================
