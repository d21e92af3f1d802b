------------------------------ MODULE MCInput ------------------------------
(***************************************************************************)
(* What comes in, for TLC: the buffers it is in, the queues that take a    *)
(* segment to its connection, and what a connection does with its text.    *)
(* None of them reads the state of another, so a behaviour is one of the   *)
(* three, chosen in Init, and leaves the variables of the others alone.    *)
(***************************************************************************)
EXTENDS TcpReceive, Tunnel

CONSTANTS Pbufs, Lengths, MaxLen, Headers, PoolBufSize, MaxHeld, MaxMade, Types

VARIABLES part,         \* the component of this behaviour
          heap, held, want, made

pbufVars == <<heap, held, want, made>>

P == INSTANCE Pbuf

ASSUME InputAssumption == P!PbufAssumption

MCInit == part \in {"pbuf", "tunnel", "receive"} /\ P!Init /\ TunnelInit /\ Init

MCNext == /\ UNCHANGED part
          /\ \/ part = "pbuf" /\ P!Next /\ UNCHANGED <<tunnelVars, pcb>>
             \/ part = "tunnel" /\ TunnelNext /\ UNCHANGED <<pbufVars, pcb>>
             \/ part = "receive" /\ Next /\ UNCHANGED <<pbufVars, tunnelVars>>

\* Only the tunnel's queues have to go on.
MCSpec == MCInit /\ [][MCNext]_<<part, pbufVars, tunnelVars, pcb>> /\ Fairness

-----------------------------------------------------------------------------
(* Properties                                                              *)

\* pbuf.c: a pbuf lives exactly as long as someone points to it, every held packet
\* has the bytes it should have whoever else shares its tail, and reading through
\* the parts of a chain gives what reading the plain bytes would.
BuffersSound == part = "pbuf" => P!RefsCounted /\ P!PacketsKept /\ P!ReadsAgree
=============================================================================
