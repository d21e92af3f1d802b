---------------------------- MODULE ZPTCPService ----------------------------
(***************************************************************************)
(* What a ZPTCPConnection promises the application that uses it, in the    *)
(* terms of ZPTCPConnection.h: the calls it makes and the callbacks it     *)
(* gets.  One step of the stack may make several callbacks.                *)
(***************************************************************************)
EXTENDS Integers

CONSTANTS
    StreamLen,      \* length of the peer's stream
    MaxWritten      \* bound: bytes the application writes

VARIABLES
    phase,      \* "opening", "open", "closing" after either close, "ended"
    asked,      \* readData was called and not answered yet
    read,       \* bytes passed to didReadData:
    eof,        \* was connectionDidCloseReadStream: called?
    written,    \* bytes accepted by write:
    acked,      \* bytes reported by didWriteData:
    told,       \* was didDisconnectWithError: called (or nobody there to call)?
    reset       \* did the connection send a RST?

svars == <<phase, asked, read, eof, written, acked, told, reset>>

SInit ==
    /\ phase = "opening"
    /\ asked = FALSE
    /\ read = 0
    /\ eof = FALSE
    /\ written = 0
    /\ acked = 0
    /\ told = FALSE
    /\ reset = FALSE

Write(n) ==
    /\ phase \in {"open", "closing"}
    /\ written + n <= MaxWritten
    /\ written' = written + n
    /\ UNCHANGED <<phase, asked, read, eof, acked, told, reset>>

ReadData ==
    /\ phase \in {"open", "closing"}
    /\ asked' = TRUE
    /\ UNCHANGED <<phase, read, eof, written, acked, told, reset>>

\* close or closeAfterWriting; a connection whose peer is done too, and that
\* throws away data, ends at once with a RST.
Close ==
    /\ phase \in {"open", "closing"}
    /\ phase' \in {"closing", "ended"}
    /\ phase' = "ended" => reset'
    /\ reset => reset'
    /\ UNCHANGED <<asked, read, eof, written, acked, told>>

\* Data comes when it was asked for, once for each request, in order, and not
\* after a close.
Reads ==
    \/ UNCHANGED <<asked, read>>
    \/ /\ asked /\ ~asked'
       /\ phase # "closing"
       /\ read < read' /\ read' <= StreamLen

\* The end of the stream comes once, after all of its data.
Ends ==
    \/ UNCHANGED eof
    \/ ~eof /\ eof' /\ read' = StreamLen

\* Bytes are reported as written after they were, and once.
Acks == acked <= acked' /\ acked' <= written

\* The connection is over: the delegate is told, or the application has closed
\* and all it wrote is acknowledged, or a RST tells the peer that it is not.
Over ==
    phase' = "ended" =>
        \/ told'
        \/ phase = "closing" /\ (acked' = written \/ reset')

Successors ==
    [opening |-> {"opening", "open", "ended"},
     open    |-> {"open", "ended"},
     closing |-> {"closing", "ended"}]

\* A segment or a tick of the timer; a connection that is over makes no callback
\* but may answer the peer with a RST.
Serve ==
    \/ /\ phase # "ended"
       /\ phase' \in Successors[phase]
       /\ Reads /\ Ends /\ Acks /\ Over
       /\ told' => told \/ phase' = "ended"
       /\ reset => reset'
       /\ UNCHANGED written
    \/ /\ phase = "ended"
       /\ reset'
       /\ UNCHANGED <<phase, asked, read, eof, written, acked, told>>

SNext ==
    \/ \E n \in 1..MaxWritten : Write(n)
    \/ ReadData
    \/ Close
    \/ Serve

SSpec == SInit /\ [][SNext]_svars
=============================================================================
