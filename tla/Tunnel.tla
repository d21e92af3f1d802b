------------------------------- MODULE Tunnel -------------------------------
(***************************************************************************)
(* ZPPacketTunnel and the queues around its connections: the thread that   *)
(* feeds packets in, dicQueue with the dictionary of connections, a        *)
(* timerQueue and a timer for each connection, and the delegate queue.     *)
(*                                                                         *)
(* A connection is here only what the others see of it: whether its pcb is *)
(* there, how much is written and not acknowledged.  ZPTCPConnection says  *)
(* what happens inside.  An object that is made for a SYN is numbered; the *)
(* dictionary maps a key (addresses and ports) to an object.               *)
(***************************************************************************)
EXTENDS Naturals, Sequences, FiniteSets

CONSTANTS
    Keys,           \* pairs of addresses and ports
    MaxObjects,     \* bound: objects made
    MaxQueued,      \* bound: blocks on a timerQueue when another is added
    MaxCalls,       \* bound: blocks on the delegate queue when the others go on
    AllocMayFail,   \* may there be no memory for a pcb or the SYN-ACK?
    FreedSndBuf     \* what snd_buf == TCP_SND_BUF may read as in a freed pcb

ASSUME TunnelAssumption ==
    /\ MaxObjects \in Nat \ {0} /\ {MaxQueued, MaxCalls} \subseteq Nat \ {0}
    /\ AllocMayFail \in BOOLEAN /\ FreedSndBuf \subseteq BOOLEAN

VARIABLES
    conns,          \* the objects, in the order they are made
    dic,            \* dic[k]: the object in the dictionary, None if there is none
    dicQueue,       \* keys to be removed by the blocks on dicQueue
    input,          \* the thread in ipPacketInput:
    delegateQueue,  \* blocks on the delegate queue
    waiting,        \* object whose syncSetDelegate the delegate queue waits for
    iss             \* the static variable of tcp_next_iss

tunnelVars == <<conns, dic, dicQueue, input, delegateQueue, waiting, iss>>

None == 0
Objects == 1..MaxObjects
Segs == {"SYN", "ACK", "RST"}
Idle == [pc |-> "idle", key |-> None, seg |-> "none", conn |-> None]

\* "OPEN": ESTABLISHED or CLOSE_WAIT, "CLOSING": after tcp_close, until the FINs are
\* through, "TIME_WAIT": after tcp_close with a RST, "NULL": block->pcb is NULL.
States == {"SYN_RCVD", "OPEN", "CLOSING", "TIME_WAIT", "NULL"}

Ops == {"syncSet", "asyncSet", "write", "close"}

Conn ==
    [key : Keys, pcb : States, iss : Nat,
     timer : BOOLEAN,           \* is the timer source running?
     blocks : Seq([op : {"input"} \cup Ops, seg : Segs \cup {"none"}]),
     delegate : BOOLEAN,        \* were delegate and delegateQueue set?
     unacked : 0..1,            \* snd_buf # TCP_SND_BUF: is something not acknowledged?
     valid : BOOLEAN,           \* did syncSetDelegate return TRUE?
     end : {"none", "silent", "error"},     \* how did the pcb go away?
     told : BOOLEAN,            \* was didDisconnectWithError: called?
     empty : BOOLEAN]           \* what the application takes the send buffer for: empty
                                \* at first, not when it has written, then what
                                \* didWriteData: says

TunnelTypeOK ==
    /\ conns \in Seq(Conn) /\ Len(conns) <= MaxObjects
    /\ dic \in [Keys -> {None} \cup 1..Len(conns)]
    /\ dicQueue \in Seq(Keys)
    /\ input \in [pc : {"idle", "got", "set"}, key : Keys \cup {None},
                  seg : Segs \cup {"none"}, conn : {None} \cup 1..Len(conns)]
    /\ delegateQueue \in Seq([call : {"didEstablish", "didWrite", "didDisconnect"},
                              conn : 1..Len(conns)])
    /\ waiting \in {None} \cup 1..Len(conns)
    /\ iss \in Nat

-----------------------------------------------------------------------------
(* The thread in ipPacketInput: and tcp_input_pre, and dicQueue.           *)

\* A segment comes in.  dispatch_sync to a serial queue: connectionForKey: takes
\* effect when the blocks queued before it are done.
ipPacketInput(k, seg) ==
    /\ input.pc = "idle" /\ dicQueue = <<>>
    /\ dic[k] # None => Len(conns[dic[k]].blocks) < MaxQueued
    /\ Len(delegateQueue) < MaxCalls
    /\ input' = [pc |-> "got", key |-> k, seg |-> seg, conn |-> dic[k]]
    /\ UNCHANGED <<conns, dic, dicQueue, delegateQueue, waiting, iss>>

\* setConnection:forKey:, likewise.
setConnection ==
    /\ input.pc = "set" /\ dicQueue = <<>>
    /\ dic' = [dic EXCEPT ![input.key] = input.conn]
    /\ input' = Idle
    /\ UNCHANGED <<conns, dicQueue, delegateQueue, waiting, iss>>

\* The block of removeConnectionForKey:, queued with dispatch_async.
removeConnection ==
    /\ dicQueue # <<>>
    /\ dic' = [dic EXCEPT ![Head(dicQueue)] = None]
    /\ dicQueue' = Tail(dicQueue)
    /\ UNCHANGED <<conns, input, delegateQueue, waiting, iss>>

\* tcpInputWith: the segment goes to the connection's timerQueue.
Found ==
    /\ input.pc = "got" /\ input.conn # None
    /\ conns' = [conns EXCEPT ![input.conn].blocks =
                   Append(@, [op |-> "input", seg |-> input.seg])]
    /\ input' = Idle
    /\ UNCHANGED <<dic, dicQueue, delegateQueue, waiting, iss>>

\* The static iss moves by the ticks of a block, which is new.
tcp_next_iss(ticks) == iss + ticks

NewConn(k) ==
    [key |-> k, pcb |-> "SYN_RCVD", iss |-> tcp_next_iss(0), timer |-> TRUE,
     blocks |-> <<>>, delegate |-> FALSE, unacked |-> 0, valid |-> FALSE,
     end |-> "none", told |-> FALSE, empty |-> TRUE]

\* newTCPConnectionWith: for a SYN: pcb, SYN-ACK and the running timer; the object
\* is then put into the dictionary.
AcceptSyn ==
    /\ input.pc = "got" /\ input.conn = None /\ input.seg = "SYN"
    /\ Len(conns) < MaxObjects
    /\ conns' = Append(conns, NewConn(input.key))
    /\ iss' = tcp_next_iss(0)
    /\ input' = [input EXCEPT !.pc = "set", !.conn = Len(conns) + 1]
    /\ UNCHANGED <<dic, dicQueue, delegateQueue, waiting>>

\* No object is made: a RST, an ACK (answered by a RST), or no memory.  At the
\* bound the SYN is lost.
Refuse ==
    /\ input.pc = "got" /\ input.conn = None
    /\ input.seg = "SYN" => AllocMayFail \/ Len(conns) = MaxObjects
    /\ input' = Idle
    /\ UNCHANGED <<conns, dic, dicQueue, delegateQueue, waiting, iss>>

-----------------------------------------------------------------------------
(* A connection's timerQueue: functions from an object to one, and the     *)
(* callbacks they queue.                                                   *)

Call(name, o) == [call |-> name, conn |-> o]

\* tcp_pcb_remove, memp_free, block->pcb = NULL.
Removed(c, end) == [c EXCEPT !.pcb = "NULL", !.end = end]

\* zp_tcp_err: the delegate hears of it if there is one.
zp_tcp_err(c, o) == IF c.delegate THEN <<Call("didDisconnect", o)>> ELSE <<>>

\* Without a pcb the segment is answered with a RST or dropped, and TIME_WAIT takes
\* none.  A RST ends the connection; an ACK establishes it, acknowledges all or a part
\* of what was written, or the FIN.
Arrived(c, o, seg, all) ==
    CASE c.pcb \in {"NULL", "TIME_WAIT"} -> <<c, <<>> >>
      [] c.pcb \notin {"NULL", "TIME_WAIT"} /\ seg = "RST" ->
            <<Removed(c, "error"), zp_tcp_err(c, o)>>
      [] c.pcb = "SYN_RCVD" /\ seg = "ACK" ->
            <<[c EXCEPT !.pcb = "OPEN"], <<Call("didEstablish", o)>> >>
      [] c.pcb \in {"OPEN", "CLOSING"} /\ seg = "ACK" /\ c.unacked = 1 ->
            <<[c EXCEPT !.unacked = IF all THEN 0 ELSE 1], <<Call("didWrite", o)>> >>
      [] c.pcb = "CLOSING" /\ seg = "ACK" /\ c.unacked = 0 ->
            <<Removed(c, "silent"), <<>> >>
      [] OTHER -> <<c, <<>> >>

Written(c) == IF c.pcb = "OPEN" THEN [c EXCEPT !.unacked = 1, !.empty = FALSE] ELSE c

\* tcp_close: "CLOSING", a FIN goes out; or something was not read, and a RST goes out
\* and the queues are purged: "TIME_WAIT", or "NULL" if the peer has sent its FIN.
Ways == {"CLOSING", "TIME_WAIT", "NULL"}
Closed(c, way) ==
    IF c.pcb # "OPEN" THEN c
    ELSE IF way = "NULL" THEN Removed(c, "silent") ELSE [c EXCEPT !.pcb = way]

\* Mutant of Api: the pcb is not looked at.
ApiUnchecked(c, op, way) ==
    CASE op = "syncSet" -> [c EXCEPT !.delegate = TRUE, !.valid = TRUE]
      [] op = "asyncSet" -> [c EXCEPT !.delegate = TRUE]
      [] op = "write" -> Written(c)
      [] op = "close" -> Closed(c, way)

\* syncSetDelegate:, asyncSetDelegate:, write:, close.
Api(c, op, way) ==
    CASE op = "syncSet" ->
            IF c.pcb # "NULL" THEN [c EXCEPT !.delegate = TRUE, !.valid = TRUE] ELSE c
      [] op = "asyncSet" -> [c EXCEPT !.delegate = TRUE]
      [] op = "write" -> Written(c)
      [] op = "close" -> Closed(c, way)

\* What the block b may make of c: how much an ACK acknowledges and how a close ends
\* is known when it runs.
Outcomes(c, o, b) ==
    IF b.op = "input" THEN {Arrived(c, o, b.seg, all) : all \in BOOLEAN}
                      ELSE {<<Api(c, b.op, way), <<>> >> : way \in Ways}

\* The block at the head of o's timerQueue.
TimerQueueBlock(o) ==
    /\ conns[o].blocks # <<>>
    /\ \E done \in Outcomes([conns[o] EXCEPT !.blocks = Tail(@)], o, Head(conns[o].blocks)) :
          /\ conns' = [conns EXCEPT ![o] = done[1]]
          /\ delegateQueue' = delegateQueue \o done[2]
    /\ waiting' = IF Head(conns[o].blocks).op = "syncSet" THEN None ELSE waiting
    /\ UNCHANGED <<dic, dicQueue, input, iss>>

\* The timer with a pcb: tcp_tmr does nothing here, or it gives the connection up
\* and says so, or a pcb in TIME_WAIT is over.  A connection that is not in the
\* dictionary yet is younger than any timeout.
Timeout(o) ==
    /\ conns[o].timer /\ conns[o].pcb # "NULL"
    /\ ~(input.pc = "set" /\ input.conn = o)
    /\ \/ /\ conns[o].pcb # "TIME_WAIT"
          /\ conns' = [conns EXCEPT ![o] = Removed(@, "error")]
          /\ delegateQueue' = delegateQueue \o zp_tcp_err(conns[o], o)
       \/ /\ conns[o].pcb = "TIME_WAIT" \/ (conns[o].pcb = "CLOSING" /\ conns[o].unacked = 0)
          /\ conns' = [conns EXCEPT ![o] = Removed(@, "silent")]
          /\ UNCHANGED delegateQueue
    /\ UNCHANGED <<dic, dicQueue, input, waiting, iss>>

\* Mutant of TimerEnds: the removal runs at every tick.
TimerGoesOn(o) ==
    /\ conns[o].timer /\ conns[o].pcb = "NULL" /\ Len(dicQueue) < 3
    /\ dicQueue' = Append(dicQueue, conns[o].key)
    /\ UNCHANGED <<conns, dic, input, delegateQueue, waiting, iss>>

\* Mutant of TimerEnds: the tunnel is not asked to forget the connection.
TimerEndsOnly(o) ==
    /\ conns[o].timer /\ conns[o].pcb = "NULL"
    /\ conns' = [conns EXCEPT ![o].timer = FALSE]
    /\ UNCHANGED <<dic, dicQueue, input, delegateQueue, waiting, iss>>

\* The timer without a pcb: it is cancelled, removeConnectionForKey: is queued.
TimerEnds(o) ==
    /\ conns[o].timer /\ conns[o].pcb = "NULL"
    /\ conns' = [conns EXCEPT ![o].timer = FALSE]
    /\ dicQueue' = Append(dicQueue, conns[o].key)
    /\ UNCHANGED <<dic, input, delegateQueue, waiting, iss>>

-----------------------------------------------------------------------------
(* The delegate queue and the application, which sets a delegate when it   *)
(* hears of a connection and before it uses it.                            *)

dispatch_async(o, op) ==
    conns' = [conns EXCEPT ![o].blocks = Append(@, [op |-> op, seg |-> "none"])]

\* tunnel:didEstablishNewTCPConnection:
DidEstablish(o) ==
    \/ dispatch_async(o, "syncSet") /\ waiting' = o
    \/ dispatch_async(o, "asyncSet") /\ UNCHANGED waiting

\* Mutant of SendBufEmpty: what is acknowledged is taken for all.
AlwaysEmpty(c) == {TRUE}

\* snd_buf == TCP_SND_BUF, read when the block of zp_tcp_sent runs; by then the pcb
\* may have been freed.
SendBufEmpty(c) == IF c.pcb = "NULL" THEN FreedSndBuf \cup {c.unacked = 0}
                   ELSE {c.unacked = 0}

\* connection:didWriteData:sendBuf:
DidWrite(o) ==
    \E e \in SendBufEmpty(conns[o]) :
        conns' = [conns EXCEPT ![o].empty = e] /\ UNCHANGED waiting

DelegateBlock ==
    /\ waiting = None /\ delegateQueue # <<>>
    /\ delegateQueue' = Tail(delegateQueue)
    /\ LET b == Head(delegateQueue) IN
       \/ b.call = "didEstablish" /\ DidEstablish(b.conn)
       \/ b.call = "didWrite" /\ DidWrite(b.conn)
       \/ /\ b.call = "didDisconnect"
          /\ conns' = [conns EXCEPT ![b.conn].told = TRUE]
          /\ UNCHANGED waiting
    /\ UNCHANGED <<dic, dicQueue, input, iss>>

\* The application's calls from other threads; they return at once if the pcb is
\* gone, as it may be when the block runs.
Use(o) ==
    /\ conns[o].delegate /\ conns[o].pcb # "NULL"
    /\ Len(conns[o].blocks) < MaxQueued
    /\ \E op \in {"write", "close"} : dispatch_async(o, op)
    /\ UNCHANGED <<dic, dicQueue, input, delegateQueue, waiting, iss>>

-----------------------------------------------------------------------------
TunnelInit ==
    /\ conns = <<>> /\ dic = [k \in Keys |-> None] /\ dicQueue = <<>>
    /\ input = Idle /\ delegateQueue = <<>> /\ waiting = None
    /\ iss = 6510

OfConn(o) == TimerQueueBlock(o) \/ Timeout(o) \/ TimerEnds(o) \/ Use(o)

TunnelNext ==
    \/ \E k \in Keys, seg \in Segs : ipPacketInput(k, seg)
    \/ Found \/ AcceptSyn \/ Refuse \/ setConnection \/ removeConnection
    \/ \E o \in 1..Len(conns) : OfConn(o)
    \/ DelegateBlock

TunnelSpec == TunnelInit /\ [][TunnelNext]_tunnelVars

\* The queues are serial and run, the thread goes on, the timer fires.
Fairness ==
    /\ WF_tunnelVars(removeConnection)
    /\ WF_tunnelVars(Found \/ AcceptSyn \/ Refuse \/ setConnection)
    /\ WF_tunnelVars(DelegateBlock)
    /\ \A o \in Objects :
          /\ WF_tunnelVars(o <= Len(conns) /\ TimerQueueBlock(o))
          /\ WF_tunnelVars(o <= Len(conns) /\ TimerEnds(o))

TunnelFairSpec == TunnelSpec /\ Fairness

-----------------------------------------------------------------------------
Live(o) == conns[o].pcb # "NULL"
InsertingNow(o) == input.pc = "set" /\ input.conn = o
QueuedFor(o) == {i \in 1..Len(delegateQueue) : delegateQueue[i].conn = o}

\* A pcb and the dictionary agree: a connection with a pcb is found by its key, or
\* is about to be put there; so no two pcbs have the same key, and none is shut
\* off from its segments.  Whatever the look-up, the timer, the removal and a new
\* SYN do to each other.
LiveIsFound ==
    /\ \A o \in 1..Len(conns) :
          Live(o) => dic[conns[o].key] = o \/ InsertingNow(o)
    /\ \A o, p \in 1..Len(conns) :
          Live(o) /\ Live(p) /\ conns[o].key = conns[p].key => o = p

\* What the header says of syncSetDelegate: TRUE means the connection was not
\* aborted, so an end that comes later is reported: the callback is queued or was
\* delivered, once, behind all others of the connection.  A connection that ended
\* as the application's close wanted is not reported.
ToldOfEnd ==
    \A o \in 1..Len(conns) :
        LET q == QueuedFor(o)
            ends == {i \in q : delegateQueue[i].call = "didDisconnect"}
        IN /\ conns[o].valid /\ conns[o].end = "error" => conns[o].told \/ ends # {}
           /\ conns[o].told \/ ends # {} => conns[o].end = "error"
           /\ conns[o].told => q = {}
           /\ \A i \in ends, j \in q : j <= i

\* didWriteData:sendBuf: keeps the application informed, however writes, segments
\* and the blocks of the two queues overtake each other: as long as there is a pcb,
\* what the application takes for sent is acknowledged, and when all is acknowledged
\* it knows or the callback that will say so is queued.
SentIsTold ==
    \A o \in 1..Len(conns) :
        Live(o) =>
            /\ conns[o].empty => conns[o].unacked = 0
            /\ conns[o].unacked = 0 =>
                  conns[o].empty \/ \E i \in QueuedFor(o) : delegateQueue[i].call = "didWrite"

\* ZPTCPConnection.h: sendBuf: "True means all send data complete transfer or no data
\* sent".  False of the code: when the pcb was freed before the block of zp_tcp_sent
\* runs, what it reads may say so of data that was lost.
EmptyMeansSent ==
    [][\A o \in 1..Len(conns) :
        (conns'[o].empty /\ ~conns[o].empty) => conns[o].unacked = 0]_tunnelVars

\* A connection whose pcb is gone leaves the dictionary.
DeadIsForgotten ==
    \A o \in Objects :
        (o <= Len(conns) /\ ~Live(o)) ~>
            (\A k \in Keys : dic[k] # o)

\* syncSetDelegate returns: the delegate queue never waits for ever.
SyncReturns == waiting # None ~> waiting = None

\* Neither a caller nor a dead connection stays: see the two parts.
NothingLingers == DeadIsForgotten /\ SyncReturns
=============================================================================
