---------------------------- MODULE Tunnel_proofs ----------------------------
(***************************************************************************)
(* Proofs about Tunnel: whatever the thread in ipPacketInput:, the timers  *)
(* and dicQueue do to each other, a connection with a pcb is the one that  *)
(* the dictionary gives for its key; and the calls on the delegate queue   *)
(* tell of the end and of what was sent.  For every number of keys and     *)
(* connections and every length of the queues.                             *)
(***************************************************************************)
EXTENDS Tunnel, TLAPS

-----------------------------------------------------------------------------
(* The inductive invariant.                                                *)

\* A pcb is watched by the timer of its object, which is in the dictionary or on
\* its way there.
TimerWatches ==
    \A o \in 1..Len(conns) :
        /\ Live(o) => conns[o].timer
        /\ conns[o].timer => dic[conns[o].key] = o \/ InsertingNow(o)

\* The thread made an object only after it saw no other for the key, and nobody
\* but its timer can know the object before it is in the dictionary.
InsertsUnknown ==
    /\ input.pc = "got" => input.key \in Keys /\ input.seg \in Segs
    /\ input.pc = "got" /\ input.conn = None => dic[input.key] = None
    /\ input.pc = "set" =>
          /\ input.key \in Keys /\ dic[input.key] = None
          /\ input.conn \in 1..Len(conns)
          /\ Live(input.conn)
          /\ conns[input.conn].key = input.key
          /\ conns[input.conn].blocks = <<>> /\ ~conns[input.conn].delegate
          /\ \A i \in 1..Len(delegateQueue) : delegateQueue[i].conn # input.conn

\* A key that waits to be removed is no longer anyone's.
RemovesTheDead ==
    \A i \in 1..Len(dicQueue) :
        /\ input.pc = "set" \/ (input.pc = "got" /\ input.conn = None) =>
              input.key # dicQueue[i]
        /\ \A o \in 1..Len(conns) : conns[o].timer => conns[o].key # dicQueue[i]

IInv == TunnelTypeOK /\ TimerWatches /\ InsertsUnknown /\ RemovesTheDead

-----------------------------------------------------------------------------
(* What blocks do to an object.                                            *)

Block == [op : {"input"} \cup Ops, seg : Segs \cup {"none"}]

\* It leaves the key and the timer alone, revives no pcb, and what it has called is
\* called for this connection.
Kept(c, o, r) ==
    /\ r[1] \in Conn
    /\ r[1].key = c.key /\ r[1].timer = c.timer
    /\ r[1].pcb # "NULL" => c.pcb # "NULL"
    /\ \/ r[2] = <<>>
       \/ \E n \in {"didEstablish", "didWrite", "didDisconnect"} : r[2] = <<Call(n, o)>>

\* Whatever a segment does to an object, its types and key stay and a pcb keeps its timer.
LEMMA InputKeeps ==
    ASSUME NEW c \in Conn, NEW o \in Nat, NEW seg \in Segs \cup {"none"},
           NEW all \in BOOLEAN
    PROVE  Kept(c, o, Arrived(c, o, seg, all))
  <1>1. CASE c.pcb \in {"NULL", "TIME_WAIT"}
    <2>1. Arrived(c, o, seg, all) = <<c, <<>> >>
      BY <1>1 DEF Arrived
    <2> QED BY <2>1, <1>1 DEF Kept
  <1>2. CASE c.pcb \notin {"NULL", "TIME_WAIT"} /\ seg = "RST"
    <2>1. Arrived(c, o, seg, all) = <<Removed(c, "error"), zp_tcp_err(c, o)>>
      BY <1>2 DEF Arrived
    <2>2. /\ Removed(c, "error") \in Conn /\ Removed(c, "error").key = c.key
          /\ Removed(c, "error").timer = c.timer /\ Removed(c, "error").pcb = "NULL"
      BY DEF Removed, Conn, States
    <2>3. zp_tcp_err(c, o) \in {<<>>, <<Call("didDisconnect", o)>>}
      BY DEF zp_tcp_err
    <2> QED BY <2>1, <2>2, <2>3 DEF Kept
  <1>3. CASE c.pcb = "SYN_RCVD" /\ seg = "ACK"
    <2>1. Arrived(c, o, seg, all) = <<[c EXCEPT !.pcb = "OPEN"], <<Call("didEstablish", o)>> >>
      BY <1>3 DEF Arrived
    <2> DEFINE d == [c EXCEPT !.pcb = "OPEN"]
    <2>2. d \in Conn /\ d.key = c.key /\ d.timer = c.timer
      BY DEF Conn, States
    <2> HIDE DEF d
    <2>3. Kept(c, o, <<d, <<Call("didEstablish", o)>> >>)
      BY <2>2, <1>3 DEF Kept
    <2> QED BY <2>1, <2>3 DEF d
  <1>4. CASE c.pcb \in {"OPEN", "CLOSING"} /\ seg = "ACK" /\ c.unacked = 1
    <2>1. Arrived(c, o, seg, all) = <<[c EXCEPT !.unacked = IF all THEN 0 ELSE 1],
                                     <<Call("didWrite", o)>> >>
      BY <1>4 DEF Arrived
    <2> DEFINE d == [c EXCEPT !.unacked = IF all THEN 0 ELSE 1]
    <2>2. /\ d \in Conn /\ d.key = c.key /\ d.timer = c.timer
          /\ d.pcb = c.pcb
      BY DEF Conn, States
    <2> HIDE DEF d
    <2>3. Kept(c, o, <<d, <<Call("didWrite", o)>> >>)
      BY <2>2, <1>4 DEF Kept
    <2> QED BY <2>1, <2>3 DEF d
  <1>5. CASE c.pcb = "CLOSING" /\ seg = "ACK" /\ c.unacked = 0
    <2>1. Arrived(c, o, seg, all) = <<Removed(c, "silent"), <<>> >>
      BY <1>5 DEF Arrived
    <2>2. /\ Removed(c, "silent") \in Conn /\ Removed(c, "silent").key = c.key
          /\ Removed(c, "silent").timer = c.timer /\ Removed(c, "silent").pcb = "NULL"
      BY DEF Removed, Conn, States
    <2> QED BY <2>1, <2>2 DEF Kept
  <1>6. CASE ~ \/ c.pcb \in {"NULL", "TIME_WAIT"}
               \/ c.pcb \notin {"NULL", "TIME_WAIT"} /\ seg = "RST"
               \/ c.pcb = "SYN_RCVD" /\ seg = "ACK"
               \/ c.pcb \in {"OPEN", "CLOSING"} /\ seg = "ACK" /\ c.unacked = 1
               \/ c.pcb = "CLOSING" /\ seg = "ACK" /\ c.unacked = 0
    <2>1. Arrived(c, o, seg, all) = <<c, <<>> >>
      BY <1>6 DEF Arrived
    <2> QED BY <2>1 DEF Kept
  <1> QED BY <1>1, <1>2, <1>3, <1>4, <1>5, <1>6

\* So does a call of the application.
LEMMA ApiKeeps ==
    ASSUME NEW c \in Conn, NEW op \in Ops, NEW way \in Ways
    PROVE  /\ Api(c, op, way) \in Conn
           /\ Api(c, op, way).key = c.key /\ Api(c, op, way).timer = c.timer
           /\ Api(c, op, way).pcb # "NULL" => c.pcb # "NULL"
  <1>1. CASE op = "syncSet"
    BY <1>1 DEF Api, Conn, States
  <1>2. CASE op = "asyncSet"
    BY <1>2 DEF Api, Conn, States
  <1>3. CASE op = "write"
    <2>1. Api(c, op, way) = Written(c)
      BY <1>3 DEF Api
    <2>2. CASE c.pcb = "OPEN"
      <3>1. [c EXCEPT !.unacked = 1, !.empty = FALSE] \in Conn
        <4>1. [c EXCEPT !.unacked = 1] \in Conn
          BY DEF Conn, States
        <4>2. \A d \in Conn : [d EXCEPT !.empty = FALSE] \in Conn
          BY DEF Conn, States
        <4>3. [[c EXCEPT !.unacked = 1] EXCEPT !.empty = FALSE]
                 = [c EXCEPT !.unacked = 1, !.empty = FALSE]
          BY DEF Conn
        <4> QED BY <4>1, <4>2, <4>3
      <3> QED BY <2>1, <2>2, <3>1 DEF Written
    <2>3. CASE c.pcb # "OPEN"
      BY <2>1, <2>3 DEF Written
    <2> QED BY <2>2, <2>3
  <1>4. CASE op = "close"
    <2>1. Api(c, op, way) = Closed(c, way)
      BY <1>4 DEF Api
    <2>2. CASE c.pcb = "OPEN" /\ way = "NULL"
      <3>1. /\ Removed(c, "silent") \in Conn /\ Removed(c, "silent").key = c.key
            /\ Removed(c, "silent").timer = c.timer /\ Removed(c, "silent").pcb = "NULL"
        BY DEF Removed, Conn, States
      <3> QED BY <2>1, <2>2, <3>1 DEF Closed
    <2>3. CASE ~(c.pcb = "OPEN" /\ way = "NULL")
      BY <2>1, <2>3 DEF Closed, Conn, States, Ways
    <2> QED BY <2>2, <2>3
  <1> QED BY <1>1, <1>2, <1>3, <1>4 DEF Ops

\* What a block may do to an object is one or the other.
LEMMA OutcomeIs ==
    ASSUME NEW c, NEW o, NEW b \in Block, NEW done \in Outcomes(c, o, b)
    PROVE  \/ /\ b.op = "input"
              /\ \E all \in BOOLEAN : done = Arrived(c, o, b.seg, all)
           \/ /\ b.op \in Ops
              /\ \E way \in Ways : done = <<Api(c, b.op, way), <<>> >>
  BY DEF Outcomes, Block

\* Either keeps the object what it is.
LEMMA OutcomeKeeps ==
    ASSUME NEW c \in Conn, NEW o \in Nat, NEW b \in Block, NEW done \in Outcomes(c, o, b)
    PROVE  Kept(c, o, done)
  <1>1. ASSUME NEW all \in BOOLEAN, done = Arrived(c, o, b.seg, all)
        PROVE  Kept(c, o, done)
    <2>1. b.seg \in Segs \cup {"none"}
      BY DEF Block
    <2> QED BY <1>1, <2>1, InputKeeps
  <1>2. ASSUME b.op \in Ops, NEW way \in Ways, done = <<Api(c, b.op, way), <<>> >>
        PROVE  Kept(c, o, done)
    BY <1>2, ApiKeeps DEF Kept
  <1> QED BY <1>1, <1>2, OutcomeIs
-----------------------------------------------------------------------------
(* The steps.                                                              *)

CallType == [call : {"didEstablish", "didWrite", "didDisconnect"}, conn : 1..Len(conns)]

\* The types of the parts of the state.
LEMMA Parts ==
    ASSUME IInv
    PROVE  /\ conns \in Seq(Conn) /\ dicQueue \in Seq(Keys)
           /\ dic \in [Keys -> {None} \cup 1..Len(conns)]
           /\ \A o \in 1..Len(conns) : conns[o] \in Conn /\ conns[o].key \in Keys
           /\ \A i \in 1..Len(delegateQueue) : delegateQueue[i].conn \in 1..Len(conns)
  <1>1. /\ conns \in Seq(Conn) /\ dicQueue \in Seq(Keys)
        /\ dic \in [Keys -> {None} \cup 1..Len(conns)]
    BY DEF IInv, TunnelTypeOK
  <1>2. \A o \in 1..Len(conns) : conns[o] \in Conn
    BY <1>1
  <1>3. \A c \in Conn : c.key \in Keys
    BY DEF Conn
  <1>4. delegateQueue \in Seq(CallType)
    BY DEF IInv, TunnelTypeOK, CallType
  <1>5. \A i \in 1..Len(delegateQueue) : delegateQueue[i] \in CallType
    BY <1>4
  <1>6. \A b \in CallType : b.conn \in 1..Len(conns)
    BY DEF CallType
  <1> QED BY <1>1, <1>2, <1>3, <1>5, <1>6

\* Steps that leave the dictionary, the thread and the keys alone: an object that
\* is not on its way into the dictionary becomes c, and calls are queued for it.
LEMMA ObjectStep ==
    ASSUME IInv, NEW o \in 1..Len(conns), NEW c \in Conn,
           ~InsertingNow(o),
           c.key = conns[o].key, c.timer = conns[o].timer,
           c.pcb # "NULL" => conns[o].pcb # "NULL",
           conns' = [conns EXCEPT ![o] = c],
           UNCHANGED <<dic, dicQueue, input, iss>>,
           waiting' \in {None} \cup 1..Len(conns),
           delegateQueue' \in Seq(CallType),
           \A i \in 1..Len(delegateQueue') :
               \/ delegateQueue'[i].conn = o
               \/ \E j \in 1..Len(delegateQueue) :
                      delegateQueue'[i].conn = delegateQueue[j].conn
    PROVE  IInv'
  <1>1. /\ conns \in Seq(Conn) /\ conns' \in Seq(Conn) /\ Len(conns') = Len(conns)
        /\ conns'[o] = c
        /\ \A p \in 1..Len(conns) : p # o => conns'[p] = conns[p]
    BY DEF IInv, TunnelTypeOK
  <1>2. \A p \in 1..Len(conns) : /\ conns'[p].key = conns[p].key
                                /\ conns'[p].timer = conns[p].timer
                                /\ Live(p)' => Live(p)
    BY <1>1 DEF Live
  <1>3. TunnelTypeOK'
    <2>1. dic' \in [Keys -> {None} \cup 1..Len(conns')]
      BY <1>1 DEF IInv, TunnelTypeOK
    <2>2. delegateQueue' \in Seq([call : {"didEstablish", "didWrite", "didDisconnect"},
                                  conn : 1..Len(conns')])
      BY <1>1 DEF CallType
    <2> QED BY <1>1, <2>1, <2>2 DEF IInv, TunnelTypeOK
  <1>4. TimerWatches'
    BY <1>1, <1>2 DEF IInv, TimerWatches, InsertingNow
  <1>5. InsertsUnknown'
    <2>1. ASSUME input.pc = "set"
          PROVE  /\ input.conn \in 1..Len(conns) /\ input.conn # o
                 /\ conns'[input.conn] = conns[input.conn]
                 /\ Live(input.conn)'
                 /\ \A i \in 1..Len(delegateQueue') : delegateQueue'[i].conn # input.conn
      BY <1>1, <2>1 DEF IInv, InsertsUnknown, InsertingNow, Live
    <2> QED BY <1>1, <2>1 DEF IInv, InsertsUnknown
  <1>6. RemovesTheDead'
    BY <1>1, <1>2 DEF IInv, RemovesTheDead
  <1> QED BY <1>3, <1>4, <1>5, <1>6 DEF IInv

\* Nothing reaches an object before it is in the dictionary.
LEMMA InsertedIsQuiet ==
    ASSUME IInv, NEW o \in 1..Len(conns), InsertingNow(o)
    PROVE  /\ conns[o].blocks = <<>> /\ ~conns[o].delegate /\ Live(o)
           /\ \A i \in 1..Len(delegateQueue) : delegateQueue[i].conn # o
  BY DEF IInv, InsertsUnknown, InsertingNow

\* A block of a timer queue keeps the types, the key and the watch over the pcb, or the
\* object is done with.
LEMMA BlockIsKept ==
    ASSUME IInv, NEW o \in 1..Len(conns), TimerQueueBlock(o)
    PROVE  /\ ~InsertingNow(o)
           /\ \E r : /\ Kept(conns[o], o, r)
                    /\ conns' = [conns EXCEPT ![o] = r[1]]
                    /\ delegateQueue' = delegateQueue \o r[2]
  <1> DEFINE b == Head(conns[o].blocks)
             c == [conns[o] EXCEPT !.blocks = Tail(@)]
  <1>1. /\ conns[o] \in Conn /\ conns[o].blocks # <<>> /\ ~InsertingNow(o)
    <2>1. conns[o] \in Conn
      BY DEF IInv, TunnelTypeOK
    <2>2. conns[o].blocks # <<>>
      BY DEF TimerQueueBlock
    <2> QED BY <2>1, <2>2, InsertedIsQuiet
  <1>2. /\ c \in Conn /\ c.key = conns[o].key /\ c.timer = conns[o].timer
        /\ c.pcb = conns[o].pcb
    <2>1. Tail(conns[o].blocks) \in Seq(Block)
      BY <1>1 DEF Conn, Block
    <2> QED BY <1>1, <2>1 DEF Conn, Block
  <1>3. b \in Block
    <2>1. conns[o].blocks \in Seq(Block)
      BY <1>1 DEF Conn, Block
    <2> QED BY <1>1, <2>1
  <1>4. PICK done \in Outcomes(c, o, b) :
            /\ conns' = [conns EXCEPT ![o] = done[1]]
            /\ delegateQueue' = delegateQueue \o done[2]
    BY DEF TimerQueueBlock
  <1> HIDE DEF c, b
  <1>5. Kept(c, o, done)
    BY <1>2, <1>3, <1>4, OutcomeKeeps
  <1>6. Kept(conns[o], o, done)
    BY <1>2, <1>5 DEF Kept
  <1> QED BY <1>1, <1>4, <1>6

\* Running the block at the head of a timer queue keeps the invariant.
LEMMA TimerQueueBlockKeeps ==
    ASSUME IInv, NEW o \in 1..Len(conns), TimerQueueBlock(o)
    PROVE  IInv'
  <1>1. PICK done : /\ Kept(conns[o], o, done)
                    /\ conns' = [conns EXCEPT ![o] = done[1]]
                    /\ delegateQueue' = delegateQueue \o done[2]
    BY BlockIsKept
  <1>2. ~InsertingNow(o)
    BY BlockIsKept
  <1>3. waiting' \in {None, waiting} /\ UNCHANGED <<dic, dicQueue, input, iss>>
    BY DEF TimerQueueBlock
  <1>4. /\ delegateQueue' \in Seq(CallType)
        /\ \A i \in 1..Len(delegateQueue') :
               \/ delegateQueue'[i].conn = o
               \/ \E j \in 1..Len(delegateQueue) :
                      delegateQueue'[i].conn = delegateQueue[j].conn
    <2>1. delegateQueue \in Seq(CallType)
      BY DEF IInv, TunnelTypeOK, CallType
    <2>2. CASE done[2] = <<>>
      <3>1. delegateQueue' = delegateQueue
        BY <1>1, <2>1, <2>2
      <3> QED BY <2>1, <3>1
    <2>3. ASSUME NEW n \in {"didEstablish", "didWrite", "didDisconnect"},
                 done[2] = <<Call(n, o)>>
          PROVE  <1>4
      <3>1. Call(n, o) \in CallType /\ Call(n, o).conn = o
        BY DEF Call, CallType
      <3>2. delegateQueue' = Append(delegateQueue, Call(n, o))
        BY <1>1, <2>1, <2>3, <3>1
      <3> QED BY <2>1, <3>1, <3>2
    <2> QED BY <1>1, <2>2, <2>3 DEF Kept
  <1>5. waiting' \in {None} \cup 1..Len(conns)
    BY <1>3 DEF IInv, TunnelTypeOK
  <1> QED BY <1>1, <1>2, <1>3, <1>4, <1>5, ObjectStep DEF Kept

\* So does the timer of an object, also when it finds no pcb and asks for the removal.
LEMMA TimeoutKeeps ==
    ASSUME IInv, NEW o \in 1..Len(conns), Timeout(o)
    PROVE  IInv'
  <1>1. conns[o] \in Conn /\ ~InsertingNow(o)
    BY DEF IInv, TunnelTypeOK, Timeout, InsertingNow
  <1>2. PICK end \in {"error", "silent"} :
           /\ conns' = [conns EXCEPT ![o] = Removed(conns[o], end)]
           /\ delegateQueue' \in {delegateQueue, delegateQueue \o zp_tcp_err(conns[o], o)}
    BY DEF Timeout
  <1>3. /\ Removed(conns[o], end) \in Conn /\ Removed(conns[o], end).key = conns[o].key
        /\ Removed(conns[o], end).timer = conns[o].timer
        /\ Removed(conns[o], end).pcb = "NULL"
    BY <1>1 DEF Removed, Conn, States
  <1>4. delegateQueue \in Seq(CallType)
    BY DEF IInv, TunnelTypeOK, CallType
  <1>5. delegateQueue' \in {delegateQueue, Append(delegateQueue, Call("didDisconnect", o))}
    BY <1>2, <1>4 DEF zp_tcp_err
  <1>6. Call("didDisconnect", o) \in CallType /\ Call("didDisconnect", o).conn = o
    BY DEF Call, CallType
  <1>7. /\ delegateQueue' \in Seq(CallType)
        /\ \A i \in 1..Len(delegateQueue') :
               \/ delegateQueue'[i].conn = o
               \/ \E j \in 1..Len(delegateQueue) :
                      delegateQueue'[i].conn = delegateQueue[j].conn
    BY <1>4, <1>5, <1>6
  <1>8. UNCHANGED <<dic, dicQueue, input, waiting, iss>>
    BY DEF Timeout
  <1>9. waiting' \in {None} \cup 1..Len(conns)
    BY <1>8 DEF IInv, TunnelTypeOK
  <1> QED BY <1>1, <1>2, <1>3, <1>7, <1>8, <1>9, ObjectStep

\* So does putting a block on the queue of an object that left its initial state.
LEMMA DispatchKeeps ==
    ASSUME IInv, NEW o \in 1..Len(conns),
           NEW op \in Ops, dispatch_async(o, op)
    PROVE  \E c \in Conn : /\ conns' = [conns EXCEPT ![o] = c]
                          /\ c.key = conns[o].key /\ c.timer = conns[o].timer
                          /\ c.pcb = conns[o].pcb
  <1> DEFINE c == [conns[o] EXCEPT !.blocks = Append(@, [op |-> op, seg |-> "none"])]
  <1>1. conns[o] \in Conn /\ conns \in Seq(Conn)
    BY DEF IInv, TunnelTypeOK
  <1>2. Append(conns[o].blocks, [op |-> op, seg |-> "none"]) \in Seq(Block)
    BY <1>1 DEF Conn, Block
  <1>3. c \in Conn /\ c.key = conns[o].key /\ c.timer = conns[o].timer /\ c.pcb = conns[o].pcb
    BY <1>1, <1>2 DEF Conn, Block
  <1>4. conns' = [conns EXCEPT ![o] = c]
    BY DEF dispatch_async
  <1> HIDE DEF c
  <1> QED BY <1>3, <1>4

\* So does a call of the application for a connection it was told of.
LEMMA UseKeeps ==
    ASSUME IInv, NEW o \in 1..Len(conns), Use(o)
    PROVE  IInv'
  <1>1. ~InsertingNow(o) /\ UNCHANGED <<dic, dicQueue, input, delegateQueue, waiting, iss>>
    BY InsertedIsQuiet DEF Use
  <1>2. PICK c \in Conn : /\ conns' = [conns EXCEPT ![o] = c]
                        /\ c.key = conns[o].key /\ c.timer = conns[o].timer
                        /\ c.pcb = conns[o].pcb
    BY DispatchKeeps DEF Use, Ops
  <1>3. /\ delegateQueue' \in Seq(CallType)
        /\ waiting' \in {None} \cup 1..Len(conns)
    BY <1>1 DEF IInv, TunnelTypeOK, CallType
  <1> QED BY <1>1, <1>2, <1>3, ObjectStep

\* So does a block of the delegate queue, which looks at the pcb only to read snd_buf.
LEMMA DelegateBlockKeeps ==
    ASSUME IInv, DelegateBlock
    PROVE  IInv'
  <1> DEFINE b == Head(delegateQueue)
             o == b.conn
  <1>1. delegateQueue \in Seq(CallType) /\ delegateQueue # <<>>
    BY DEF IInv, TunnelTypeOK, CallType, DelegateBlock
  <1>2. b \in CallType /\ b = delegateQueue[1] /\ 1 \in 1..Len(delegateQueue)
    BY <1>1
  <1>3. o \in 1..Len(conns) /\ ~InsertingNow(o)
    BY <1>2, InsertedIsQuiet DEF CallType
  <1>4. /\ delegateQueue' = Tail(delegateQueue)
        /\ UNCHANGED <<dic, dicQueue, input, iss>>
        /\ \/ DidEstablish(o)
           \/ DidWrite(o)
           \/ conns' = [conns EXCEPT ![o].told = TRUE] /\ UNCHANGED waiting
    BY DEF DelegateBlock
  <1> HIDE DEF o
  <1>5. conns[o] \in Conn /\ waiting \in {None} \cup 1..Len(conns)
    BY <1>3 DEF IInv, TunnelTypeOK
  <1>6. /\ waiting' \in {None} \cup 1..Len(conns)
        /\ \E c \in Conn : /\ conns' = [conns EXCEPT ![o] = c]
                           /\ c.key = conns[o].key /\ c.timer = conns[o].timer
                           /\ c.pcb = conns[o].pcb
    <2>1. CASE DidEstablish(o)
      BY <1>3, <1>5, <2>1, DispatchKeeps DEF DidEstablish, Ops
    <2>2. CASE DidWrite(o)
      <3>1. PICK e \in SendBufEmpty(conns[o]) : conns' = [conns EXCEPT ![o].empty = e]
        BY <2>2 DEF DidWrite
      <3>2. e \in BOOLEAN
        BY TunnelAssumption DEF SendBufEmpty, TunnelAssumption
      <3>3. [conns[o] EXCEPT !.empty = e] \in Conn
        BY <1>5, <3>2 DEF Conn
      <3>4. conns' = [conns EXCEPT ![o] = [conns[o] EXCEPT !.empty = e]]
        BY <3>1
      <3>5. /\ [conns[o] EXCEPT !.empty = e].key = conns[o].key
            /\ [conns[o] EXCEPT !.empty = e].timer = conns[o].timer
            /\ [conns[o] EXCEPT !.empty = e].pcb = conns[o].pcb
        BY <1>5 DEF Conn
      <3> QED BY <1>5, <2>2, <3>3, <3>4, <3>5 DEF DidWrite
    <2>3. CASE conns' = [conns EXCEPT ![o].told = TRUE] /\ UNCHANGED waiting
      <3>1. [conns[o] EXCEPT !.told = TRUE] \in Conn
        BY <1>5 DEF Conn
      <3>2. /\ [conns[o] EXCEPT !.told = TRUE].key = conns[o].key
            /\ [conns[o] EXCEPT !.told = TRUE].timer = conns[o].timer
            /\ [conns[o] EXCEPT !.told = TRUE].pcb = conns[o].pcb
        BY <1>5 DEF Conn
      <3> QED BY <1>5, <2>3, <3>1, <3>2
    <2> QED BY <1>4, <2>1, <2>2, <2>3
  <1>7. /\ delegateQueue' \in Seq(CallType)
        /\ \A i \in 1..Len(delegateQueue') :
               \E j \in 1..Len(delegateQueue) :
                   delegateQueue'[i].conn = delegateQueue[j].conn
    <2>1. Len(delegateQueue') = Len(delegateQueue) - 1
      BY <1>1, <1>4
    <2>2. \A i \in 1..Len(delegateQueue') : /\ delegateQueue'[i] = delegateQueue[i + 1]
                                            /\ i + 1 \in 1..Len(delegateQueue)
      BY <1>1, <1>4, <2>1
    <2> QED BY <1>1, <1>4, <2>2
  <1> QED BY <1>3, <1>4, <1>6, <1>7, ObjectStep

\* The thread and the dictionary.
LEMMA InputStarts ==
    ASSUME IInv, NEW k \in Keys, NEW seg \in Segs, ipPacketInput(k, seg)
    PROVE  IInv'
  <1>1. /\ input.pc = "idle" /\ dicQueue = <<>>
        /\ input' = [pc |-> "got", key |-> k, seg |-> seg, conn |-> dic[k]]
        /\ UNCHANGED <<conns, dic, dicQueue, delegateQueue, waiting, iss>>
    BY DEF ipPacketInput
  <1>2. TunnelTypeOK'
    BY <1>1 DEF IInv, TunnelTypeOK
  <1>3. TimerWatches' /\ InsertsUnknown' /\ RemovesTheDead'
    BY <1>1 DEF IInv, TunnelTypeOK, TimerWatches, InsertsUnknown, RemovesTheDead, InsertingNow, Live
  <1> QED BY <1>2, <1>3 DEF IInv

\* The object made for a SYN enters the dictionary, where no other was.
LEMMA SetConnectionKeeps ==
    ASSUME IInv, setConnection
    PROVE  IInv'
  <1>1. /\ input.pc = "set" /\ dicQueue = <<>> /\ input' = Idle
        /\ dic' = [dic EXCEPT ![input.key] = input.conn]
        /\ UNCHANGED <<conns, dicQueue, delegateQueue, waiting, iss>>
    BY DEF setConnection
  <1>2. /\ input.key \in Keys /\ dic[input.key] = None /\ input.conn \in 1..Len(conns)
        /\ conns[input.conn].key = input.key
    BY <1>1 DEF IInv, InsertsUnknown
  <1>3. /\ dic \in [Keys -> {None} \cup 1..Len(conns)] /\ conns \in Seq(Conn)
        /\ \A o \in 1..Len(conns) : conns[o].key \in Keys
    BY Parts
  <1>4. TunnelTypeOK'
    <2>1. dic' \in [Keys -> {None} \cup 1..Len(conns)]
      BY <1>1, <1>2, <1>3
    <2>2. input' \in [pc : {"idle", "got", "set"}, key : Keys \cup {None},
                      seg : Segs \cup {"none"}, conn : {None} \cup 1..Len(conns)]
      BY <1>1 DEF Idle
    <2> QED BY <1>1, <2>1, <2>2 DEF IInv, TunnelTypeOK
  <1>5. TimerWatches'
    BY <1>1, <1>2, <1>3 DEF IInv, TimerWatches, InsertingNow, Live, None
  <1>6. InsertsUnknown' /\ RemovesTheDead'
    BY <1>1 DEF InsertsUnknown, RemovesTheDead, Idle
  <1> QED BY <1>4, <1>5, <1>6 DEF IInv

\* dicQueue removes an object whose timer has stopped; the thread may be anywhere.
LEMMA RemoveConnectionKeeps ==
    ASSUME IInv, removeConnection
    PROVE  IInv'
  <1> DEFINE k == Head(dicQueue)
  <1>1. /\ dicQueue # <<>> /\ dicQueue' = Tail(dicQueue)
        /\ dic' = [dic EXCEPT ![k] = None]
        /\ UNCHANGED <<conns, input, delegateQueue, waiting, iss>>
    BY DEF removeConnection
  <1>2. /\ dicQueue \in Seq(Keys) /\ dic \in [Keys -> {None} \cup 1..Len(conns)]
        /\ \A o \in 1..Len(conns) : conns[o].key \in Keys
    BY Parts
  <1>3. /\ k = dicQueue[1] /\ 1 \in 1..Len(dicQueue) /\ k \in Keys
        /\ dicQueue' \in Seq(Keys)
        /\ \A i \in 1..Len(dicQueue') : /\ dicQueue'[i] = dicQueue[i + 1]
                                         /\ i + 1 \in 1..Len(dicQueue)
    BY <1>1, <1>2
  <1> HIDE DEF k
  <1>4. TunnelTypeOK'
    BY <1>1, <1>2, <1>3 DEF IInv, TunnelTypeOK
  <1>5. TimerWatches'
    <2>1. \A o \in 1..Len(conns) : conns[o].timer => conns[o].key # k
      BY <1>3 DEF IInv, RemovesTheDead
    <2> QED BY <1>1, <1>2, <2>1 DEF IInv, TimerWatches, InsertingNow, Live
  <1>6. InsertsUnknown'
    <2>1. input.pc = "got" /\ input.conn = None => dic'[input.key] = None
      BY <1>1, <1>2, <1>3 DEF IInv, InsertsUnknown
    <2>2. input.pc = "set" => dic'[input.key] = None
      BY <1>1, <1>2, <1>3 DEF IInv, InsertsUnknown
    <2> QED BY <1>1, <2>1, <2>2 DEF IInv, InsertsUnknown, Live
  <1>7. RemovesTheDead'
    BY <1>1, <1>3 DEF IInv, RemovesTheDead
  <1> QED BY <1>4, <1>5, <1>6, <1>7 DEF IInv

\* The thread hands a segment to the object it found.
LEMMA FoundKeeps ==
    ASSUME IInv, Found
    PROVE  IInv'
  <1> DEFINE o == input.conn
             c == [conns[o] EXCEPT !.blocks = Append(@, [op |-> "input", seg |-> input.seg])]
  <1>1. /\ input.pc = "got" /\ o # None /\ input' = Idle
        /\ conns' = [conns EXCEPT ![o] = c]
        /\ UNCHANGED <<dic, dicQueue, delegateQueue, waiting, iss>>
    BY DEF Found
  <1>2. /\ o \in 1..Len(conns) /\ conns \in Seq(Conn) /\ conns[o] \in Conn
        /\ input.seg \in Segs
    BY <1>1 DEF IInv, TunnelTypeOK, InsertsUnknown
  <1>3. Append(conns[o].blocks, [op |-> "input", seg |-> input.seg]) \in Seq(Block)
    BY <1>2 DEF Conn, Block
  <1>4. /\ c \in Conn /\ c.key = conns[o].key /\ c.timer = conns[o].timer
        /\ c.pcb = conns[o].pcb
    BY <1>2, <1>3 DEF Conn, Block
  <1> HIDE DEF c, o
  <1>5. /\ conns' \in Seq(Conn) /\ Len(conns') = Len(conns)
        /\ \A p \in 1..Len(conns) : /\ conns'[p].key = conns[p].key
                                   /\ conns'[p].timer = conns[p].timer
                                   /\ conns'[p].pcb = conns[p].pcb
    BY <1>1, <1>2, <1>4
  <1>6. TunnelTypeOK'
    <2>1. input' \in [pc : {"idle", "got", "set"}, key : Keys \cup {None},
                      seg : Segs \cup {"none"}, conn : {None} \cup 1..Len(conns)]
      BY <1>1 DEF Idle
    <2> QED BY <1>1, <1>5, <2>1 DEF IInv, TunnelTypeOK
  <1>7. TimerWatches' /\ RemovesTheDead'
    BY <1>1, <1>5 DEF IInv, TimerWatches, RemovesTheDead, InsertingNow, Live, Idle
  <1>8. InsertsUnknown'
    BY <1>1 DEF InsertsUnknown, Idle
  <1> QED BY <1>6, <1>7, <1>8 DEF IInv

\* The thread makes an object for a key it found unused.
LEMMA AcceptKeeps ==
    ASSUME IInv, AcceptSyn
    PROVE  IInv'
  <1> DEFINE new == Len(conns) + 1
             c == NewConn(input.key)
  <1>1. /\ input.pc = "got" /\ input.conn = None /\ Len(conns) < MaxObjects
        /\ conns' = Append(conns, c) /\ iss' = tcp_next_iss(0)
        /\ input' = [input EXCEPT !.pc = "set", !.conn = new]
        /\ UNCHANGED <<dic, dicQueue, delegateQueue, waiting>>
    BY DEF AcceptSyn
  <1>2. /\ conns \in Seq(Conn) /\ iss \in Nat /\ iss' \in Nat
        /\ input.key \in Keys /\ dic[input.key] = None
    BY <1>1 DEF IInv, TunnelTypeOK, InsertsUnknown, tcp_next_iss
  <1>3. /\ c \in Conn /\ c.key = input.key /\ c.timer /\ c.pcb # "NULL"
        /\ c.blocks = <<>> /\ ~c.delegate
    BY <1>2 DEF NewConn, Conn, States, tcp_next_iss
  <1> HIDE DEF c
  <1>4. /\ conns' \in Seq(Conn) /\ Len(conns') = new /\ conns'[new] = c
        /\ \A p \in 1..Len(conns) : conns'[p] = conns[p]
        /\ new \in Nat \ {0} /\ 1..new = (1..Len(conns)) \cup {new}
        /\ \A p \in 1..Len(conns) : p # new
    BY <1>1, <1>2, <1>3
  <1> HIDE DEF new
  <1>5. /\ input'.pc = "set" /\ input'.key = input.key /\ input'.conn = new
        /\ input' \in [pc : {"idle", "got", "set"}, key : Keys \cup {None},
                       seg : Segs \cup {"none"}, conn : {None} \cup 1..new]
    BY <1>1, <1>4 DEF IInv, TunnelTypeOK
  <1>6. TunnelTypeOK'
    <2>1. Len(conns') <= MaxObjects
      BY <1>1, <1>2, <1>4, TunnelAssumption DEF TunnelAssumption, new
    <2>2. dic' \in [Keys -> {None} \cup 1..new] /\ waiting' \in {None} \cup 1..new
      BY <1>1, <1>4 DEF IInv, TunnelTypeOK
    <2>3. delegateQueue' \in Seq([call : {"didEstablish", "didWrite", "didDisconnect"},
                                  conn : 1..new])
      <3>1. delegateQueue \in Seq(CallType)
        BY DEF IInv, TunnelTypeOK, CallType
      <3>2. CallType \subseteq [call : {"didEstablish", "didWrite", "didDisconnect"},
                                conn : 1..new]
        BY <1>4 DEF CallType
      <3> DEFINE T == [call : {"didEstablish", "didWrite", "didDisconnect"}, conn : 1..new]
      <3>3. /\ \A i \in 1..Len(delegateQueue) : delegateQueue[i] \in T
            /\ Len(delegateQueue) \in Nat
            /\ delegateQueue = [i \in 1..Len(delegateQueue) |-> delegateQueue[i]]
        BY <3>1, <3>2
      <3> HIDE DEF T
      <3>4. delegateQueue \in Seq(T)
        BY <3>3
      <3> QED BY <1>1, <3>4 DEF T
    <2> QED BY <1>1, <1>2, <1>4, <1>5, <2>1, <2>2, <2>3 DEF IInv, TunnelTypeOK
  <1>7. TimerWatches'
    <2>1. ASSUME NEW o \in 1..new
          PROVE  /\ conns'[o].pcb # "NULL" => conns'[o].timer
                 /\ conns'[o].timer => dic'[conns'[o].key] = o \/ o = new
      BY <1>1, <1>3, <1>4 DEF IInv, TimerWatches, InsertingNow, Live
    <2> QED BY <1>4, <1>5, <2>1 DEF TimerWatches, InsertingNow, Live
  <1>8. InsertsUnknown'
    <2>1. \A i \in 1..Len(delegateQueue) : delegateQueue[i].conn # new
      BY <1>4, Parts
    <2> QED BY <1>1, <1>2, <1>3, <1>4, <1>5, <2>1 DEF InsertsUnknown, Live
  <1>9. RemovesTheDead'
    BY <1>1, <1>3, <1>4, <1>5 DEF IInv, RemovesTheDead
  <1> QED BY <1>6, <1>7, <1>8, <1>9 DEF IInv

\* The thread makes nothing of a segment for an unknown key that is no SYN.
LEMMA RefuseKeeps ==
    ASSUME IInv, Refuse
    PROVE  IInv'
  <1>1. /\ input.pc = "got" /\ input' = Idle
        /\ UNCHANGED <<conns, dic, dicQueue, delegateQueue, waiting, iss>>
    BY DEF Refuse
  <1>2. input' \in [pc : {"idle", "got", "set"}, key : Keys \cup {None},
                    seg : Segs \cup {"none"}, conn : {None} \cup 1..Len(conns)]
    BY <1>1 DEF Idle
  <1>3. TunnelTypeOK'
    BY <1>1, <1>2 DEF IInv, TunnelTypeOK
  <1>4. TimerWatches' /\ InsertsUnknown' /\ RemovesTheDead'
    BY <1>1 DEF IInv, TimerWatches, InsertsUnknown, RemovesTheDead, InsertingNow, Live, Idle
  <1> QED BY <1>3, <1>4 DEF IInv

\* The timer of an object without a pcb stops.
LEMMA TimerEndsKeeps ==
    ASSUME IInv, NEW o \in 1..Len(conns), TimerEnds(o)
    PROVE  IInv'
  <1> DEFINE k == conns[o].key
             c == [conns[o] EXCEPT !.timer = FALSE]
  <1>1. /\ conns[o].timer /\ ~Live(o)
        /\ conns' = [conns EXCEPT ![o] = c]
        /\ dicQueue' = Append(dicQueue, k)
        /\ UNCHANGED <<dic, input, delegateQueue, waiting, iss>>
    BY DEF TimerEnds, Live
  <1>2. /\ conns \in Seq(Conn) /\ conns[o] \in Conn /\ k \in Keys
        /\ dicQueue \in Seq(Keys)
    BY Parts
  <1>3. c \in Conn /\ c.key = k /\ ~c.timer /\ c.pcb = conns[o].pcb
    BY <1>2 DEF Conn
  <1>4. /\ dic[k] = o /\ ~InsertingNow(o)
        /\ o # None
    BY <1>1, InsertedIsQuiet DEF IInv, TimerWatches, None
  <1> HIDE DEF c, k
  <1>5. /\ conns' \in Seq(Conn) /\ Len(conns') = Len(conns) /\ conns'[o] = c
        /\ \A p \in 1..Len(conns) : p # o => conns'[p] = conns[p]
        /\ dicQueue' \in Seq(Keys) /\ Len(dicQueue') = Len(dicQueue) + 1
        /\ dicQueue'[Len(dicQueue) + 1] = k
        /\ \A i \in 1..Len(dicQueue) : dicQueue'[i] = dicQueue[i]
    BY <1>1, <1>2, <1>3
  <1>6. TunnelTypeOK'
    BY <1>1, <1>5 DEF IInv, TunnelTypeOK
  <1>7. TimerWatches'
    BY <1>1, <1>3, <1>5 DEF IInv, TimerWatches, InsertingNow, Live, k
  <1>8. InsertsUnknown'
    <2>1. ASSUME input.pc = "set"
          PROVE  /\ input.conn \in 1..Len(conns) /\ input.conn # o
                 /\ conns'[input.conn] = conns[input.conn]
      BY <1>4, <1>5, <2>1 DEF IInv, InsertsUnknown, InsertingNow
    <2> QED BY <1>1, <1>5, <2>1 DEF IInv, InsertsUnknown, Live
  <1>9. RemovesTheDead'
    <2>1. input.pc = "set" \/ (input.pc = "got" /\ input.conn = None) => input.key # k
      BY <1>4 DEF IInv, InsertsUnknown
    <2>2. ASSUME NEW p \in 1..Len(conns), conns'[p].timer
          PROVE  conns[p].timer /\ conns'[p].key = conns[p].key /\ p # o
      BY <1>3, <1>5, <2>2
    <2>3. ASSUME NEW p \in 1..Len(conns), conns'[p].timer, conns[p].key = k
          PROVE  FALSE
      <3>1. dic[k] = p \/ InsertingNow(p)
        BY <2>2, <2>3 DEF IInv, TimerWatches
      <3>2. ~InsertingNow(p)
        BY <1>4, <2>3 DEF IInv, InsertsUnknown, InsertingNow
      <3> QED BY <1>4, <2>2, <2>3, <3>1, <3>2
    <2>4. \A i \in 1..Len(dicQueue') : i \in 1..Len(dicQueue) \/ i = Len(dicQueue) + 1
      BY <1>2, <1>5
    <2> QED BY <1>1, <1>5, <2>1, <2>2, <2>3, <2>4 DEF IInv, RemovesTheDead
  <1> QED BY <1>6, <1>7, <1>8, <1>9 DEF IInv

-----------------------------------------------------------------------------
(* The theorems.                                                           *)

\* Every step keeps the types, the watch over each pcb, and what the thread knows of the
\* object it is about to insert.
THEOREM InductiveInvariant == TunnelSpec => []IInv
  <1>1. TunnelInit => IInv
    <2> SUFFICES ASSUME TunnelInit PROVE IInv
      OBVIOUS
    <2>1. conns = <<>> /\ dicQueue = <<>> /\ delegateQueue = <<>> /\ input = Idle
      BY DEF TunnelInit
    <2>2. TunnelTypeOK
      BY <2>1, TunnelAssumption DEF TunnelInit, TunnelTypeOK, Idle, None, TunnelAssumption
    <2>3. TimerWatches /\ InsertsUnknown /\ RemovesTheDead
      BY <2>1 DEF TimerWatches, InsertsUnknown, RemovesTheDead, Idle
    <2> QED BY <2>2, <2>3 DEF IInv
  <1>2. IInv /\ [TunnelNext]_tunnelVars => IInv'
    <2> SUFFICES ASSUME IInv, [TunnelNext]_tunnelVars PROVE IInv'
      OBVIOUS
    <2>1. ASSUME NEW k \in Keys, NEW seg \in Segs, ipPacketInput(k, seg) PROVE IInv'
      BY <2>1, InputStarts
    <2>2. CASE Found
      BY <2>2, FoundKeeps
    <2>3. CASE AcceptSyn
      BY <2>3, AcceptKeeps
    <2>4. CASE Refuse
      BY <2>4, RefuseKeeps
    <2>5. CASE setConnection
      BY <2>5, SetConnectionKeeps
    <2>6. CASE removeConnection
      BY <2>6, RemoveConnectionKeeps
    <2>7. ASSUME NEW o \in 1..Len(conns), OfConn(o) PROVE IInv'
      BY <2>7, TimerQueueBlockKeeps, TimeoutKeeps, TimerEndsKeeps, UseKeeps DEF OfConn
    <2>8. CASE DelegateBlock
      BY <2>8, DelegateBlockKeeps
    <2>9. CASE UNCHANGED tunnelVars
      BY <2>9 DEF IInv, TunnelTypeOK, TimerWatches, InsertsUnknown, RemovesTheDead, InsertingNow,
                  Live, tunnelVars
    <2> QED BY <2>1, <2>2, <2>3, <2>4, <2>5, <2>6, <2>7, <2>8, <2>9 DEF TunnelNext
  <1> QED BY <1>1, <1>2, PTL DEF TunnelSpec

\* tunnel: every object, key, queue and the thread keep their types.
THEOREM TunnelTypes == TunnelSpec => []TunnelTypeOK
  <1>1. IInv => TunnelTypeOK
    BY DEF IInv
  <1> QED BY <1>1, InductiveInvariant, PTL

\* ZPPacketTunnel.m:215-222, ZPTCPConnection.m: whatever the look-up, the timer, the
\* removal and a new SYN do to each other, a connection with a pcb is found by its key
\* or is about to be, and no two with a pcb have the same key.
THEOREM LiveFound == TunnelSpec => []LiveIsFound
  <1>1. IInv => LiveIsFound
    <2> SUFFICES ASSUME IInv PROVE LiveIsFound
      OBVIOUS
    <2>1. \A o \in 1..Len(conns) : Live(o) => dic[conns[o].key] = o \/ InsertingNow(o)
      BY DEF IInv, TimerWatches
    <2>2. \A o \in 1..Len(conns) :
             InsertingNow(o) => dic[conns[o].key] = None /\ input.conn = o
      BY DEF IInv, InsertsUnknown, InsertingNow
    <2>3. \A o \in 1..Len(conns) : o # None
      BY DEF None
    <2> QED BY <2>1, <2>2, <2>3 DEF LiveIsFound
  <1> QED BY <1>1, InductiveInvariant, PTL

-----------------------------------------------------------------------------
(* Word of the end.                                                        *)

\* Call i of q is for object o; it is word of its end.
For(q, i, o) == i \in 1..Len(q) /\ q[i].conn = o
WordOfEnd(q, i, o) == For(q, i, o) /\ q[i].call = "didDisconnect"

\* ToldOfEnd of the object o in state c with the calls q, and why it stays true: the
\* end is known exactly when the pcb is gone, and who was told that the delegate is
\* valid is the delegate.
Tells(c, o, q) ==
    /\ c.end = "none" <=> c.pcb # "NULL"
    /\ c.valid => c.delegate
    /\ c.valid /\ c.end = "error" => c.told \/ \E i \in 1..Len(q) : WordOfEnd(q, i, o)
    /\ c.told => c.end = "error"
    /\ \A i \in 1..Len(q) : WordOfEnd(q, i, o) => c.end = "error"
    /\ c.told => \A i \in 1..Len(q) : ~For(q, i, o)
    /\ \A i, j \in 1..Len(q) : WordOfEnd(q, i, o) /\ For(q, j, o) => j <= i

\* What Tells reads of an object.
SameWord(c, d) ==
    d.end = c.end /\ d.pcb = c.pcb /\ d.valid = c.valid /\ d.delegate = c.delegate
        /\ d.told = c.told

AllTell == \A o \in 1..Len(conns) : Tells(conns[o], o, delegateQueue)

\* An object that does not change in these parts still tells.
LEMMA SameWordTells ==
    ASSUME NEW c, NEW d, NEW o, NEW q, Tells(c, o, q), SameWord(c, d)
    PROVE  Tells(d, o, q)
  BY DEF Tells, SameWord

\* So does an object when others are called.
LEMMA OtherCallTells ==
    ASSUME NEW c, NEW o, NEW T, NEW q \in Seq(T), NEW b \in T, Tells(c, o, q), b.conn # o
    PROVE  Tells(c, o, Append(q, b))
  <1> DEFINE r == Append(q, b)
  <1>1. /\ Len(r) = Len(q) + 1 /\ Len(q) \in Nat
        /\ r[Len(q) + 1] = b
        /\ \A i \in 1..Len(q) : r[i] = q[i]
    OBVIOUS
  <1> HIDE DEF r
  <1>2. \A i \in 1..Len(r) : For(r, i, o) => i \in 1..Len(q) /\ For(q, i, o)
    BY <1>1 DEF For
  <1>3. \A i \in 1..Len(q) : i \in 1..Len(r) /\ (For(q, i, o) <=> For(r, i, o))
    BY <1>1 DEF For
  <1>4. \A i \in 1..Len(q) : WordOfEnd(q, i, o) <=> WordOfEnd(r, i, o)
    BY <1>1, <1>3 DEF WordOfEnd
  <1>5. \A i \in 1..Len(r) : WordOfEnd(r, i, o) => i \in 1..Len(q)
    BY <1>2 DEF WordOfEnd
  <1> QED BY <1>2, <1>3, <1>4, <1>5 DEF Tells, r

\* An object with a pcb is called for anything but its end.
LEMMA LiveCallTells ==
    ASSUME NEW c, NEW o, NEW T, NEW q \in Seq(T), NEW b \in T, Tells(c, o, q),
           c.pcb # "NULL", b.call # "didDisconnect"
    PROVE  Tells(c, o, Append(q, b))
  <1> DEFINE r == Append(q, b)
  <1>1. /\ Len(r) = Len(q) + 1 /\ Len(q) \in Nat
        /\ r[Len(q) + 1] = b
        /\ \A i \in 1..Len(q) : r[i] = q[i]
    OBVIOUS
  <1> HIDE DEF r
  <1>2. c.end = "none" /\ ~c.told /\ \A i \in 1..Len(q) : ~WordOfEnd(q, i, o)
    BY DEF Tells
  <1>3. \A i \in 1..Len(r) : ~WordOfEnd(r, i, o)
    BY <1>1, <1>2 DEF WordOfEnd, For
  <1> QED BY <1>2, <1>3 DEF Tells, r

\* A pcb goes away with an error: the delegate, if there is one, is called last.
LEMMA ErrorTells ==
    ASSUME NEW c \in Conn, NEW o, NEW T, NEW q \in Seq(T), Call("didDisconnect", o) \in T,
           Tells(c, o, q), c.pcb # "NULL"
    PROVE  Tells(Removed(c, "error"), o, q \o zp_tcp_err(c, o))
  <1> DEFINE d == Removed(c, "error")
             b == Call("didDisconnect", o)
  <1>1. /\ d.end = "error" /\ d.pcb = "NULL" /\ d.valid = c.valid
        /\ d.delegate = c.delegate /\ d.told = c.told
    BY DEF Removed, Conn
  <1>2. c.end = "none" /\ ~c.told /\ \A i \in 1..Len(q) : ~WordOfEnd(q, i, o)
    BY DEF Tells
  <1> HIDE DEF d
  <1>3. CASE c.delegate
    <2> DEFINE r == Append(q, b)
    <2>1. q \o zp_tcp_err(c, o) = r
      BY <1>3 DEF zp_tcp_err
    <2>2. /\ Len(r) = Len(q) + 1 /\ Len(q) \in Nat
          /\ r[Len(q) + 1] = b
          /\ \A i \in 1..Len(q) : r[i] = q[i]
      OBVIOUS
    <2>3. b.conn = o /\ b.call = "didDisconnect"
      BY DEF Call
    <2> HIDE DEF r, b
    <2>4. /\ Len(q) + 1 \in 1..Len(r)
          /\ WordOfEnd(r, Len(q) + 1, o)
          /\ \A i \in 1..Len(r) : WordOfEnd(r, i, o) => i = Len(q) + 1
      BY <1>2, <2>2, <2>3 DEF WordOfEnd, For
    <2> QED BY <1>1, <1>2, <2>1, <2>2, <2>4 DEF Tells, d
  <1>4. CASE ~c.delegate
    <2>1. q \o zp_tcp_err(c, o) = q
      BY <1>4 DEF zp_tcp_err
    <2> QED BY <1>1, <1>2, <1>4, <2>1 DEF Tells, d
  <1> QED BY <1>3, <1>4

\* A pcb goes away as the application wanted.
LEMMA SilentTells ==
    ASSUME NEW c \in Conn, NEW o, NEW q, Tells(c, o, q), c.pcb # "NULL"
    PROVE  Tells(Removed(c, "silent"), o, q)
  <1>1. LET d == Removed(c, "silent")
        IN  /\ d.end = "silent" /\ d.pcb = "NULL" /\ d.valid = c.valid
            /\ d.delegate = c.delegate /\ d.told = c.told
    BY DEF Removed, Conn
  <1> QED BY <1>1 DEF Tells

\* The first call is made; it is not word of the end of o.
LEMMA MadeTells ==
    ASSUME NEW c, NEW o, NEW T, NEW q \in Seq(T), q # <<>>, Tells(c, o, q),
           ~WordOfEnd(q, 1, o)
    PROVE  Tells(c, o, Tail(q))
  <1> DEFINE r == Tail(q)
  <1>1. /\ Len(r) = Len(q) - 1 /\ Len(q) \in Nat
        /\ \A i \in 1..Len(r) : r[i] = q[i + 1] /\ i + 1 \in 1..Len(q)
        /\ \A i \in 1..Len(q) : i # 1 => i - 1 \in 1..Len(r) /\ r[i - 1] = q[i]
    OBVIOUS
  <1> HIDE DEF r
  <1>2. \A i \in 1..Len(r) : For(r, i, o) => For(q, i + 1, o)
    BY <1>1 DEF For
  <1>3. \A i \in 1..Len(r) : WordOfEnd(r, i, o) => WordOfEnd(q, i + 1, o)
    BY <1>1, <1>2 DEF WordOfEnd
  <1>4. \A i \in 1..Len(q) : WordOfEnd(q, i, o) => i - 1 \in 1..Len(r) /\ WordOfEnd(r, i - 1, o)
    BY <1>1 DEF WordOfEnd, For
  <1>5. \A i, j \in 1..Len(r) : WordOfEnd(r, i, o) /\ For(r, j, o) => j <= i
    <2> TAKE i, j \in 1..Len(r)
    <2>1. i + 1 \in 1..Len(q) /\ j + 1 \in 1..Len(q)
      BY <1>1
    <2>2. WordOfEnd(r, i, o) /\ For(r, j, o) => j + 1 <= i + 1
      BY <1>2, <1>3, <2>1 DEF Tells
    <2> QED BY <2>1, <2>2
  <1>6. \A i \in 1..Len(r) : i + 1 \in 1..Len(q)
    BY <1>1
  <1> QED BY <1>2, <1>3, <1>4, <1>5, <1>6 DEF Tells, r

\* The delegate hears of the end of o: nothing for o is queued behind it.
LEMMA DisconnectTells ==
    ASSUME NEW c \in Conn, NEW o, NEW T, NEW q \in Seq(T), q # <<>>, Tells(c, o, q),
           WordOfEnd(q, 1, o)
    PROVE  Tells([c EXCEPT !.told = TRUE], o, Tail(q))
  <1> DEFINE d == [c EXCEPT !.told = TRUE]
             r == Tail(q)
  <1>1. /\ Len(r) = Len(q) - 1 /\ Len(q) \in Nat
        /\ \A i \in 1..Len(r) : r[i] = q[i + 1] /\ i + 1 \in 1..Len(q) /\ ~(i + 1 <= 1)
    OBVIOUS
  <1>2. /\ d.end = c.end /\ d.pcb = c.pcb /\ d.valid = c.valid
        /\ d.delegate = c.delegate /\ d.told
    BY DEF Conn
  <1> HIDE DEF r, d
  <1>3. 1 \in 1..Len(q)
    BY DEF WordOfEnd, For
  <1>4. \A j \in 1..Len(q) : For(q, j, o) => j <= 1
    BY <1>3 DEF Tells
  <1>5. \A i \in 1..Len(r) : ~For(r, i, o)
    BY <1>1, <1>4 DEF For
  <1>6. c.end = "error"
    BY <1>3 DEF Tells
  <1> QED BY <1>2, <1>5, <1>6 DEF Tells, WordOfEnd, r, d

\* A segment: its callbacks are queued before the pcb goes away.
LEMMA InputTells ==
    ASSUME NEW c \in Conn, NEW o, NEW q \in Seq(CallType), NEW seg, NEW all,
           o \in 1..Len(conns),
           Tells(c, o, q)
    PROVE  Tells(Arrived(c, o, seg, all)[1], o, q \o Arrived(c, o, seg, all)[2])
  <1>0. q \o <<>> = q /\ \A b \in CallType : q \o <<b>> = Append(q, b)
    OBVIOUS
  <1>a. \A n \in {"didEstablish", "didWrite", "didDisconnect"} :
           Call(n, o) \in CallType /\ Call(n, o).call = n
    BY DEF Call, CallType
  <1>1. CASE c.pcb \in {"NULL", "TIME_WAIT"}
    <2>1. Arrived(c, o, seg, all) = <<c, <<>> >>
      BY <1>1 DEF Arrived
    <2> QED BY <2>1, <1>0
  <1>2. CASE c.pcb \notin {"NULL", "TIME_WAIT"} /\ seg = "RST"
    <2>1. Arrived(c, o, seg, all) = <<Removed(c, "error"), zp_tcp_err(c, o)>>
      BY <1>2 DEF Arrived
    <2> QED BY <2>1, <1>a, <1>2, ErrorTells
  <1>3. CASE c.pcb = "SYN_RCVD" /\ seg = "ACK"
    <2> DEFINE d == [c EXCEPT !.pcb = "OPEN"]
    <2>1. Arrived(c, o, seg, all) = <<d, <<Call("didEstablish", o)>> >>
      BY <1>3 DEF Arrived
    <2>2. /\ d.end = c.end /\ d.pcb = "OPEN" /\ d.valid = c.valid
          /\ d.delegate = c.delegate /\ d.told = c.told
      BY DEF Conn
    <2> HIDE DEF d
    <2>3. Tells(d, o, q)
      BY <1>3, <2>2 DEF Tells
    <2> DEFINE b == Call("didEstablish", o)
    <2>4. b \in CallType /\ b.call # "didDisconnect"
      BY <1>a
    <2> HIDE DEF b
    <2>5. Tells(d, o, Append(q, b)) /\ q \o <<b>> = Append(q, b)
      BY <2>2, <2>3, <2>4, LiveCallTells
    <2>6. Arrived(c, o, seg, all)[1] = d /\ Arrived(c, o, seg, all)[2] = <<b>>
      BY <2>1 DEF b
    <2> QED BY <2>5, <2>6
  <1>4. CASE c.pcb \in {"OPEN", "CLOSING"} /\ seg = "ACK" /\ c.unacked = 1
    <2> DEFINE d == [c EXCEPT !.unacked = IF all THEN 0 ELSE 1]
    <2>1. Arrived(c, o, seg, all) = <<d, <<Call("didWrite", o)>> >>
      BY <1>4 DEF Arrived
    <2>2. /\ d.end = c.end /\ d.pcb = c.pcb /\ d.valid = c.valid
          /\ d.delegate = c.delegate /\ d.told = c.told
      BY DEF Conn
    <2> HIDE DEF d
    <2>3. Tells(d, o, q) /\ d.pcb # "NULL"
      BY <1>4, <2>2 DEF Tells
    <2> DEFINE b == Call("didWrite", o)
    <2>4. b \in CallType /\ b.call # "didDisconnect"
      BY <1>a
    <2> HIDE DEF b
    <2>5. Tells(d, o, Append(q, b)) /\ q \o <<b>> = Append(q, b)
      BY <2>2, <2>3, <2>4, LiveCallTells
    <2>6. Arrived(c, o, seg, all)[1] = d /\ Arrived(c, o, seg, all)[2] = <<b>>
      BY <2>1 DEF b
    <2> QED BY <2>5, <2>6
  <1>5. CASE c.pcb = "CLOSING" /\ seg = "ACK" /\ c.unacked = 0
    <2>1. Arrived(c, o, seg, all) = <<Removed(c, "silent"), <<>> >>
      BY <1>5 DEF Arrived
    <2> QED BY <2>1, <1>0, <1>5, SilentTells
  <1>6. CASE ~ \/ c.pcb \in {"NULL", "TIME_WAIT"}
               \/ c.pcb \notin {"NULL", "TIME_WAIT"} /\ seg = "RST"
               \/ c.pcb = "SYN_RCVD" /\ seg = "ACK"
               \/ c.pcb \in {"OPEN", "CLOSING"} /\ seg = "ACK" /\ c.unacked = 1
               \/ c.pcb = "CLOSING" /\ seg = "ACK" /\ c.unacked = 0
    <2>1. Arrived(c, o, seg, all) = <<c, <<>> >>
      BY <1>6 DEF Arrived
    <2> QED BY <2>1, <1>0
  <1> QED BY <1>1, <1>2, <1>3, <1>4, <1>5, <1>6

\* A call of the application: syncSetDelegate: is told that the delegate is valid only
\* while there is a pcb.
LEMMA ApiTells ==
    ASSUME NEW c \in Conn, NEW o, NEW q, NEW op \in Ops, NEW way \in Ways,
           Tells(c, o, q)
    PROVE  Tells(Api(c, op, way), o, q)
  <1>1. CASE op = "close" /\ c.pcb = "OPEN" /\ way = "NULL"
    <2>1. Api(c, op, way) = Removed(c, "silent")
      BY <1>1 DEF Api, Closed
    <2> QED BY <1>1, <2>1, SilentTells
  <1>2. CASE ~(op = "close" /\ c.pcb = "OPEN" /\ way = "NULL")
    <2>1. LET d == Api(c, op, way)
          IN  /\ d.end = c.end /\ d.told = c.told /\ (c.delegate => d.delegate)
              /\ d.pcb = "NULL" <=> c.pcb = "NULL"
              /\ d.valid => c.valid \/ (c.pcb # "NULL" /\ d.delegate)
              /\ c.valid => d.valid
      <3>1. CASE op = "syncSet"
        BY <3>1 DEF Api, Conn
      <3>2. CASE op = "asyncSet"
        BY <3>2 DEF Api, Conn
      <3>3. CASE op = "write"
        BY <3>3 DEF Api, Written, Conn
      <3>4. CASE op = "close"
        BY <1>2, <3>4 DEF Api, Closed, Conn, Ways
      <3> QED BY <3>1, <3>2, <3>3, <3>4 DEF Ops
    <2> HIDE DEF Api
    <2> QED BY <2>1 DEF Tells
  <1> QED BY <1>1, <1>2

\* One object changes, the calls made for it are not for others.
LEMMA TellStep ==
    ASSUME IInv, NEW o \in 1..Len(conns), NEW c, conns' = [conns EXCEPT ![o] = c],
           Tells(c, o, delegateQueue'),
           \A p \in 1..Len(conns) : p # o => Tells(conns[p], p, delegateQueue')
    PROVE  AllTell'
  <1>1. /\ Len(conns') = Len(conns) /\ conns'[o] = c
        /\ \A p \in 1..Len(conns) : p # o => conns'[p] = conns[p]
    BY Parts
  <1> QED BY <1>1 DEF AllTell

\* A block of a timer queue.
LEMMA TimerQueueBlockTells ==
    ASSUME IInv, AllTell, NEW o \in 1..Len(conns), TimerQueueBlock(o)
    PROVE  AllTell'
  <1> DEFINE b == Head(conns[o].blocks)
             c == [conns[o] EXCEPT !.blocks = Tail(@)]
  <1>1. /\ conns[o] \in Conn /\ conns[o].blocks # <<>> /\ delegateQueue \in Seq(CallType)
    <2>1. conns[o] \in Conn /\ delegateQueue \in Seq(CallType)
      BY DEF IInv, TunnelTypeOK, CallType
    <2>2. conns[o].blocks # <<>>
      BY DEF TimerQueueBlock
    <2> QED BY <2>1, <2>2
  <1>2. c \in Conn /\ SameWord(conns[o], c)
    <2>1. Tail(conns[o].blocks) \in Seq(Block)
      BY <1>1 DEF Conn, Block
    <2> QED BY <1>1, <2>1 DEF Conn, Block, SameWord
  <1>3. b \in Block
    <2>1. conns[o].blocks \in Seq(Block)
      BY <1>1 DEF Conn, Block
    <2> QED BY <1>1, <2>1
  <1>4. PICK done \in Outcomes(c, o, b) :
            /\ conns' = [conns EXCEPT ![o] = done[1]]
            /\ delegateQueue' = delegateQueue \o done[2]
    BY DEF TimerQueueBlock
  <1>5. Tells(c, o, delegateQueue)
    BY <1>2, SameWordTells DEF AllTell
  <1> HIDE DEF b, c
  <1>6. ASSUME NEW all \in BOOLEAN, done = Arrived(c, o, b.seg, all)
        PROVE  AllTell'
    <2>2. Tells(done[1], o, delegateQueue')
      BY <1>1, <1>2, <1>4, <1>5, <1>6, InputTells
    <2>3. Kept(c, o, done)
      BY <1>2, <1>3, <1>4, OutcomeKeeps
    <2>4. ASSUME NEW p \in 1..Len(conns), p # o
          PROVE  Tells(conns[p], p, delegateQueue')
      <3>1. Tells(conns[p], p, delegateQueue)
        BY DEF AllTell
      <3>2. CASE done[2] = <<>>
        BY <1>1, <1>4, <3>1, <3>2
      <3>3. ASSUME NEW n \in {"didEstablish", "didWrite", "didDisconnect"},
                   done[2] = <<Call(n, o)>>
            PROVE  Tells(conns[p], p, delegateQueue')
        <4>1. Call(n, o) \in CallType /\ Call(n, o).conn = o
          BY DEF Call, CallType
        <4>2. delegateQueue' = Append(delegateQueue, Call(n, o))
          BY <1>1, <1>4, <3>3, <4>1
        <4> QED BY <1>1, <2>4, <3>1, <4>1, <4>2, OtherCallTells
      <3> QED BY <2>3, <3>2, <3>3 DEF Kept
    <2> QED BY <1>4, <2>2, <2>4, TellStep
  <1>7. ASSUME b.op \in Ops, NEW way \in Ways, done = <<Api(c, b.op, way), <<>> >>
        PROVE  AllTell'
    <2>1. delegateQueue' = delegateQueue
      BY <1>1, <1>4, <1>7
    <2>2. Tells(done[1], o, delegateQueue')
      BY <1>2, <1>5, <1>7, <2>1, ApiTells
    <2> QED BY <1>4, <2>1, <2>2, TellStep DEF AllTell
  <1> QED BY <1>3, <1>4, <1>6, <1>7, OutcomeIs

\* The timer gives a connection up.
LEMMA TimeoutTells ==
    ASSUME IInv, AllTell, NEW o \in 1..Len(conns), Timeout(o)
    PROVE  AllTell'
  <1>1. conns[o] \in Conn /\ delegateQueue \in Seq(CallType) /\ conns[o].pcb # "NULL"
    BY DEF IInv, TunnelTypeOK, CallType, Timeout
  <1>2. Call("didDisconnect", o) \in CallType /\ Call("didDisconnect", o).conn = o
    BY DEF Call, CallType
  <1>3. Tells(conns[o], o, delegateQueue)
    BY DEF AllTell
  <1>4. CASE /\ conns' = [conns EXCEPT ![o] = Removed(@, "error")]
             /\ delegateQueue' = delegateQueue \o zp_tcp_err(conns[o], o)
    <2>1. Tells(Removed(conns[o], "error"), o, delegateQueue')
      BY <1>1, <1>2, <1>3, <1>4, ErrorTells
    <2>2. delegateQueue' \in {delegateQueue, Append(delegateQueue, Call("didDisconnect", o))}
      BY <1>1, <1>4 DEF zp_tcp_err
    <2>3. \A p \in 1..Len(conns) : p # o => Tells(conns[p], p, delegateQueue')
      BY <1>1, <1>2, <2>2, OtherCallTells DEF AllTell
    <2>4. conns' = [conns EXCEPT ![o] = Removed(conns[o], "error")]
      BY <1>4
    <2> QED BY <2>1, <2>3, <2>4, TellStep
  <1>5. CASE conns' = [conns EXCEPT ![o] = Removed(@, "silent")] /\ UNCHANGED delegateQueue
    <2>1. conns' = [conns EXCEPT ![o] = Removed(conns[o], "silent")]
      BY <1>5
    <2>2. Tells(Removed(conns[o], "silent"), o, delegateQueue)
      BY <1>1, <1>3, SilentTells
    <2>3. delegateQueue' = delegateQueue
      BY <1>5
    <2> QED BY <2>1, <2>2, <2>3, TellStep DEF AllTell
  <1> QED BY <1>4, <1>5 DEF Timeout

\* Steps that queue blocks or stop a timer change nothing of this.
LEMMA QuietTells ==
    ASSUME IInv, AllTell, NEW o \in 1..Len(conns), NEW c, SameWord(conns[o], c),
           conns' = [conns EXCEPT ![o] = c], delegateQueue' = delegateQueue
    PROVE  AllTell'
  BY SameWordTells, TellStep DEF AllTell

\* Putting a block on a timer queue.
LEMMA DispatchTells ==
    ASSUME IInv, NEW o \in 1..Len(conns), NEW b, conns' = [conns EXCEPT ![o].blocks = Append(@, b)]
    PROVE  \E c : SameWord(conns[o], c) /\ conns' = [conns EXCEPT ![o] = c]
  <1> DEFINE c == [conns[o] EXCEPT !.blocks = Append(@, b)]
  <1>1. conns[o] \in Conn
    BY Parts
  <1>2. SameWord(conns[o], c)
    BY <1>1 DEF SameWord, Conn
  <1> QED BY <1>2

\* A call of the delegate.
LEMMA DelegateBlockTells ==
    ASSUME IInv, AllTell, DelegateBlock
    PROVE  AllTell'
  <1> DEFINE b == Head(delegateQueue)
             o == b.conn
  <1>1. delegateQueue \in Seq(CallType) /\ delegateQueue # <<>>
    BY DEF IInv, TunnelTypeOK, CallType, DelegateBlock
  <1>2. b \in CallType /\ b = delegateQueue[1] /\ 1 \in 1..Len(delegateQueue)
    BY <1>1
  <1>3. o \in 1..Len(conns) /\ delegateQueue' = Tail(delegateQueue)
    BY <1>2 DEF CallType, DelegateBlock
  <1>4. conns[o] \in Conn
    BY <1>3, Parts
  <1>5. \A p \in 1..Len(conns) : p # o => ~WordOfEnd(delegateQueue, 1, p)
    BY <1>2 DEF WordOfEnd, For
  <1>6. \A p \in 1..Len(conns) : p # o => Tells(conns[p], p, delegateQueue')
    BY <1>1, <1>3, <1>5, MadeTells DEF AllTell
  <1>7. CASE b.call # "didDisconnect"
    <2>1. ~WordOfEnd(delegateQueue, 1, o)
      BY <1>2, <1>7 DEF WordOfEnd
    <2>2. Tells(conns[o], o, delegateQueue')
      BY <1>1, <1>3, <2>1, MadeTells DEF AllTell
    <2>3. \E c : SameWord(conns[o], c) /\ conns' = [conns EXCEPT ![o] = c]
      <3>1. DidEstablish(o) \/ DidWrite(o)
        BY <1>7 DEF DelegateBlock
      <3> HIDE DEF o
      <3>2. CASE DidEstablish(o)
        BY <1>3, <3>2, DispatchTells DEF DidEstablish, dispatch_async
      <3>3. CASE DidWrite(o)
        <4>1. PICK e : conns' = [conns EXCEPT ![o].empty = e]
          BY <3>3 DEF DidWrite
        <4>2. SameWord(conns[o], [conns[o] EXCEPT !.empty = e])
          BY <1>4 DEF SameWord, Conn
        <4>3. conns' = [conns EXCEPT ![o] = [conns[o] EXCEPT !.empty = e]]
          BY <4>1
        <4> QED BY <4>2, <4>3
      <3> QED BY <3>1, <3>2, <3>3
    <2> HIDE DEF o
    <2> QED BY <1>3, <1>6, <2>2, <2>3, SameWordTells, TellStep
  <1>8. CASE b.call = "didDisconnect"
    <2>1. WordOfEnd(delegateQueue, 1, o)
      BY <1>2, <1>8 DEF WordOfEnd, For
    <2>2. conns' = [conns EXCEPT ![o] = [conns[o] EXCEPT !.told = TRUE]]
      BY <1>8 DEF DelegateBlock
    <2>3. Tells([conns[o] EXCEPT !.told = TRUE], o, delegateQueue')
      BY <1>1, <1>3, <1>4, <2>1, DisconnectTells DEF AllTell
    <2> HIDE DEF o
    <2> QED BY <1>3, <1>6, <2>2, <2>3, TellStep
  <1> QED BY <1>7, <1>8

\* A new object: nobody was called for it.
LEMMA AcceptTells ==
    ASSUME IInv, AllTell, AcceptSyn
    PROVE  AllTell'
  <1> DEFINE new == Len(conns) + 1
             c == NewConn(input.key)
  <1>1. conns' = Append(conns, c) /\ delegateQueue' = delegateQueue
    BY DEF AcceptSyn
  <1>2. /\ c.pcb # "NULL" /\ c.end = "none" /\ ~c.valid /\ ~c.told
    BY DEF NewConn
  <1> HIDE DEF c
  <1>3. /\ Len(conns') = new /\ conns'[new] = c
        /\ \A p \in 1..Len(conns) : conns'[p] = conns[p]
        /\ 1..new = (1..Len(conns)) \cup {new}
        /\ \A p \in 1..Len(conns) : p # new
    BY <1>1, Parts
  <1> HIDE DEF new
  <1>4. \A i \in 1..Len(delegateQueue) : delegateQueue[i].conn # new
    BY <1>3, Parts
  <1>5. Tells(c, new, delegateQueue)
    BY <1>2, <1>4 DEF Tells, WordOfEnd, For
  <1> QED BY <1>1, <1>3, <1>5 DEF AllTell

\* Every step keeps it.
LEMMA StepTells ==
    ASSUME IInv, AllTell, [TunnelNext]_tunnelVars
    PROVE  AllTell'
  <1>1. CASE UNCHANGED <<conns, delegateQueue>>
    BY <1>1 DEF AllTell
  <1>2. CASE Found
    <2>1. /\ input.conn \in 1..Len(conns) /\ delegateQueue' = delegateQueue
          /\ conns' = [conns EXCEPT ![input.conn].blocks =
                         Append(@, [op |-> "input", seg |-> input.seg])]
      BY <1>2 DEF Found, IInv, TunnelTypeOK
    <2> QED BY <2>1, DispatchTells, QuietTells
  <1>3. CASE AcceptSyn
    BY <1>3, AcceptTells
  <1>4. ASSUME NEW o \in 1..Len(conns), TimerQueueBlock(o) PROVE AllTell'
    BY <1>4, TimerQueueBlockTells
  <1>5. ASSUME NEW o \in 1..Len(conns), Timeout(o) PROVE AllTell'
    BY <1>5, TimeoutTells
  <1>6. ASSUME NEW o \in 1..Len(conns), TimerEnds(o) PROVE AllTell'
    <2>1. /\ conns' = [conns EXCEPT ![o] = [conns[o] EXCEPT !.timer = FALSE]]
          /\ delegateQueue' = delegateQueue
      BY <1>6 DEF TimerEnds
    <2>2. SameWord(conns[o], [conns[o] EXCEPT !.timer = FALSE])
      BY Parts DEF SameWord, Conn
    <2> QED BY <2>1, <2>2, QuietTells
  <1>7. ASSUME NEW o \in 1..Len(conns), Use(o) PROVE AllTell'
    BY <1>7, DispatchTells, QuietTells DEF Use, dispatch_async
  <1>8. CASE DelegateBlock
    BY <1>8, DelegateBlockTells
  <1>9. UNCHANGED <<conns, delegateQueue>> \/ Found \/ AcceptSyn \/ DelegateBlock
         \/ \E p \in 1..Len(conns) : OfConn(p)
    BY DEF TunnelNext, tunnelVars, ipPacketInput, Refuse, setConnection, removeConnection
  <1> QED BY <1>1, <1>2, <1>3, <1>4, <1>5, <1>6, <1>7, <1>8, <1>9 DEF OfConn

\* ZPTCPConnection.h: a syncSetDelegate: that returned TRUE is followed by word of an
\* end by an error, once and behind every other callback of the connection, whatever
\* segments, timers and calls come between the return and the end.
THEOREM EndIsTold == TunnelSpec => []ToldOfEnd
  <1>1. TunnelInit => AllTell
    BY DEF TunnelInit, AllTell
  <1>2. IInv /\ AllTell /\ [TunnelNext]_tunnelVars => AllTell'
    BY StepTells
  <1>3. AllTell => ToldOfEnd
    <2> SUFFICES ASSUME AllTell, NEW o \in 1..Len(conns)
                 PROVE  LET q == QueuedFor(o)
                            ends == {i \in q : delegateQueue[i].call = "didDisconnect"}
                        IN /\ conns[o].valid /\ conns[o].end = "error" => conns[o].told \/ ends # {}
                           /\ conns[o].told \/ ends # {} => conns[o].end = "error"
                           /\ conns[o].told => q = {}
                           /\ \A i \in ends, j \in q : j <= i
      BY DEF ToldOfEnd
    <2>1. \A i \in 1..Len(delegateQueue) : For(delegateQueue, i, o) <=> i \in QueuedFor(o)
      BY DEF For, QueuedFor
    <2>2. QueuedFor(o) \subseteq 1..Len(delegateQueue)
      BY DEF QueuedFor
    <2>3. Tells(conns[o], o, delegateQueue)
      BY DEF AllTell
    <2> QED BY <2>1, <2>2, <2>3 DEF Tells, WordOfEnd
  <1> QED BY <1>1, <1>2, <1>3, InductiveInvariant, PTL DEF TunnelSpec

-----------------------------------------------------------------------------
(* Word of what was sent.                                                  *)

\* A didWriteData: for object o is among the calls q.
Says(q, o) == \E i \in 1..Len(q) : q[i].conn = o /\ q[i].call = "didWrite"

\* SentIsTold of the object o in state c with the calls q.
Sent(c, o, q) ==
    c.pcb # "NULL" =>
        /\ c.empty => c.unacked = 0
        /\ c.unacked = 0 => c.empty \/ Says(q, o)

AllSent == \A o \in 1..Len(conns) : Sent(conns[o], o, delegateQueue)

\* A call that is added is heard, one that is queued stays.
LEMMA AppendSays ==
    ASSUME NEW T, NEW q \in Seq(T), NEW b \in T, NEW o
    PROVE  /\ Says(q, o) => Says(Append(q, b), o)
           /\ b.conn = o /\ b.call = "didWrite" => Says(Append(q, b), o)
  <1> DEFINE r == Append(q, b)
  <1>1. /\ Len(r) = Len(q) + 1 /\ Len(q) \in Nat
        /\ r[Len(q) + 1] = b /\ Len(q) + 1 \in 1..Len(r)
        /\ \A i \in 1..Len(q) : r[i] = q[i] /\ i \in 1..Len(r)
    OBVIOUS
  <1> HIDE DEF r
  <1>2. Says(q, o) => Says(r, o)
    BY <1>1 DEF Says
  <1>3. b.conn = o /\ b.call = "didWrite" => Says(r, o)
    BY <1>1 DEF Says
  <1> QED BY <1>2, <1>3 DEF r

\* When the first call is made the others wait.
LEMMA TailSays ==
    ASSUME NEW T, NEW q \in Seq(T), q # <<>>, NEW o, Says(q, o),
           q[1].conn # o \/ q[1].call # "didWrite"
    PROVE  Says(Tail(q), o)
  <1> DEFINE r == Tail(q)
  <1>1. /\ \A i \in 1..Len(q) : i # 1 => i - 1 \in 1..Len(r) /\ r[i - 1] = q[i]
    OBVIOUS
  <1> HIDE DEF r
  <1>2. PICK i \in 1..Len(q) : q[i].conn = o /\ q[i].call = "didWrite"
    BY DEF Says
  <1>3. i - 1 \in 1..Len(r) /\ r[i - 1] = q[i]
    BY <1>1, <1>2
  <1>4. Says(r, o)
    BY <1>2, <1>3 DEF Says
  <1> QED BY <1>4 DEF r

\* More calls do no harm.
LEMMA MoreSent ==
    ASSUME NEW c, NEW o, NEW q, NEW r, Sent(c, o, q), Says(q, o) => Says(r, o)
    PROVE  Sent(c, o, r)
  BY DEF Sent

\* What acknowledges queues the callback that says so.
LEMMA InputSent ==
    ASSUME NEW c \in Conn, NEW o \in 1..Len(conns), NEW q \in Seq(CallType), NEW seg,
           NEW all \in BOOLEAN, Sent(c, o, q)
    PROVE  Sent(Arrived(c, o, seg, all)[1], o, q \o Arrived(c, o, seg, all)[2])
  <1>0. q \o <<>> = q /\ \A b \in CallType : q \o <<b>> = Append(q, b)
    OBVIOUS
  <1>a. \A n \in {"didEstablish", "didWrite"} :
           Call(n, o) \in CallType /\ Call(n, o).call = n /\ Call(n, o).conn = o
    BY DEF Call, CallType
  <1>b. \A e \in {"error", "silent"} : Removed(c, e).pcb = "NULL"
    BY DEF Removed, Conn
  <1>1. CASE c.pcb \in {"NULL", "TIME_WAIT"}
    <2>1. Arrived(c, o, seg, all) = <<c, <<>> >>
      BY <1>1 DEF Arrived
    <2> QED BY <2>1, <1>0
  <1>2. CASE c.pcb \notin {"NULL", "TIME_WAIT"} /\ seg = "RST"
    <2>1. Arrived(c, o, seg, all) = <<Removed(c, "error"), zp_tcp_err(c, o)>>
      BY <1>2 DEF Arrived
    <2> QED BY <2>1, <1>b DEF Sent
  <1>3. CASE c.pcb = "SYN_RCVD" /\ seg = "ACK"
    <2> DEFINE d == [c EXCEPT !.pcb = "OPEN"]
               b == Call("didEstablish", o)
    <2>1. Arrived(c, o, seg, all) = <<d, <<b>> >>
      BY <1>3 DEF Arrived
    <2>2. d.pcb = "OPEN" /\ d.empty = c.empty /\ d.unacked = c.unacked
      BY DEF Conn
    <2> HIDE DEF d
    <2>3. Sent(d, o, q)
      BY <1>3, <2>2 DEF Sent
    <2>4. b \in CallType
      BY <1>a
    <2> HIDE DEF b
    <2>5. Sent(d, o, Append(q, b)) /\ q \o <<b>> = Append(q, b)
      BY <2>3, <2>4, AppendSays, MoreSent
    <2>6. Arrived(c, o, seg, all)[1] = d /\ Arrived(c, o, seg, all)[2] = <<b>>
      BY <2>1
    <2> QED BY <2>5, <2>6
  <1>4. CASE c.pcb \in {"OPEN", "CLOSING"} /\ seg = "ACK" /\ c.unacked = 1
    <2> DEFINE d == [c EXCEPT !.unacked = IF all THEN 0 ELSE 1]
               b == Call("didWrite", o)
    <2>1. Arrived(c, o, seg, all) = <<d, <<b>> >>
      BY <1>4 DEF Arrived
    <2>2. d.empty = c.empty
      BY DEF Conn
    <2>3. ~d.empty
      BY <1>4, <2>2 DEF Sent
    <2>4. b \in CallType /\ b.conn = o /\ b.call = "didWrite"
      BY <1>a
    <2> HIDE DEF b, d
    <2>5. Says(Append(q, b), o) /\ q \o <<b>> = Append(q, b)
      BY <2>4, AppendSays
    <2>6. Arrived(c, o, seg, all)[1] = d /\ Arrived(c, o, seg, all)[2] = <<b>>
      BY <2>1
    <2> QED BY <2>3, <2>5, <2>6 DEF Sent
  <1>5. CASE c.pcb = "CLOSING" /\ seg = "ACK" /\ c.unacked = 0
    <2>1. Arrived(c, o, seg, all) = <<Removed(c, "silent"), <<>> >>
      BY <1>5 DEF Arrived
    <2> QED BY <2>1, <1>b DEF Sent
  <1>6. CASE ~ \/ c.pcb \in {"NULL", "TIME_WAIT"}
               \/ c.pcb \notin {"NULL", "TIME_WAIT"} /\ seg = "RST"
               \/ c.pcb = "SYN_RCVD" /\ seg = "ACK"
               \/ c.pcb \in {"OPEN", "CLOSING"} /\ seg = "ACK" /\ c.unacked = 1
               \/ c.pcb = "CLOSING" /\ seg = "ACK" /\ c.unacked = 0
    <2>1. Arrived(c, o, seg, all) = <<c, <<>> >>
      BY <1>6 DEF Arrived
    <2> QED BY <2>1, <1>0
  <1> QED BY <1>1, <1>2, <1>3, <1>4, <1>5, <1>6

\* The application knows that what it has just written is not sent.
LEMMA ApiSent ==
    ASSUME NEW c \in Conn, NEW o, NEW q, NEW op \in Ops, NEW way \in Ways, Sent(c, o, q)
    PROVE  Sent(Api(c, op, way), o, q)
  <1>1. CASE op \in {"syncSet", "asyncSet"}
    <2>1. /\ Api(c, op, way).pcb = c.pcb /\ Api(c, op, way).empty = c.empty
          /\ Api(c, op, way).unacked = c.unacked
      BY <1>1 DEF Api, Conn
    <2> QED BY <2>1 DEF Sent
  <1>2. CASE op = "write"
    <2>1. Api(c, op, way) = c \/ (~Api(c, op, way).empty /\ Api(c, op, way).unacked = 1)
      BY <1>2 DEF Api, Written, Conn
    <2> QED BY <2>1 DEF Sent
  <1>3. CASE op = "close"
    <2> DEFINE d == Api(c, op, way)
    <2>1. \/ d = c \/ d.pcb = "NULL"
          \/ c.pcb # "NULL" /\ d.empty = c.empty /\ d.unacked = c.unacked
      BY <1>3 DEF Api, Closed, Removed, Conn, Ways
    <2> HIDE DEF d
    <2>2. Sent(d, o, q)
      BY <2>1 DEF Sent
    <2> QED BY <2>2 DEF d
  <1> QED BY <1>1, <1>2, <1>3 DEF Ops

\* One object changes; nothing that waited for the others is dropped.
LEMMA SentStep ==
    ASSUME IInv, AllSent, NEW o \in 1..Len(conns), NEW c, conns' = [conns EXCEPT ![o] = c],
           Sent(c, o, delegateQueue'),
           \A p \in 1..Len(conns) :
               p # o /\ Says(delegateQueue, p) => Says(delegateQueue', p)
    PROVE  AllSent'
  <1>1. /\ Len(conns') = Len(conns) /\ conns'[o] = c
        /\ \A p \in 1..Len(conns) : p # o => conns'[p] = conns[p]
    BY Parts
  <1>2. \A p \in 1..Len(conns) : p # o => Sent(conns[p], p, delegateQueue')
    BY MoreSent DEF AllSent
  <1> QED BY <1>1, <1>2 DEF AllSent

\* A block of a timer queue.
LEMMA TimerQueueBlockSent ==
    ASSUME IInv, AllSent, NEW o \in 1..Len(conns), TimerQueueBlock(o)
    PROVE  AllSent'
  <1> DEFINE b == Head(conns[o].blocks)
             c == [conns[o] EXCEPT !.blocks = Tail(@)]
  <1>1. /\ conns[o] \in Conn /\ conns[o].blocks # <<>> /\ delegateQueue \in Seq(CallType)
    <2>1. conns[o] \in Conn /\ delegateQueue \in Seq(CallType)
      BY DEF IInv, TunnelTypeOK, CallType
    <2>2. conns[o].blocks # <<>>
      BY DEF TimerQueueBlock
    <2> QED BY <2>1, <2>2
  <1>2. /\ c \in Conn /\ c.pcb = conns[o].pcb /\ c.empty = conns[o].empty
        /\ c.unacked = conns[o].unacked
    <2>1. Tail(conns[o].blocks) \in Seq(Block)
      BY <1>1 DEF Conn, Block
    <2> QED BY <1>1, <2>1 DEF Conn, Block
  <1>3. b \in Block
    <2>1. conns[o].blocks \in Seq(Block)
      BY <1>1 DEF Conn, Block
    <2> QED BY <1>1, <2>1
  <1>4. PICK done \in Outcomes(c, o, b) :
            /\ conns' = [conns EXCEPT ![o] = done[1]]
            /\ delegateQueue' = delegateQueue \o done[2]
    BY DEF TimerQueueBlock
  <1> HIDE DEF b, c
  <1>5. Sent(c, o, delegateQueue)
    BY <1>2 DEF AllSent, Sent
  <1>6. Sent(done[1], o, delegateQueue')
    <2>1. ASSUME NEW all \in BOOLEAN, done = Arrived(c, o, b.seg, all)
          PROVE  Sent(done[1], o, delegateQueue')
      BY <1>1, <1>2, <1>4, <1>5, <2>1, InputSent
    <2>2. ASSUME b.op \in Ops, NEW way \in Ways, done = <<Api(c, b.op, way), <<>> >>
          PROVE  Sent(done[1], o, delegateQueue')
      <3>1. delegateQueue' = delegateQueue
        BY <1>1, <1>4, <2>2
      <3> QED BY <1>2, <1>5, <2>2, <3>1, ApiSent
    <2> QED BY <1>3, <1>4, <2>1, <2>2, OutcomeIs
  <1>7. \A p \in 1..Len(conns) : Says(delegateQueue, p) => Says(delegateQueue', p)
    <2>1. CASE done[2] = <<>>
      BY <1>1, <1>4, <2>1
    <2>2. ASSUME NEW n \in {"didEstablish", "didWrite", "didDisconnect"},
                 done[2] = <<Call(n, o)>>
          PROVE  <1>7
      <3>1. Call(n, o) \in CallType
        BY DEF Call, CallType
      <3>2. delegateQueue' = Append(delegateQueue, Call(n, o))
        BY <1>1, <1>4, <2>2, <3>1
      <3> QED BY <1>1, <3>1, <3>2, AppendSays
    <2> QED BY <1>2, <1>3, <1>4, <2>1, <2>2, OutcomeKeeps DEF Kept
  <1> QED BY <1>4, <1>6, <1>7, SentStep

\* What happens to a pcb that goes away is not told by didWriteData:.
LEMMA TimeoutSent ==
    ASSUME IInv, AllSent, NEW o \in 1..Len(conns), Timeout(o)
    PROVE  AllSent'
  <1>1. conns[o] \in Conn /\ delegateQueue \in Seq(CallType)
    BY DEF IInv, TunnelTypeOK, CallType
  <1>2. Call("didDisconnect", o) \in CallType
    BY DEF Call, CallType
  <1>3. PICK end \in {"error", "silent"} :
           /\ conns' = [conns EXCEPT ![o] = Removed(conns[o], end)]
           /\ delegateQueue' \in {delegateQueue, delegateQueue \o zp_tcp_err(conns[o], o)}
    BY DEF Timeout
  <1>4. delegateQueue' \in {delegateQueue, Append(delegateQueue, Call("didDisconnect", o))}
    BY <1>1, <1>3 DEF zp_tcp_err
  <1>5. \A p \in 1..Len(conns) : Says(delegateQueue, p) => Says(delegateQueue', p)
    BY <1>1, <1>2, <1>4, AppendSays
  <1>6. Removed(conns[o], end).pcb = "NULL"
    BY <1>1 DEF Removed, Conn
  <1> QED BY <1>3, <1>5, <1>6, SentStep DEF Sent

\* What Sent reads of an object.
SameSent(c, d) == d.pcb = c.pcb /\ d.empty = c.empty /\ d.unacked = c.unacked

\* Steps that queue blocks or stop a timer change nothing of this.
LEMMA QuietSent ==
    ASSUME IInv, AllSent, NEW o \in 1..Len(conns), NEW c, SameSent(conns[o], c),
           conns' = [conns EXCEPT ![o] = c], delegateQueue' = delegateQueue
    PROVE  AllSent'
  <1>1. Sent(c, o, delegateQueue)
    BY DEF AllSent, Sent, SameSent
  <1> QED BY <1>1, SentStep

\* Putting a block on a timer queue.
LEMMA DispatchSent ==
    ASSUME IInv, NEW o \in 1..Len(conns), NEW b, conns' = [conns EXCEPT ![o].blocks = Append(@, b)]
    PROVE  \E c : SameSent(conns[o], c) /\ conns' = [conns EXCEPT ![o] = c]
  <1> DEFINE c == [conns[o] EXCEPT !.blocks = Append(@, b)]
  <1>1. conns[o] \in Conn
    BY Parts
  <1>2. SameSent(conns[o], c)
    BY <1>1 DEF SameSent, Conn
  <1> QED BY <1>2

\* A call of the delegate: didWriteData: reads snd_buf, of a pcb that is there.
LEMMA DelegateBlockSent ==
    ASSUME IInv, AllSent, DelegateBlock
    PROVE  AllSent'
  <1> DEFINE b == Head(delegateQueue)
             o == b.conn
  <1>1. delegateQueue \in Seq(CallType) /\ delegateQueue # <<>>
    BY DEF IInv, TunnelTypeOK, CallType, DelegateBlock
  <1>2. b \in CallType /\ b = delegateQueue[1] /\ 1 \in 1..Len(delegateQueue)
    BY <1>1
  <1>3. o \in 1..Len(conns) /\ delegateQueue' = Tail(delegateQueue)
    BY <1>2 DEF CallType, DelegateBlock
  <1>4. conns[o] \in Conn
    BY <1>3, Parts
  <1>5. \A p \in 1..Len(conns) :
           p # o /\ Says(delegateQueue, p) => Says(delegateQueue', p)
    BY <1>1, <1>2, <1>3, TailSays
  <1>6. b.call # "didWrite" /\ Says(delegateQueue, o) => Says(delegateQueue', o)
    BY <1>1, <1>2, <1>3, TailSays
  <1>7. /\ b.call # "didWrite"
        /\ \E c : SameSent(conns[o], c) /\ conns' = [conns EXCEPT ![o] = c]
        => AllSent'
    <2> SUFFICES ASSUME b.call # "didWrite", NEW c, SameSent(conns[o], c),
                        conns' = [conns EXCEPT ![o] = c]
                 PROVE  AllSent'
      OBVIOUS
    <2>1. Sent(conns[o], o, delegateQueue')
      BY <1>3, <1>6, MoreSent DEF AllSent
    <2>2. Sent(c, o, delegateQueue')
      BY <2>1 DEF Sent, SameSent
    <2> HIDE DEF o
    <2> QED BY <1>3, <1>5, <2>2, SentStep
  <1>8. CASE b.call = "didEstablish"
    <2>1. DidEstablish(o)
      BY <1>8 DEF DelegateBlock
    <2> HIDE DEF o
    <2>2. \E c : SameSent(conns[o], c) /\ conns' = [conns EXCEPT ![o] = c]
      BY <1>3, <2>1, DispatchSent DEF DidEstablish, dispatch_async
    <2> QED BY <1>7, <1>8, <2>2
  <1>9. CASE b.call = "didDisconnect"
    <2>1. conns' = [conns EXCEPT ![o] = [conns[o] EXCEPT !.told = TRUE]]
      BY <1>9 DEF DelegateBlock
    <2>2. SameSent(conns[o], [conns[o] EXCEPT !.told = TRUE])
      BY <1>4 DEF SameSent, Conn
    <2> QED BY <1>7, <1>9, <2>1, <2>2
  <1>10. CASE b.call = "didWrite"
    <2>1. DidWrite(o)
      BY <1>10 DEF DelegateBlock
    <2> HIDE DEF o
    <2>2. PICK e \in SendBufEmpty(conns[o]) : conns' = [conns EXCEPT ![o].empty = e]
      BY <2>1 DEF DidWrite
    <2> DEFINE c == [conns[o] EXCEPT !.empty = e]
    <2>3. conns' = [conns EXCEPT ![o] = c]
      BY <2>2
    <2>4. c.pcb = conns[o].pcb /\ c.unacked = conns[o].unacked /\ c.empty = e
      BY <1>4 DEF Conn
    <2> HIDE DEF c
    <2>5. conns[o].pcb # "NULL" => e = (conns[o].unacked = 0)
      BY <2>2 DEF SendBufEmpty
    <2>6. Sent(c, o, delegateQueue')
      BY <2>4, <2>5 DEF Sent
    <2> QED BY <1>3, <1>5, <2>3, <2>6, SentStep
  <1> QED BY <1>2, <1>8, <1>9, <1>10 DEF CallType

\* A new object: nothing is written yet, and the application has heard nothing else.
LEMMA AcceptSent ==
    ASSUME IInv, AllSent, AcceptSyn
    PROVE  AllSent'
  <1> DEFINE new == Len(conns) + 1
             c == NewConn(input.key)
  <1>1. conns' = Append(conns, c) /\ delegateQueue' = delegateQueue
    BY DEF AcceptSyn
  <1>2. c.empty /\ c.unacked = 0
    BY DEF NewConn
  <1> HIDE DEF c
  <1>3. /\ Len(conns') = new /\ conns'[new] = c
        /\ \A p \in 1..Len(conns) : conns'[p] = conns[p]
        /\ 1..new = (1..Len(conns)) \cup {new}
    BY <1>1, Parts
  <1> HIDE DEF new
  <1>4. Sent(c, new, delegateQueue)
    BY <1>2 DEF Sent
  <1> QED BY <1>1, <1>3, <1>4 DEF AllSent

\* Every step keeps it.
LEMMA StepSent ==
    ASSUME IInv, AllSent, [TunnelNext]_tunnelVars
    PROVE  AllSent'
  <1>1. CASE UNCHANGED <<conns, delegateQueue>>
    BY <1>1 DEF AllSent
  <1>2. CASE Found
    <2>1. /\ input.conn \in 1..Len(conns) /\ delegateQueue' = delegateQueue
          /\ conns' = [conns EXCEPT ![input.conn].blocks =
                         Append(@, [op |-> "input", seg |-> input.seg])]
      BY <1>2 DEF Found, IInv, TunnelTypeOK
    <2> QED BY <2>1, DispatchSent, QuietSent
  <1>3. CASE AcceptSyn
    BY <1>3, AcceptSent
  <1>4. ASSUME NEW o \in 1..Len(conns), TimerQueueBlock(o) PROVE AllSent'
    BY <1>4, TimerQueueBlockSent
  <1>5. ASSUME NEW o \in 1..Len(conns), Timeout(o) PROVE AllSent'
    BY <1>5, TimeoutSent
  <1>6. ASSUME NEW o \in 1..Len(conns), TimerEnds(o) PROVE AllSent'
    <2>1. /\ conns' = [conns EXCEPT ![o] = [conns[o] EXCEPT !.timer = FALSE]]
          /\ delegateQueue' = delegateQueue
      BY <1>6 DEF TimerEnds
    <2>2. SameSent(conns[o], [conns[o] EXCEPT !.timer = FALSE])
      BY Parts DEF SameSent, Conn
    <2> QED BY <2>1, <2>2, QuietSent
  <1>7. ASSUME NEW o \in 1..Len(conns), Use(o) PROVE AllSent'
    BY <1>7, DispatchSent, QuietSent DEF Use, dispatch_async
  <1>8. CASE DelegateBlock
    BY <1>8, DelegateBlockSent
  <1>9. UNCHANGED <<conns, delegateQueue>> \/ Found \/ AcceptSyn \/ DelegateBlock
         \/ \E p \in 1..Len(conns) : OfConn(p)
    BY DEF TunnelNext, tunnelVars, ipPacketInput, Refuse, setConnection, removeConnection
  <1> QED BY <1>1, <1>2, <1>3, <1>4, <1>5, <1>6, <1>7, <1>8, <1>9 DEF OfConn

\* ZPTCPConnection.m: zp_tcp_sent and didWriteData:sendBuf: keep the application
\* informed while there is a pcb, whatever a freed one may read as: what it takes for
\* sent is acknowledged, and of what is acknowledged it knows or is about to hear,
\* however its writes, the segments and the two queues overtake each other.
THEOREM SentTold == TunnelSpec => []SentIsTold
  <1>1. TunnelInit => AllSent
    BY DEF TunnelInit, AllSent
  <1>2. IInv /\ AllSent /\ [TunnelNext]_tunnelVars => AllSent'
    BY StepSent
  <1>3. AllSent => SentIsTold
    <2> SUFFICES ASSUME AllSent, NEW o \in 1..Len(conns), Live(o)
                 PROVE  /\ conns[o].empty => conns[o].unacked = 0
                        /\ conns[o].unacked = 0 =>
                              \/ conns[o].empty
                              \/ \E i \in QueuedFor(o) : delegateQueue[i].call = "didWrite"
      BY DEF SentIsTold
    <2>1. Sent(conns[o], o, delegateQueue)
      BY DEF AllSent
    <2> QED BY <2>1 DEF Sent, Says, Live, QueuedFor
  <1> QED BY <1>1, <1>2, <1>3, InductiveInvariant, PTL DEF TunnelSpec

=============================================================================
