--------------------------------- MODULE Udp ---------------------------------
(***************************************************************************)
(* The control blocks of UDP over one interface (udp.c): the list that     *)
(* udp_input searches and reorders while applications create, bind,        *)
(* connect, disconnect and remove blocks, the choice of a free port, the   *)
(* sending that binds on the way, and the interface's address changing     *)
(* under bound blocks (netif.c:505).                                       *)
(*                                                                         *)
(* The list udp_pcbs is a sequence of blocks, its head first.  Addresses   *)
(* are values; Net gives the network of a local one.  The receive callback *)
(* frees the packet and calls nothing of UDP.                              *)
(***************************************************************************)
EXTENDS Integers, SequencesExt

CONSTANTS Pcbs,        \* the control blocks memory has room for
          Locals,      \* addresses the interface may get
          Peers,       \* addresses of other hosts
          Nets,        \* networks
          AnyIp,         \* IP_ADDR_ANY
          All,         \* IPADDR_BROADCAST
          Net,         \* the network of each local address
          PortEnd,     \* UDP_LOCAL_PORT_RANGE_END; its START is 1
          PeerPort     \* the port the peers' services listen on

ASSUME UdpAssumption == /\ Net \in [Locals -> Nets]
                        /\ PortEnd \in Nat \ {0}
                        /\ AnyIp \notin Locals \cup Peers

VARIABLES udp_pcbs,    \* the list
          pcb,         \* each block
          udp_port,    \* the last port udp_new_port tried
          addr         \* the interface's address

vars == <<udp_pcbs, pcb, udp_port, addr>>

Ports == 1 .. PortEnd
Freed == [live |-> FALSE, local_ip |-> AnyIp, local_port |-> 0,
          remote_ip |-> AnyIp, remote_port |-> 0, connected |-> FALSE]
Live == {c \in Pcbs : pcb[c].live}

\* An address with the broadcast bits of a network.
BroadcastOf(n) == <<"broadcast", n>>
Datagrams == [src_ip : Peers, src : {0, PeerPort}, dest : Ports,
              dest_ip : Locals \cup {All} \cup {BroadcastOf(n) : n \in Nets}]

-----------------------------------------------------------------------------
(* Binding.  Ports are tried in circular order from the one after udp_port, *)
(* as many as the range has; a port any block has is taken.                 *)

First(s) == CHOOSE i \in s : \A j \in s : i <= j
Candidate(i) == ((udp_port + i - 1) % PortEnd) + 1
Taken == {pcb[udp_pcbs[i]].local_port : i \in DOMAIN udp_pcbs}
udp_new_port ==
  LET free == {i \in Ports : Candidate(i) \notin Taken}
  IN IF free = {} THEN [tried |-> PortEnd, port |-> 0]
     ELSE LET i == First(free)
          IN [tried |-> i, port |-> Candidate(i)]

InUse(c, ip, port) ==
  \E i \in DOMAIN udp_pcbs : /\ udp_pcbs[i] # c
                             /\ pcb[udp_pcbs[i]].local_port = port
                             /\ pcb[udp_pcbs[i]].local_ip = ip

\* Mutant: a block that is bound again is inserted again.
InsertedAgain(c) == <<c>> \o udp_pcbs

Inserted(c) == IF Contains(udp_pcbs, c) THEN udp_pcbs ELSE <<c>> \o udp_pcbs

\* The list without the first place of a block.
Unlinked(c) ==
  IF Contains(udp_pcbs, c)
  THEN RemoveAt(udp_pcbs, First({i \in DOMAIN udp_pcbs : udp_pcbs[i] = c}))
  ELSE udp_pcbs

\* After udp_bind(c, ip, port): what becomes of the blocks, the list and the
\* counter, and whether it succeeded.
udp_bind(c, ip, port) ==
  LET new  == udp_new_port
      auto == port = 0
      p    == IF auto THEN new.port ELSE port
      ok   == IF auto THEN p # 0 ELSE ~InUse(c, ip, port)
  IN [ok   |-> ok,
      pcb  |-> IF ok THEN [pcb EXCEPT ![c].local_ip = ip, ![c].local_port = p] ELSE pcb,
      list |-> IF ok THEN Inserted(c) ELSE udp_pcbs,
      port |-> IF auto THEN Candidate(new.tried) ELSE udp_port]

\* What udp_connect and udp_sendto do first with a block that has no port.
AutoBound(c) == IF pcb[c].local_port = 0 THEN udp_bind(c, pcb[c].local_ip, 0)
                ELSE [ok |-> TRUE, pcb |-> pcb, list |-> udp_pcbs, port |-> udp_port]

-----------------------------------------------------------------------------
(* Which block a datagram is for.                                           *)

Broadcast(d) == d.dest_ip = All \/ (addr # AnyIp /\ d.dest_ip = BroadcastOf(Net[addr]))

udp_input_local_match(c, d) ==
  \/ pcb[c].local_ip = AnyIp
  \/ /\ Broadcast(d)
     /\ d.dest_ip = All \/ d.dest_ip = BroadcastOf(Net[pcb[c].local_ip])
  \/ ~Broadcast(d) /\ pcb[c].local_ip = d.dest_ip

LocalMatch(c, d) == pcb[c].local_port = d.dest /\ udp_input_local_match(c, d)
FullMatch(c, d) == /\ LocalMatch(c, d)
                   /\ pcb[c].remote_port = d.src
                   /\ pcb[c].remote_ip \in {AnyIp, d.src_ip}
\* The positions in the list of the blocks that match in full, and of the
\* unconnected ones that match.
FullAt(d) == {i \in DOMAIN udp_pcbs : FullMatch(udp_pcbs[i], d)}
UnconnectedAt(d) == {i \in DOMAIN udp_pcbs : /\ ~pcb[udp_pcbs[i]].connected
                                             /\ LocalMatch(udp_pcbs[i], d)}
\* Mutant: the match changes places with the head.
SwappedWithHead(i) == [udp_pcbs EXCEPT ![1] = udp_pcbs[i], ![i] = udp_pcbs[1]]

MovedToFront(i) == <<udp_pcbs[i]>> \o RemoveAt(udp_pcbs, i)

\* The block that gets the datagram, as a set of at most one.
Receiver(d) == LET at == IF FullAt(d) # {} THEN FullAt(d) ELSE UnconnectedAt(d)
               IN {udp_pcbs[i] : i \in {j \in at : j = First(at)}}

-----------------------------------------------------------------------------
Init == /\ udp_pcbs = <<>>
        /\ pcb = [c \in Pcbs |-> Freed]
        /\ udp_port \in {1, PortEnd}
        /\ addr \in Locals \cup {AnyIp}

udp_new(c) == /\ c \notin Live
              /\ pcb' = [pcb EXCEPT ![c].live = TRUE]
              /\ UNCHANGED <<udp_pcbs, udp_port, addr>>

Bound(s) == /\ pcb' = s.pcb
            /\ udp_pcbs' = s.list
            /\ udp_port' = s.port
            /\ UNCHANGED addr

Bind(c, ip, port) == c \in Live /\ Bound(udp_bind(c, ip, port))

\* A failed automatic bind returns before anything else is set.
udp_connect(c, ip, port) ==
  /\ c \in Live
  /\ \E s \in {AutoBound(c)} :
       Bound(IF s.ok THEN [s EXCEPT !.pcb[c].remote_ip = ip, !.pcb[c].remote_port = port,
                                    !.pcb[c].connected = TRUE]
             ELSE s)

udp_disconnect(c) ==
  /\ c \in Live
  /\ pcb' = [pcb EXCEPT ![c].remote_ip = AnyIp, ![c].remote_port = 0, ![c].connected = FALSE]
  /\ UNCHANGED <<udp_pcbs, udp_port, addr>>

udp_remove(c) == /\ c \in Live
                 /\ pcb' = [pcb EXCEPT ![c] = Freed]
                 /\ udp_pcbs' = Unlinked(c)
                 /\ UNCHANGED <<udp_port, addr>>

\* An interface without an address is no route, and the block's own address
\* must be the interface's.
HasSource(c) == addr # AnyIp /\ pcb[c].local_ip \in {AnyIp, addr}

\* A block without a port is bound before the memory
\* for the header may turn out to be missing.
udp_sendto(c) == /\ c \in Live
                 /\ HasSource(c)
                 /\ Bound(AutoBound(c))

\* A full match that is not the head of the list becomes it.
udp_input(d) ==
  /\ udp_pcbs' = IF FullAt(d) # {} THEN MovedToFront(First(FullAt(d))) ELSE udp_pcbs
  /\ UNCHANGED <<pcb, udp_port, addr>>

\* The blocks bound to the address follow it, unless one of the two is none.
udp_netif_ip_addr_changed(new) ==
  [c \in Pcbs |-> IF addr # AnyIp /\ new # AnyIp /\ pcb[c].local_ip = addr
                     /\ Contains(udp_pcbs, c)
                  THEN [pcb[c] EXCEPT !.local_ip = new] ELSE pcb[c]]

netif_set_ipaddr(new) == /\ new # addr
                         /\ pcb' = udp_netif_ip_addr_changed(new)
                         /\ addr' = new
                         /\ UNCHANGED <<udp_pcbs, udp_port>>

Next == \/ \E c \in Pcbs : \/ udp_new(c)
                           \/ \E ip \in Locals \cup {AnyIp}, port \in Ports \cup {0} : Bind(c, ip, port)
                           \/ \E ip \in Peers : udp_connect(c, ip, PeerPort)
                           \/ udp_disconnect(c)
                           \/ udp_remove(c)
                           \/ udp_sendto(c)
        \/ \E d \in Datagrams : udp_input(d)
        \/ \E new \in Locals \cup {AnyIp} : netif_set_ipaddr(new)

Spec == Init /\ [][Next]_vars

-----------------------------------------------------------------------------
(* Properties.                                                              *)

TypeOK == /\ udp_pcbs \in Seq(Pcbs)
          /\ pcb \in [Pcbs -> [live : BOOLEAN, local_ip : Locals \cup {AnyIp},
                               local_port : Ports \cup {0}, remote_ip : Peers \cup {AnyIp},
                               remote_port : {0, PeerPort}, connected : BOOLEAN]]
          /\ udp_port \in Ports
          /\ addr \in Locals \cup {AnyIp}

\* Through every order of binds, rebinds, connects that bind, sends that bind,
\* removals and moves to the front, the list holds each block that has a port
\* exactly once, and no block that was freed.
ListIntact == /\ \A i, j \in DOMAIN udp_pcbs : udp_pcbs[i] = udp_pcbs[j] => i = j
              /\ \A c \in Pcbs : Contains(udp_pcbs, c) <=> c \in Live /\ pcb[c].local_port # 0
              /\ \A c \in Pcbs : pcb[c].connected => Contains(udp_pcbs, c)

\* Moving a block to the front is an optimisation: a datagram from a real source
\* port changes nothing about who gets any datagram for which at most one block
\* matches in full.  (Among several full matches, a block bound to the address
\* and one bound to any address, the last used wins.)
MovingKeepsReceivers ==
  [][(pcb' = pcb /\ udp_pcbs' # udp_pcbs /\ \E g \in Datagrams : g.src # 0 /\ udp_input(g)) =>
       \A d \in Datagrams : (\A i, j \in FullAt(d) : i = j) => Receiver(d)' = Receiver(d)]_vars

\* Two blocks come to share an address and a port, which udp_bind refuses, only by
\* a change of the interface's address onto one that a block was bound to before.
Twins == {t \in Live \X Live : /\ t[1] # t[2]
                                /\ pcb[t[1]].local_port = pcb[t[2]].local_port
                                /\ pcb[t[1]].local_port # 0
                                /\ pcb[t[1]].local_ip = pcb[t[2]].local_ip}
OwnersApart == [][Twins' \subseteq Twins \/ \E c \in Live : pcb[c].local_ip = addr' /\ addr' # addr]_vars

\* A block bound to port 0 gets a port no block had on any address, and is refused
\* one only when every port of the range is taken.
AutomaticPortFree ==
  \A c \in Live : LET s == udp_bind(c, pcb[c].local_ip, 0)
                  IN IF Ports \subseteq Taken THEN ~s.ok /\ s.pcb = pcb
                     ELSE s.ok /\ s.pcb[c].local_port \in Ports \ Taken
=============================================================================
