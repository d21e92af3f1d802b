# ZPTCPIPStack in TLA+

ZPTCPIPStack turns the IP packets of a tunnel device into TCP connections an
application can read and write: a fork of lwIP 2.0.2 (`src/ZPTCPIPStack/lwIP`)
under two Objective-C classes, `ZPPacketTunnel` and `ZPTCPConnection`. This
directory holds a model of it, the TLC configurations that check the model, and
proofs checked by TLAPS.

Line numbers below are those of `src/ZPTCPIPStack/...`; `tcp*.c` and the other C
files are in `lwIP/core`.

## 1. The system

### 1.1 Threads and queues

| where | what runs there |
|---|---|
| the caller of `ipPacketInput:` | `ip4_input`/`ip6_input`, reassembly, `tcp_input_pre`, the look-up of the connection; a SYN for an unknown connection makes it, pcb and all, on this thread |
| `timerQueue`, one per connection, serial | everything else that touches the pcb: `tcp_input`, the 250 ms dispatch timer (`tcp_tmr`), the bodies of `write:`, `readData`, `close`, `closeAfterWriting`, of the two delegate setters |
| `dicQueue`, serial | the dictionary of connections |
| the delegate queues | callbacks to the application |

lwIP is built for one pcb per "stack": the global state of `tcp_in.c` and
`tcp.c` has become `struct zp_tcp_block` (`lwIP.h:67`), one per connection.
There are no listening pcbs, no list of pcbs, and no lwIP timers
(`LWIP_TIMERS` is 0).

### 1.2 Components

| component | state | operations | what makes it correct |
|---|---|---|---|
| `ZPTCPConnection` (`ZPTCPConnection.m`) | delegate, `canReadData`, `close_after_writing`, the timer | the API, the callbacks `zp_tcp_*`, `tcpInputWith` | data is passed on when asked for, once, in order; every end is reported; both ways to close do close |
| TCP control (`tcp.c`) | `state`, `tmr`, `flags`, `refused_data`, `rcv_wnd` | `tcp_tmr`, `tcp_close`, `tcp_abandon`, `tcp_recved`, `tcp_process_refused_data` | every state has a way out; nothing is removed silently; the window neither leaks nor grows |
| TCP input (`tcp_in.c`) | `rcv_nxt`, `rcv_wnd`, `ooseq`, `snd_wnd`, `lastack` | `tcp_input`, `tcp_process`, `tcp_receive` | the state machine of RFC 793; each byte is accepted once; the FIN comes last |
| TCP output (`tcp_out.c`) | `unsent`, `unacked`, `snd_nxt`, `snd_lbb`, `snd_buf`, `nrtx`, persist timer | `tcp_write`, `tcp_output`, `tcp_send_fin`, `tcp_rexmit*`, probes | every number from `lastack` to `snd_lbb` is queued once; the buffer accounts agree; stuck data is retransmitted or given up |
| `ZPPacketTunnel` | dictionary, netif, delegate | `ipPacketInput:`, look-up, insertion, removal | a connection with a pcb is found by its key; a dead one is forgotten; the delegate hears of ends |
| reassembly (`ip4_frag.c`, `ip6_frag.c`) | lists of incomplete datagrams | `ip4_reass`, `ip6_reass`, their timers | a datagram is passed on complete or not at all; memory is bounded; the oldest give way |
| pbufs (`pbuf.c`) | chains with reference counts and lengths | alloc, free, ref, cat, chain, dechain, header, realloc, copy, coalesce | a pbuf lives as long as it is pointed to; the bytes of a packet stay what they were, whoever shares its tail |
| interfaces and routing (`netif.c`, `ip4.c`, `ip6.c`) | list, default, addresses, flags | add, remove, set up/down/link/address, `ip4_route`, `ip6_route`, `ip6_select_source_address`, `ip4_input`, `ip6_input` | nothing points at a removed interface; packets leave over one that works, from an address that can be answered |
| ND6 (`nd6.c`) | neighbours, destinations, routers, queues | input, output, hints, timer, clean-up | a packet goes to its next hop; caches and lists agree |
| MLD6, IGMP (`mld6.c`, `igmp.c`) | groups with a state, a timer, a use count | join, leave, query, report, timer, link | membership lasts while it is used; queries are answered in time |
| ARP (`etharp.c`) | table, cached index, waiting packets | input, output, query, timer | as ND6; nobody waits for ever |
| DHCP, AutoIP (`dhcp.c`, `autoip.c`) | state, timers, the lease | start, stop, renew, release, replies, timers, conflicts | an address in use was asked for and is watched |
| UDP (`udp.c`) | list of blocks | new, bind, connect, send, remove, input, change of the address | the list is intact; a port has one owner; receivers do not depend on the order |
| ICMP, ICMPv6, mem, memp, checksums, addresses, init, stats, `timeouts.c` | | thin layers and pure functions | |

What this program uses of them: `lwipopts.h` switches UDP, ICMP and ARP off, and DHCP,
AutoIP and IGMP are off by default, so their files compile to nothing. ND6 and MLD6 are
compiled, but no timer drives them. The tunnel fills in a `netif` of its own by
hand, never adds it to the list, brings it up or gives it an IPv6 address; what
`ip6_input` gets for a unicast address is dropped (`ip6.c:505`). The files are part
of the repository and are modelled as what they are, modules of a stack that another
`lwipopts.h` switches on; the models of the connection and the tunnel are of the program
as it is built.

Interaction: tunnel → connection is a `dispatch_async` to `timerQueue`;
connection → lwIP and lwIP → connection are calls and callbacks within one block
of that queue; connection → application is a `dispatch_async` to the delegate
queue; connection → tunnel is a packet (`netif_output`) and, at the end,
`removeConnectionForKey:`.

### 1.3 What is hard about it

* Data is *pulled*: `zp_tcp_recv` refuses data unless `readData` was called. So a
  segment, a FIN behind it, further segments, ticks and closes can all meet
  `refused_data` in any order, and `rcv_wnd` must come out right, since
  `tcp_close` takes `rcv_wnd != TCP_WND` as the sign of unread data and answers
  it with a RST.
* There are two closes, and four other ways for the pcb to go away; the
  application must be able to tell them apart.
* After a retransmission timeout everything in flight is on the *unsent* queue
  again; acknowledgements, the FIN and the "all written" test have to look at
  both queues.
* The timers share `pcb->tmr`, which stops moving when the application closes.
* Three queues, each serial, with hand-overs between them.
* Segments are cut, merged, filled up and requeued in five places of `tcp_out.c` and
  `tcp_in.c`, each of which keeps `snd_buf`, `snd_queuelen` and `unsent_oversize`.
* The caches (ARP, ND6, the cached indices, the list of routers) hold indices and
  pointers into each other, and recycle their entries.
* Timers and answers of others meet in any order: DHCP's T1, T2 and lease, the
  delays of group reports, ageing, the age of fragments.
* pbufs share tails; interfaces go while others point at them.

`PROJECT.json` lists the hazards with their lines.

## 2. Modules

| module | what it is |
|---|---|
| `ZPTCPConnection` | one connection: pcb, block and object; the properties |
| `ZPTCPService` | what a connection promises the application, in terms of `ZPTCPConnection.h` |
| `MCZPTCPConnection` | a history variable, and statements of comments that the code does not keep |
| `ZPTCPConnection_proofs` | TLAPS proofs: the types, the receive half, the send half and the ends; what the application asks for and the refinement of `ZPTCPService` |
| `TcpReceive` | what `tcp_receive` does with the text of segments, byte for byte; it implements the receive half of `ZPTCPConnection` |
| `MCTcpReceive` | a history variable for progress, and a statement of a comment |
| `TcpReceive_proofs` | TLAPS proofs: the properties of the text of segments, and the refinement of the receive half |
| `DataInduction` | for TLAPS: induction over numbers, hence over the length of a queue; the least and the largest number of a set; what sums over a table or a list become when one entry changes, comes or goes; what taking an element out of a sequence, or putting one in, leaves |
| `TcpSend` | what `tcp_write`, `tcp_output`, the timers and acknowledgements do to the queues, byte for byte |
| `TcpSend_proofs` | TLAPS proofs: every property of the queues of the sender |
| `Tunnel` | the threads and queues around many connections |
| `Tunnel_proofs` | TLAPS proofs |
| `Pbuf` | packet buffers |
| `MCInput` | what comes in, for TLC: `Pbuf`, `Tunnel` and `TcpReceive` |
| `Reass`, `Netif`, `Udp`; `MCIp` | reassembly, interfaces with routing, UDP; these three for TLC |
| `Ip_proofs` | TLAPS proofs: UDP, interfaces, reassembly |
| `Etharp`, `Nd6`; `MCNeighbours` | address resolution for IPv4 and IPv6; both for TLC |
| `Neighbours_proofs` | TLAPS proofs: every safety property of both |
| `Dhcp`, `Groups`; `MCConfiguration` | DHCP with AutoIP, IGMP with MLD; both for TLC |
| `Configuration_proofs` | TLAPS proofs: every safety property of both |

`MCInput`, `MCIp`, `MCNeighbours` and `MCConfiguration` bring together components that sit
next to each other and, in the models, do not read each other's state. Their variable `part`, chosen in
`Init`, says which of them a behaviour is about; the others stand still. So a run
covers the sum of the components' states and not the product, and a property of
one component says `part = "..." =>` where the initial state of another would
not satisfy it. Components that do interact are composed for real: the connection
with lwIP in `ZPTCPConnection`, threads, queues and connections in `Tunnel`, DHCP with
AutoIP in `Dhcp`, interfaces with routing and input in `Netif`.

### 2.1 `ZPTCPConnection`

An action is one block of `timerQueue`, run to its end; the queue is serial, so
this is the atomicity the code has.

| action | code |
|---|---|
| `Init` | `initWithTunnel:` accepting a SYN; the pcb is in SYN_RCVD, the SYN-ACK is sent |
| `Input` | `tcpInputWith:` → `tcp_input` → `tcp_process` → `tcp_receive`, then the callbacks |
| `Tick` | the timer handler with a pcb: `tcp_tmr` = `tcp_fasttmr` and, every other time, `tcp_slowtmr` |
| `TimerEnds` | the timer handler without one: the timer is cancelled, the tunnel forgets the connection |
| `syncSetDelegate`, `asyncSetDelegate`, `write`, `readData`, `close`, `closeAfterWriting` | the API |

| variable | code |
|---|---|
| `state` | `pcb->state`; `"FREED"` when `block->pcb` is NULL |
| `rx.nxt`, `rx.wnd`, `rx.refused`, `rx.fin` | `rcv_nxt` (from 0), `rcv_wnd`, the length of `refused_data` and its `PBUF_FLAG_TCP_FIN` |
| `rx.canRead`, `rx.read`, `rx.eof` | `canReadData`; bytes given to `didReadData:`, calls of `connectionDidCloseReadStream:` |
| `tx.una`, `tx.nxt`, `tx.lbb` | `lastack`, `snd_nxt`, `snd_lbb`, counted from the ISS |
| `tx.unsent`, `tx.unacked` | the two queues, as sets of sequence numbers |
| `tx.wnd`, `tx.persist`, `tx.buf`, `tx.nrtx`, `tx.fin`, `tx.infr` | `snd_wnd`, `persist_backoff > 0`, `snd_buf`, `nrtx`, `TF_FIN`, `TF_INFR` |
| `tx.acked` | bytes reported by `didWriteData:` |
| `conn.*` | `TF_RXCLOSED`, `TF_CLOSEPEND`, `close_after_writing`, was the delegate set, was the connection announced, does the timer run |
| `idle` | `tcp_ticks - pcb->tmr` |
| `odd` | `tcp_timer & 1` |
| `err`, `rst` | the error of `didDisconnectWithError:`; was a RST sent |

Handlers are functions from the record `Now` of these variables (without `odd`)
to such a record, composed as the C functions call each other. That keeps the
order of a handler's effects: for example `tcp_fasttmr` first sends what an
acknowledgement makes it send, then a pending FIN, then offers refused data,
then looks at `close_after_writing`.

What is abstracted:

* *Data.* Bytes are counted. The peer's stream is `StreamLen` bytes and a FIN; a
  segment brings the next `k` of them, or old ones, or the FIN again. On the send
  side each segment is one byte (or the SYN, or the FIN). What needs segments of
  several bytes (the persist timer that `tcp_output` starts for a head larger than
  the window, partial acknowledgement, `snd_queuelen`) is left to `TcpSend`.
* *Out-of-sequence data* shows as several bytes becoming in sequence together;
  `TcpReceive!ImplementsCore` shows that this is all it can do.
* *The peer* (`Segments`, external) sends any acknowledgement from one below
  `lastack` to `snd_nxt`, any window up to `MaxPeerWnd` or a segment too old to
  update it, a RST or a SYN with a matching or another sequence number. Segments
  may be repeated, late or missing. It does not acknowledge what was never sent.
  Segments without ACK, RST and SYN do nothing the model keeps.
* *Time.* `due` decides whether the timer that runs (retransmission or persist) has
  expired in this slow tick; `out` whether a delayed ACK, a window update or the
  poll timer calls `tcp_output`; `Pace` whether cwnd and Nagle let everything
  through or only the head with nothing in flight.
* *Failure.* `AllocMayFail`: the segment for the FIN may not be available
  (`TF_CLOSEPEND`). Other allocation failures drop a segment, which the peer
  repeats.
* *Reading freed memory.* `zp_tcp_recv` reads `p->tot_len` after `pbuf_free(p)`.
  `FreedReads` is the set of outcomes: the old length always, and each member of the
  constant `Garbage`. With `Garbage = {}` the model is the build in which the
  allocator leaves the header alone.
* *Application.* It calls the API after the tunnel has announced the connection, and
  sets a delegate before it calls `write:` or `readData` (the code asserts this).
  The two halves of the API that report a failed `write:` have no effect to model.
* The ISS is 0 and sequence numbers do not wrap.

### 2.2 `ZPTCPService`

The abstract specification: phases opening → open → closing → ended, bytes and
callbacks. Data comes only when asked for, once per `readData`, never after a
close; the end of the stream comes once and last; written bytes are reported once;
a connection ends with a word to the delegate, or by the application's own close
with everything written acknowledged, or with a RST to the peer.
`ZPTCPConnection!ImplementsService` is the refinement, with the mapping in
`Service`: it says that segments, timers and lwIP's states cannot show the
application anything else.

### 2.3 `TcpReceive`

One record, `pcb`, with the part of the `tcp_pcb` that receives: `nxt`, `wnd`, `ann`,
`edge` are `rcv_nxt`, `rcv_wnd`, `rcv_ann_wnd`, `rcv_ann_right_edge`; `ooseq` is the
queue, a sequence of segments `[seq, data, fin]`; `refused`, `fin` are `refused_data` and
its flag, `delay`, `now` the two ACK flags, `closed` is `state >= CLOSE_WAIT`. `canRead`,
`read`, `eof` are the application's side, `acked` is the newest acknowledgement
number sent, `failed` says that an `LWIP_ASSERT` was false (it aborts, `cc.h:52`).

| action | code |
|---|---|
| `Input` | `tcp_input`: refused data offered again, `tcp_receive` behind the acknowledgement part, delivery, the FIN, `tcp_output` |
| `Tick` | `tcp_tmr`: delayed ACK, refused data, dropping `ooseq`, `tcp_output` |
| `write` | any other call of `tcp_output` |
| `readData` | `canReadData` |

Bytes are named by their offset, so a byte delivered twice or at the wrong place
shows. `tcp_oos_insert_segment` is used for both merges: the loop in front of
`rcv_nxt += tcplen` does to the arriving segment and `ooseq` what
`tcp_oos_insert_segment` does to a queued one, and the loop behind it takes the
contiguous segments off (`Contiguous`).

What `tcp_output` does depends on the send half, which is not here, so a handler maps
a pcb to the *set* of pcbs it may leave: each call of `tcp_output` finds nothing to
send but an ACK that is due, or sends the head of `unsent`, or (`NagleMayHold`) is kept
from sending it by Nagle's algorithm, and the ACK with it. `AckMayFail` lets
`tcp_send_empty_ack`, `CopyMayFail` lets `tcp_seg_copy` find no memory.

The peer sends any segment of its stream within the announced window, in any
order and any number of times, and probes at the edge when the window is closed.
The pcb is past its handshake and not closed by the application; sequence numbers
do not wrap. The freed `tot_len` reads as it was.

### 2.4 `TcpSend`

One record, `pcb`, with what sending uses: the queues as sequences of segments `[seq,
data, clen, syn, fin]`, `snd_nxt`, `snd_lbb`, `snd_buf`, `snd_queuelen`,
`unsent_oversize`, `cwnd`, `dupacks`, the persist and retransmission timers. Bytes are
named by their place in what the application wrote, so that a byte sent twice, or under
a wrong number, shows.

| action | code |
|---|---|
| `write` | `write:` → `tcp_write` (oversize, concatenation, new segments; no memory) → `tcp_output` |
| `close` | `tcp_send_fin`: the FIN joins the last unsent segment or gets its own |
| `Segments` | the acknowledgement part of `tcp_receive`: window update, new data, duplicates, fast retransmission; then `tcp_output` |
| `Retransmit`, `tcp_zero_window_probe`, `Poll` | the timers: `tcp_rexmit_rto`, the persist timer, the poll's and the delayed ACK's `tcp_output` |

What is abstracted: `iss` is 0 and numbers do not wrap; `pbuf_alloc` of `PBUF_RAM` gives
one pbuf; `tcp_output_segment` does not fail; no checksums, no PSH, no `nrtx`
(`ZPTCPConnection` has it); RTT is a choice of when a timer fires; `cwnd` and `dupacks`
saturate. The peer acknowledges any number up to `snd_nxt`, also in the middle of a
segment, and offers any window that does not move its right edge back (`MayShrink =
FALSE`), from a SYN with a window of two bytes or more; section 3 says what happens
otherwise. The length of `tcp_write` is taken modulo `U16`.

The sums (`Pbufs`, `Volume`) and the insertion of several segments into `unacked`
(`InsertAll`) are functions over the number of elements, so that `TcpSend_proofs` can
reason about them by induction.

### 2.5 `Tunnel`

| variable | code |
|---|---|
| `conns` | the objects in the order they are made: `[key, pcb, iss, timer, blocks, ...]`; `blocks` is the `timerQueue` |
| `dic`, `dicQueue` | the dictionary; the blocks of `removeConnectionForKey:` that wait |
| `input` | the program counter of the thread in `ipPacketInput:` |
| `delegateQueue`, `waiting` | callbacks; the connection whose `syncSetDelegate` the delegate queue waits for |
| `iss` | the static variable of `tcp_next_iss` |

| action | code |
|---|---|
| `ipPacketInput` | a segment comes in; `connectionForKey:` is a `dispatch_sync`, hence waits for the blocks before it |
| `Found`, `AcceptSyn`, `Refuse` | `tcp_input_pre`: hand to the `timerQueue`; make a connection for a SYN; drop, or no memory |
| `setConnection`, `removeConnection` | the blocks on `dicQueue` |
| `TimerQueueBlock`, `Timeout`, `TimerEnds` | one block of a `timerQueue`; the pcb times out; the timer ends and asks to be removed |
| `DelegateBlock`, `Use` | one callback with what the application does in it; calls from other threads |

A `dispatch_sync` is one step, enabled when `dicQueue` is empty: the queue is serial.
There is one caller of `ipPacketInput:` and one delegate queue. The pcb is one of five
states (`SYN_RCVD`; `OPEN`; `CLOSING`, every state from FIN_WAIT_1 to LAST_ACK;
`TIME_WAIT`; `NULL`, freed) and whether something is unacknowledged. A `close` sends a FIN
or, when something was not read, a RST, after which the pcb is in TIME_WAIT or gone
(`tcp.c:249`); which of the three, is a choice here, as what was read is in
`ZPTCPConnection`. An ACK acknowledges a part of what was written or all. The block of
`zp_tcp_sent` reads `snd_buf` when it runs; if the pcb is freed by then, what it reads is
any member of the constant `FreedSndBuf`, or as it was. Callbacks with data are not here.
A SYN that reaches a lingering
connection is answered with a RST by its pcb, or lost when the pcb is gone. All
connections start at the same `iss`: `tcp_next_iss` adds the ticks of a block that was
just made, 0.

### 2.6 `Pbuf`

`heap` maps a pbuf to its fields `next`, `len`, `tot_len`, `ref`, type, bytes and
headroom; `held` counts the users' pointers; `want` is what each held packet should
contain. The actions are the functions of `pbuf.c`, followed pointer by pointer. Users
follow the rules the comments of `pbuf.c` give: they change length or bytes only of what
nobody else refers to, and do not make a chain a ring. There are no custom pbufs; a pool
pbuf has room for `PoolBufSize` bytes, so a packet is a chain; at most `MaxMade` packets
are made in a behaviour. `pbuf_copy` answers `ERR_VAL` for a queue of packets
(`pbuf.c:988`); the model has chains that are one packet.

### 2.7 `Reass`

`reassdatagrams`, `ip_reass_pbufcount`, and `out`, the fragment that came last with what
was handed up. `Input` is `ip4_reass` or `ip6_reass` (as `ver` says) with
`ip_reass_chain_frag_into_datagram_and_validate`, the limit and
`ip_reass_remove_oldest_datagram`; `ip_reass_tmr` is called if `timed`, which the
program never does. A fragment is one pbuf, parts are one unit each and the sender
always cuts in the same places. For the first fragment of a datagram there may be no
memory (`oom`), once, so that the oldest is freed for it, or again after that. What is in
one part is no fragment, so `Parts` is two or more. The build has pointers of 4 bytes;
with 8, `ip6_frag.c:386` aborts.

### 2.8 `Netif`

`netif_list`, `netif_default`, `nif` (addresses, their states, flags), `routers`, and
`leaked`, `aborted`. A behaviour is about one IP version. Actions: add, remove, set
default, set addresses, up and down, link, the IPv6 slots and link-local addresses,
routers coming and going, input of packets. Routes, source selection and acceptance are
operators (`ip4_route`, `ip6_route`, `ip6_select_source_address`, `ip4_input`,
`ip6_input`) which the properties apply in every state to all hosts. An address is its
scope, its network and its host; a valid one is preferred or deprecated. Drivers deliver
packets only over interfaces that are usable; the fields of a removed interface are
reset. `Tcp` is FALSE: with `LWIP_TCP` each change of an IPv4 address reaches
`tcp_netif_ip_addr_changed`, which this fork has replaced by an abort (`tcp.c:1671`, "no
need").

### 2.9 `Udp`

`udp_pcbs` is the list, head first; `pcb`, `udp_port` and the interface's address the
rest. `udp_input` moves the block it finds to the front; `udp_sendto` and `udp_connect`
bind a block without a port; a new address of the interface rebinds the blocks of the
old one. One interface, which is up; `SO_REUSE` is off; a receive callback calls nothing
of UDP. Three blocks share two ports.

### 2.10 `Etharp`

`arp_table`, `etharp_cached_entry`, and the ghosts `heard` (the address each neighbour
last spoke from), `right` and `copies`. Actions: `etharp_input`, `Output`
(`etharp_output` with the cached index and the gateway), `Query`, the timer, clean-up.
One interface; `ETHARP_SUPPORT_STATIC_ENTRIES` and `ARP_QUEUEING` are off, so an entry
holds one packet. Neighbours may change their address and say so in a request or an
answer.

### 2.11 `Nd6`

`neighbor_cache`, `destination_cache`, `default_router_list` (with indices for
pointers), `nd6_cached_index`, `prefixed` and `copies`. Actions: `nd6_input`
(solicitations, advertisements, router advertisements, redirects), `Output`
(`ethip6_output`: next hop, resolution, queueing), hints, the timer, clean-up. The
interface has a valid address; a neighbour's link-layer address does not change; the
queues share `MEMP_NUM_ND6_QUEUE` packets; the prefix may expire at any tick.
`probes_sent` stops at its limit, where the code counts on (`nd6.c:730`), so that the
order in which the code recycles two entries that are both past the limit is not kept. Duplicate address detection, prefix lists and MTUs are left out. When
`nd6_send_q` recycles the very entry whose queue it sends, the behaviour ends there
(`sending`; section 3).

### 2.12 `Dhcp`

`dhcp` (state, tries, lease, timers), `autoip`, `ip_addr`, `dhcp_pcb_refcount`, and the
ghosts `moved`, `asked`. Actions: start, stop, release, renew, inform, every reply
(`dhcp_recv`: OFFER, ACK, NAK with any lease, for this transaction), the fine and the
coarse timer, ARP replies while checking, the link coming back, AutoIP's timer and its
conflicts. A handler allocates once, which may fail. Transaction numbers stand for "of
this transaction or not"; delays are choices, the lease counts in coarse ticks. T1, T2 and the lease are given in
such ticks: that the code cuts them to 16 bits, and what it makes of an infinite T1 or T2,
is not modelled. AutoIP
is started by DHCP only. No server gives out a link-local address (`DhcpAssumption`).
`ServerNamed` says that an OFFER names its server; without it, or with a lease that ends
in REBINDING, the client is left without a timer or keeps an expired address
(`dhcp.c:1782`, `337`). The definitions that `Groups` has too are named `DhcpInit`,
`DhcpNext`, ..., so that `MCConfiguration` can extend both.

### 2.13 `Groups`

`group` (state, timer, last reporter, use count), `filter` (the driver's), `users`,
`due` (ghosts: who has joined, when an answer is due), for IGMP or MLD as `ver` says.
The order of the list does not matter and is left out. The maximal response delay of MLD
is what the code reads (`mld6.c:251`); a general query does not ask for the groups in
`Unreported`, the interface-local ones and all nodes of the link (`mld6.c:249`); `igmp_start` does not fail; use counts stay below
`UsesMax`, as the 256th join of one group would wrap a `u8_t`.

## 3. Runs

| run | module, cfg | states | what it shows |
|---|---|---|---|
| `connection_safety` | `ZPTCPConnection`, `_safety` | 153,968 | the invariants, the action properties and the refinement |
| `connection_liveness` | `ZPTCPConnection`, `_liveness` | 25,848 | progress under fairness |
| `input` | `MCInput` | 310,079 | pbufs; the dictionary, the ends, the queues; the stream in order, its queue and window |
| `receive_progress` | `MCTcpReceive`, `_progress` | 2,352 | acknowledgements, window updates, the whole stream |
| `send_stream` | `TcpSend` | 31,981 | what is written stays queued until acknowledged, through every cut and merge |
| `ip` | `MCIp` | 201,138 | reassembly, interfaces, UDP |
| `neighbours` | `MCNeighbours` | 89,608 | ARP and ND6 |
| `configuration` | `MCConfiguration` | 239,186 | DHCP with AutoIP, IGMP and MLD |
| `length_read_after_free` | `MCZPTCPConnection`, `_freedlen` | violation | finding 1 |
| `fin_beyond_window` | `TcpReceive`, `_finatedge` | violation | finding 2 |
| `hole_handed_up` | `Reass`, `_hole` | violation | finding 3 |
| `pcb_read_after_free` | `Tunnel`, `_freedread` | violation | finding 4 |

### 3.1 Properties

Of a connection (`ZPTCPConnection`):

* `WindowAccounting`, `NothingLost`, `EofAfterAllData`: the receive half. The window
  and `refused_data` add up to `TCP_WND`, each acknowledged byte was delivered or is
  kept, the end of the stream comes once and last.
* `SendAccounting`: the queues, `snd_nxt`, `snd_buf` and the reported bytes agree,
  after any sequence of timeouts, probes, fast retransmissions and acknowledgements.
* `EndsKnown`: what the application can conclude from being told of an end
  (`EndReported`), and from not being told (`SilentEndIsGraceful`).
* `RequestsRespected`: what a step may not do (`CloseResetsOnlyUnread`,
  `NothingReadAfterClose`, `ReadOnDemand`, `ClosedAfterWriting`).
* `ImplementsService`: the refinement.
* `HandshakeEnds`, `ClosedIsForgotten`, `RefusedIsRead`, `WritingEnds`: liveness.

Of the text of segments (`TcpReceive`):

* `Received`: the application gets the bytes of the stream in order, once each,
  whatever overlaps; the queue is what its own loops take it to be; what leaves the
  queue fits the window.
* `EdgeKept`: the announced window can be received and is never taken back.
* `Owed`: text not acknowledged yet is marked to be, and growth of the window worth
  telling is told. `StreamArrives`: the whole stream is read.
* `ImplementsCore`: the receive half of `ZPTCPConnection` is a sound abstraction.

Of the queues of the sender (`TcpSend`):

* `StreamKept`: what is written and not acknowledged is queued once, in order, with
  the right bytes. `SendAccounting`: `snd_buf` and `snd_queuelen` follow.
* `QueuesSound`: the assertions of `tcp_write` hold in every state in which it may run.
* `WindowObeyed`: nothing is sent past the window, and nothing waits without a timer.

Of the tunnel: `LiveIsFound` (a connection with a pcb is found, and alone has its key),
`ToldOfEnd` (`syncSetDelegate` that returns TRUE promises word of the end),
`SentIsTold` (as long as there is a pcb, what the application takes for sent is
acknowledged, and it is told when all is), `NothingLingers` (dead connections are
forgotten, `syncSetDelegate` returns). `EmptyMeansSent`, what the header says of
`sendBuf:`, is false when the pcb is gone: finding 4.

Of the IP layer: `BuffersSound`, `Reassembled` (what is handed up is in order, from the
first part to the last, with no hole but perhaps the one of finding 3; what is whole is
handed up; the pbufs are counted and limited; with the timer none gets too old), `OldestGiveWay`, `RoutesUsable`,
`BlocksListed`, `BlocksFound`; of the neighbours: `SentToLastHeard`, `PendingEnds`,
`CacheSound`, `RouterEntryKept`; of the configuration: `AddressOwned`, `LeaseWatched`,
`MemberWhileUsed`, `AnsweredInTime`, `ReportsEnd`. Each is stated above its definition.

### 3.2 Bounds

`connection_safety`: `WND = 2` and `StreamLen = 3`, so that the window fills, is
overrun and trimmed, and the stream does not fit in it; `SND_BUF = MaxWritten = 2`, so
that one byte can be in flight while another waits, and a partial acknowledgement
leaves a gap between the queues; `MaxPeerWnd = 1`, so that the window closes, holds
back a byte and reopens; `MAXRTX = 1`; timeouts of one slow tick, which keeps
"not yet", "now" and "overdue" apart; `idle` saturates one above the longest timeout. A
counter can only be compared with its limit, so longer timeouts only lengthen the
runs. The liveness run has one byte each way, as its question is which timer ends
what.

`input`. The stream: `WND = 4` and `StreamLen = 6`, so that three segments can wait
out of sequence with another fitting between them, and the window closes in
mid-stream; `MinUpd = WND/2` and `Threshold = WND/4`, the stack's own proportions
when the peer's MSS is large. `receive_progress` has them the other way round (a
small MSS), where the window can grow without being told.

`send_stream`: `MSS = 2` and writes of one and three bytes, so that segments are filled
up, concatenated and split; a buffer of four bytes and three pbufs, both of which a
write can exceed; every window from 0 to 4, so that the head of `unsent` can be larger
than the window.

The tunnel, also in `input`: one key and two objects, one after the other or side by side
in different stages; each queue has room for one block more than is waiting, so that
blocks overtake the end of a connection. The buffers: three pbufs in chains of up to three
that share tails.

`ip`: three datagrams of four parts with four pbufs allowed, so that a datagram can be
taken for whole without one of its parts, and the limit evicts one or two; two interfaces
with two addresses in different networks, hosts on and off link; three blocks on two
ports. `neighbours`: one neighbour more than each table has entries. `configuration`: two
groups, one of which a general query of MLD leaves out, a lease of three coarse ticks with
T1 = 1 and T2 = 2, two addresses, one try of each kind before giving up.

`CHECK_DEADLOCK` is off in one run, `neighbours`, where a behaviour ends when
`nd6_send_q` does not return (and in `Nd6` and `Nd6_endless.cfg`). Elsewhere a segment, a
packet or a tick is always possible; when `Tunnel` has made `MaxObjects` objects, further
SYNs are lost.

### 3.3 Fairness

`ZPTCPConnection`: the dispatch timer keeps firing while the pcb exists
(`WF_odd(Ticking)`) and its handler runs once more when it does not
(`WF_conn(TimerEnds)`); a retransmission timer that runs again and again expires
(`SF_odd(Retransmission)`): `rtime` counts slow ticks up to `rto` and only an
acknowledgement of new data sets it back, of which a finite stream allows finitely
many. Nothing is assumed of the peer or of the application, except where a property
says so: `ClosedIsForgotten` and `WritingEnds` assume
that the peer's window does not stay at zero, the first also
that the peer does not repeat its FIN for ever, each of which restarts TIME_WAIT.

`StreamArrives` assumes in addition that the peer retransmits what it has no
acknowledgement for, or probes, and that the application goes on calling `readData`.

`Tunnel`: each serial queue runs its blocks, the input thread goes on, and a timer
without a pcb fires. `Etharp`: `etharp_tmr` is called every second; `Groups`: `igmp_tmr`
and `mld6_tmr` every 100 ms. In these modules the timers are what their headers ask the
port to call; this port does not compile or does not call them (1.2).

### 3.4 Findings

1. *A length is read from freed memory* (`ZPTCPConnection.m:65`) and credited to the
   window. If it reads low, the window shrinks for good, and `close` sends a RST
   although everything was read.
2. *A FIN past the window trips an assertion* (`tcp_in.c:1215`). Only a segment appended
   to `ooseq` is cut to the window. If a FIN just past the edge waits there, filling
   the gap makes `tcp_in.c:1162` fail, which aborts the program.
3. *A datagram with a hole is handed up* (`ip4_frag.c:377`, and the same in
   `ip6_frag.c`). A fragment that is put between two others is not compared with the end
   of the one before it. Of four parts, 1, 4 and 3 in this order are taken for all, against
   the comment at `ip4_frag.c:449`. `Reassembled` says, and `DatagramsReassembled` proves,
   that a hole can be in no other place.
4. *The length of the send buffer is read from a freed pcb* (`ZPTCPConnection.m:24`), on
   the delegate queue, after a RST was handled on the timer queue. The application can be
   told that everything was transferred when the rest is lost.

### 3.5 Further configurations

These are kept because they show where the assumptions of the runs come from; each finds a
counterexample to the definition it names.

| cfg | definition | what it shows |
|---|---|---|
| `MCZPTCPConnection_persist` | `ClosedIsFreed` | while the persist timer runs, nothing counts towards `TCP_MAXRTX`, and FIN_WAIT_1 has no timeout: a closed connection can stay for ever (`tcp.c:796`) |
| `MCZPTCPConnection_timewait` | `AbortSendsReset` | data that arrives with the FIN after `close` is dropped from TIME_WAIT without a RST (`tcp.c:453`) |
| `MCZPTCPConnection_finwait2` | `StayedInFinWait2` | the FIN_WAIT_2 timeout starts before the state does (`tcp.c:857`) |
| `MCTcpReceive_delayedack` | `DelayedAckSent` | the fast timer forgets a delayed ACK that `tcp_output` did not send (`tcp.c:980`) |
| `TcpSend_shrink` | `StreamKept` | if the peer takes window back, a FIN can join a segment that fast retransmission put in mid-stream |
| `TcpSend_synzero` | `AssertionsHold` | after a SYN with window 0, the first write fails the assertion on `mss_local` |
| `TcpSend_long` | `StreamKept` | `write:` with a length of 2^16 or more queues the remainder and reports success (`ZPTCPConnection.m:321`) |
| `MCIp_leak` | `NothingLeaked` | an IPv6 packet with a multicast or mapped source address is neither handed up nor freed (`ip6.c:459`; a comment there asks why) |
| `Dhcp_unnamed` | `LeaseWatched` | after an OFFER that does not name its server, SELECTING has no timer (`dhcp.c:337`) |
| `Dhcp_endless` | `LeaseWatched` | an endless lease after one with an end leaves the old times in place |
| `Nd6_endless` | `SendReturns` | after a redirect, `nd6_send_q` can put the same packet back for ever (`nd6.c:1875`) |

`Pbuf`, `Tunnel`, `TcpReceive_safety`, `Reass`, `Etharp`, `Nd6`, `Dhcp` and `Groups.cfg`
check one component alone, with the constants of the runs; what an MC module states in
one property is there in its parts.

## 4. Proofs

All of it holds for all values of the constants that satisfy the assumptions of the
modules (`ConstantsAssumption`, `ReceiveAssumption`, `SendAssumption`,
`TunnelAssumption`, `DhcpAssumption`, `GroupsAssumption`, `EtharpAssumption`,
`Nd6Assumption`, `UdpAssumption`, `NetifAssumption`, `ReassAssumption`) and what the last
column says besides. The assumptions only give the constants their types, order the
thresholds as `opt.h` and the C files do, and keep "no address" apart from the addresses.
`FreedSndBuf` is any set of Booleans. In `Neighbours_proofs` and `Ip_proofs`, `MCSpec` is the specification of the MC module, so
these theorems, too, are about the behaviours that the runs check.

| module | theorem | says | if |
|---|---|---|---|
| `ZPTCPConnection_proofs` | `TypeCorrect` | `Spec => []TypeOK` | |
| | `NoByteLost` | `Spec => []NothingLost` | |
| | `EofInOrder` | `Spec => []EofAfterAllData` | |
| | `WindowExact` | `Spec => []WindowAccounting` | `Garbage = {}` |
| | `QueuesAccounted` | `Spec => []SendAccounting` | |
| | `EndsReported` | `Spec => []EndsKnown` | |
| | `RequestsKept` | `Spec => RequestsRespected` | `Garbage = {}` |
| | `ServiceImplemented` | `Spec => ImplementsService` | |
| `TcpReceive_proofs` | `ReceivedHolds` | `Spec => []Received` | `FinAtEdge = FALSE` |
| | `EdgeIsKept` | `Spec => EdgeKept` | `FinAtEdge = FALSE` |
| | `OwedHolds` | `Spec => []Owed` | `FinAtEdge = FALSE`, `Prompt` |
| | `ImplementsCoreHolds` | `Spec => ImplementsCore` | `FinAtEdge = FALSE` |
| `TcpSend_proofs` | `StreamIsKept` | `Spec => []StreamKept` | `Regular` |
| | `SendingIsCounted` | `Spec => []SendAccounting` | `Regular` |
| | `QueuesAreSound` | `Spec => []QueuesSound` | `Regular` |
| | `WindowIsObeyed` | `Spec => []WindowObeyed` | `Regular` |
| `Tunnel_proofs` | `TunnelTypes` | `TunnelSpec => []TunnelTypeOK` | |
| | `LiveFound` | `TunnelSpec => []LiveIsFound` | |
| | `EndIsTold` | `TunnelSpec => []ToldOfEnd` | |
| | `SentTold` | `TunnelSpec => []SentIsTold` | |
| `Configuration_proofs` | `TypeHolds` | `DhcpSpec => []DhcpTypeOK` | |
| | `AddressIsOwned` | `DhcpSpec => []AddressOwned` | |
| | `LeaseIsWatched` | `DhcpSpec => []LeaseWatched` | `Servers` |
| | `UsedIsMember` | `Spec => []MemberWhileUsed` | |
| | `QueriesAnswered` | `Spec => []AnsweredInTime` | |
| `Neighbours_proofs` | `PacketsGoToLastHeard` | `MCSpec => []SentToLastHeard` | |
| | `NeighborCacheSound` | `MCSpec => []CacheSound` | |
| | `RouterPointersKept` | `MCSpec => RouterEntryKept` | |
| `Ip_proofs` | `UdpBlocksListed` | `MCSpec => []BlocksListed` | |
| | `UdpBlocksFound` | `MCSpec => BlocksFound` | |
| | `IpRoutesUsable` | `MCSpec => []RoutesUsable` | |
| | `DatagramsReassembled` | `MCSpec => []Reassembled` | |
| | `OldestGivenUp` | `MCSpec => OldestGiveWay` | |

A run or a configuration of section 3 shows what happens without each hypothesis but one,
`T1 < T2`. `Garbage` is what a read of freed memory may give: finding 1. `FinAtEdge` lets
the peer's FIN take the number behind the window: finding 2. `Prompt` is
`NagleMayHold = FALSE /\ AckMayFail = FALSE`: an ACK that is due goes out in the next
`tcp_output`, which `MCTcpReceive_delayedack` refutes for the code in general. `Regular`
is what section 3.5 shows to be needed of the sender's peer and application:
`MayShrink = FALSE` (the peer takes back no window it offered; `TcpSend_shrink`), a SYN
that offers two bytes or more (`TcpSend_synzero`), and writes shorter than 2^16
(`TcpSend_long`). `Servers` is `ServerNamed = TRUE /\ Endless = FALSE /\ T1 < T2`: for the
first two see `Dhcp_unnamed` and `Dhcp_endless`. That T1 is before T2, as servers give
them, is what the induction uses; TLC found nothing against the property without it in
small instances.

### 4.1 `ZPTCPConnection`

None of the properties is inductive. That the window is exact needs to know that no
data is refused outside `Live` states; that no byte is lost needs that `rcv_nxt`
has not passed the FIN while data is still accepted; that `lbb` keeps its type
needs that the FIN is queued once, hence that `Writable` states have none, hence
that a pending FIN belongs to a closed connection. `IInv` is the conjunction of these:

* `RxOK`: delivered and refused bytes do not exceed the stream; a FIN kept with
  refused data, and a reported one, is behind all of it;
* `TxOK`: the queues lie between `una` and `lbb`, and there is room for the FIN;
* `RxFull`, `RxWindow`: the two accounts, in `Live` states;
* refused data, the FIN and the close flags match the state.

The proof follows the structure of the model: one lemma per C function says that it
maps a record satisfying the invariant (`POK`) to another one. Within a handler the
parts tied to `state` can be broken for a moment (an acknowledgement moves the state
before the data is delivered); `Base` is what holds there too, and the lemmas on
ends (`FreePcbPOK`, `AbortPOK`) need only that.

`SInv` adds what the send half and the ends need (`Sound`): the two queues partition
`una..lbb-1` and the accounts follow from the cardinalities of its data; a closing state
has queued its FIN; in FIN_WAIT_2 and, unless a RST was sent, in TIME_WAIT everything is
acknowledged; a freed pcb has been reported, or was closed by the application and ended
gracefully or with a RST.

`RInv` adds `Asked`: a closed or not yet open connection keeps no refused data, and
nobody is told of an end before it. The four parts of `RequestsRespected` are about
steps, and a handler is several functions. `Step` relates the records before and after a
function: data is passed on only for a `canReadData` that it takes away, and never after
the close. It is transitive, so a handler keeps it if its functions do. `Quiet` is a
`Step` that does not close; only `tcp_close` and the part of the timer behind
`close_after_writing` are not quiet, and for these two it is shown that a RST is sent
only if something is unread, respectively that everything written is acknowledged (from
`SendOK`).

The refinement is a step simulation along the mapping of `Service`. `Shows` relates the
records before and after a function by what the application sees: the bytes read and the
request they answer, the end of the stream, what was written and what of it is reported,
the delegate, a RST. It is transitive like `Step`, and there is again one lemma per
function; `AckShows` is the one with content, the bytes reported are the data below
`lastack` and so grow and stay below what was written. `VInv` adds to `RInv` that no more
is reported than was written, also after the queues were purged, and that only an open
connection has a delegate, so that `write` and `readData` meet the service in "open" or
"closing". `Serve` then follows from `Shows`, `Step`, and what `Sound` and `Asked` say of
a freed pcb; `close` and `closeAfterWriting` are `Close`, `write(n)` is `Write(n)`,
`readData` is `ReadData`, and the rest stutters. No assumption on `Garbage` is needed: a
wrong credit in `zp_tcp_recv` changes the window and not what the application sees.

### 4.2 `TcpReceive`

Inductive together (`POK`) are: the window that the free bytes leave and the edge that
was announced; `Delivered`, what was read and what is refused are the stream up to `nxt`;
`Queue`, `ooseq` is ordered, without overlaps, behind `nxt` and within the edge, and each
of its bytes is that of its number; `EndKept`, the FIN takes its place in the account of
the window; a closed pcb has no `ooseq`. `FinAtEdge = FALSE` keeps what arrives, and so
`Queue`, within the edge.

There is a lemma for every C function again, from `tcp_oos_insert_segment` to
`tcp_input`; each is about one pcb of the *set* that a function may leave. The recursive
parts are functions over the natural numbers (how much of the queue is contiguous, what
a list of segments delivers), and what they compute is proved by induction over the
length of the queue. The induction theorems of the library have an operator as a
parameter and cannot be used here; `DataInduction` states induction for *sets* of numbers
(a set that has 0 and with `n` also `n + 1` has all of them), and a proof puts its claim
into `{n \in Nat : ...}`. The least and largest element that `Min` and `Max` promise come
from there too.

`Owed` is added to it (`Owing`). The refinement needs no more than `POK`: each function
leaves the counts alone or changes them the way `ZPTCPConnection` does (`CoreStep`), and
an `Input` is one abstract step with as many bytes as the segment and the queue behind it
bring in sequence.

### 4.3 `TcpSend`

`IInv` is one statement about the pcb for whatever was written, sent and lost. The queues,
`unacked` before `unsent`, are a `Chain` of segments: each has the bytes that belong to
its number and at most `MssLocal` of them, is the SYN exactly if its number is 0, and
begins where the one before it ends. The chain `Covers` the numbers from `lastack` to the
end of what was written, with the FIN; the account fields are the totals over it, and no
segment has a FIN before the close (`Content`). `Windowed` relates the windows to the edge the peer
has offered, and says that `cwnd` lets a whole segment out once the SYN is acknowledged;
`Oversize` that the room behind the last unsent segment is within `mss_local`; `Flight`
that what is unacked is timed and within the window. Why each part is needed: without the
bound on `snd_wnd` the fast retransmission could leave the head of the queue on `unsent`,
alone behind later segments, where a FIN can join it; and the assertion of `tcp_write`
needs that a segment is never longer than a later `mss_local`, which only grows because
`snd_wnd_max` does.

Within a step the order of the queues is broken once: a fast retransmission puts the
first segment back on `unsent` while later ones stay on `unacked`. `Mid` is the invariant
with the chain given separately, `Resent` the state between `tcp_rexmit` and the
`tcp_output` behind it, which puts the segment back to its place (`InsertAllReturns`),
because it fits into both windows and Nagle's algorithm does not hold it. So there is a
lemma for `tcp_output` (`SegmentsOK`, `OutputOK`) that starts in either form, and one for
each function before it: the window update, a new acknowledgement, which divides the
chain (`FreedDivided`, `NewAckOK`), a duplicate one, `tcp_rexmit_rto`, the probe, the FIN,
and `tcp_write`, which lengthens the last segment (`FillSome`) and cuts the rest into
pieces (`PiecesOK`, `QueuedOK`).

What insertion and the sums compute is proved first, by induction over the length of the
queue: segments that follow a queue are appended, one that precedes it is put in front,
and totals of joined queues add up. The theorems then read their property off `IInv`:
`WindowObeyed` needs that the head of `unsent`, when nothing is in flight, always fits
into `cwnd`, so that what does not fit waits for the peer's window and the persist timer.

### 4.4 `Tunnel`

The invariant of `LiveFound` is `TunnelTypeOK`, `LiveIsFound` and: a connection with a pcb has a
running timer (`TimerWatches`); the object the thread is about to insert is the newest,
and its key is not in the dictionary (`InsertsUnknown`); a key that waits to be removed
belongs to no connection with a pcb (`RemovesTheDead`). The last is what `dispatch_sync`
pays for: the look-up waits for the removals before it, so a key that is removed was found by it, and no new connection can have been made under it.

`EndIsTold` adds `Tells` for every connection: the end is known exactly when the pcb is
gone; once it is told, nothing else waits in the delegate queue for the object; and word
of the end is the last callback queued for it. This is a statement on positions in one
queue that all connections share, so the lemmas are about what `Append` and `Tail` do to
the positions of one connection's callbacks (`QueuedFor`).

`SentTold` needs the types only: what `didWriteData:` reads of a live pcb is true when it
is read, a write makes it FALSE on the other queue, and the callback whose block is taken
off the queue is the one that says so. Nothing is assumed of what a freed pcb reads as;
after the end of the pcb the property promises nothing, and nothing can be (finding 4).

### 4.5 `Dhcp` (`Configuration_proofs`)

A handler calls others (`dhcp_recv` an ACK, that `dhcp_check` or `dhcp_bind`, that
`autoip_stop`), and between two calls the state and the timers do not match. `Base` is
what holds there as well: the types that go with the state, AutoIP's address while it
is in use (`LinkLocalKept`), the reference count of the shared pcb (`Counted`). The lease is
watched because its three timers keep their order: T1 ends before T2, and while T1 has
not ended `used` and what is left of T2 add up to T2, so that REBINDING begins before the
lease ends, and RENEWING and REBINDING always have a timer that will leave them (`Leased`,
`Timed`). `Asked` ties the address to the ACK that was asked for. The parts on leases are
conditional on `Servers`; `AddressIsOwned` needs none of them.

### 4.6 `Groups` (`Configuration_proofs`)

The types, `MemberWhileUsed` and `AnsweredInTime` are inductive together: a timer is
shortened by a query and never put off, because `delaying_member` compares it with the
new delay, also when the link comes back; a join sets the timer only of a group that was
not in the list, where no answer is due.

### 4.7 `Etharp` (`Neighbours_proofs`)

`ArpOK` is about a state of the table with the frames a handler has sent so far: an empty
entry has no address, a resolved one has the address its owner last spoke from
(`ArpEntryOK`), a packet waits only in an entry for its next hop that is not resolved,
and no two entries have an address in common. `copies` is the number of entries with a
packet, so none is lost and none kept twice. A handler takes an entry for an address that
may be another's; between the choice (`etharp_find_entry`) and the entry's new contents
the table is sound but for that slot, which is what `ArpBut` says. That the cached index
is safe is a consequence and no part of the invariant: `Output` compares the address of
the entry the index names before it uses it.

### 4.8 `Nd6` (`Neighbours_proofs`)

`NdBase` holds always: entries without a state have no address and no packets, no address
has two entries, and the flag `isrouter` and the pointers of `default_router_list` match
one to one (`NdLinked`). The last is what protects an entry from being recycled, hence
`RouterEntryKept`. `NdFull` adds that a resolved entry has its owner's address and that
`copies` is the length of all queues, and holds as long as `sending = "ok"`, that is until
`nd6_send_q` has recycled the entry it is sending for. The property has the same condition,
because the code does: what happens behind that point is `Nd6_endless`. Within a handler,
`NdFull(s, x)` counts the `x` packets that are off a queue and not yet sent.

The sums over the table (`Queued`) change by what one entry changes (`DataInduction`), and
the loops over entries and queues are functions over the number of turns, with an
invariant for each.

### 4.9 `Udp` (`Ip_proofs`)

The invariant `UdpOK`: the list has exactly the blocks with a local port, each once, and a
block that is connected lives and is bound. The list operations (put in front, take out,
move to front) keep it. `udp_new_port` searches from the last port on, modulo the size
of the range; it finds a free port, if there is one, because each port is a candidate of
exactly this search (`UdpCandidates`). `UdpBlocksFound` is about steps: `Twins` are the
pairs of blocks with the same address and port, and every handler but the one for a new
address of the interface leaves their set alone or makes it smaller. `udp_input` moves only
a block that matches in full; it is connected, so it is not the unconnected one that a
datagram without a full match falls to, and the others stay in their order.

### 4.10 `Netif` (`Ip_proofs`)

`NetifInv`: `netif_list` has no interface twice, `netif_default` and the interfaces of
routers are on it, and the latter are up. `RoutedOverUsable` and `AnswerTaken` say of
every destination what the routing functions choose in a state; they follow from the
invariant by cases on the searches of `ip4_route`, `ip6_route` and
`ip6_select_source_address`.

### 4.11 `Reass` (`Ip_proofs`)

`RsInv`: no datagram is twice on the list, each has one to `Parts - 1` fragments, in
order and without an overlap (`RsChain`), the newest is first, so that what is left of their time falls
along the list, `last` is set exactly if the last fragment has come, and the count is the
number of fragments on the list and within the limit. With the timer, an entry's age
and what is left of its time add up to `IP_REASS_MAXAGE`.

The functions are followed as the code has them: find the place, put the fragment in,
check for holes, hand up; the loop that makes room (`FreeOldest`), the loop over expired
entries. A loop is again a function over its turns, with an invariant for a state in
which the datagram just enqueued may be empty (`RsGood(s, S)`: only the datagrams in `S`
may). `WholeIsHandedUp` is in `RsInv`: a list of `Parts` fragments is never kept. What is
handed up is `InOrder` by the check for holes (`RsComplete`): the fragments passed by on
the way were compared with each other, those behind the new one are compared with it and
with each other, and the list begins with the first part and ends with the last. One pair
of neighbours is left, the new fragment and the one before it. `OldestGivenUp` says that an entry that goes takes all that are
behind it along; each turn of the loop keeps that.

### 4.12 Model-checked only

* all liveness properties (`HandshakeEnds`, `ClosedIsForgotten`, `RefusedIsRead`,
  `WritingEnds`, `StreamArrives`, `NothingLingers`, `PendingEnds`, `ReportsEnd`): liveness
  under fairness, and `ENABLED`, are out of the prover's reach;
* `BuffersSound` (`Pbuf`): what a packet contains is a concatenation along pointers that
  is read by loops over bytes. TLC compares it with the plain bytes for all packets of
  the instance.

## 5. Not modelled

* *ICMP and ICMPv6* (`icmp.c`, `icmp6.c`): each message is answered by one packet or
  passed to ND6; no state.
* *Memory* (`mem.c`, `memp.c`): `MEM_LIBC_MALLOC` and `MEMP_MEM_MALLOC` make both thin
  layers over malloc. A failure is a choice of the models that allocate.
* *Checksums, byte order, addresses* (`inet_chksum.c`, `def.c`, `ip4_addr.c`,
  `ip6_addr.c`): pure functions; a packet with a wrong checksum is lost.
* *`timeouts.c`, `sys.c`*: `LWIP_TIMERS` is 0.
* *`init.c`, `stats.c`, the Xcode project*: no behaviour.
* In modelled files: option parsing and RTT estimation of TCP, sequence numbers that
  wrap, header checks of IP beyond "accepted or not", extension headers, duplicate
  address detection and prefix lists of ND6, options of DHCP, keepalive.

## 6. Plan

1. *Done:* `ZPTCPConnection` and `ZPTCPService`, with proofs of every safety property
   and of the refinement.
2. *Done:* `TcpReceive` with proofs of every safety property and of the refinement;
   `TcpSend` and `Tunnel`, also with proofs of every safety property.
3. *Done:* `Pbuf`, `Reass`, `Netif`, `Udp`, `Etharp`, `Nd6`; `Dhcp` and `Groups` with their
   proofs.
4. *Done:* proofs of every safety property of `Etharp`, `Nd6`, `Netif`, `Udp` and `Reass`.
5. Proofs about `Pbuf`: the counts first, then the bytes along a chain. Sequence numbers that wrap in `TcpReceive` and `TcpSend`; duplicate address detection
   in `Nd6`.
