-------------------------------- MODULE Nd6 --------------------------------
(***************************************************************************)
(* IPv6 neighbour discovery on one Ethernet interface: the caches of       *)
(* neighbours and destinations, the default routers, and the packets that  *)
(* wait for a link-layer address.  The interface has a valid address.      *)
(***************************************************************************)
EXTENDS Integers, Sequences, FiniteSets, FiniteSetsExt

CONSTANTS
    Hosts,                  \* addresses in the prefix of the link
    Routers,                \* link-local addresses of routers
    Remote,                 \* addresses beyond them
    LWIP_ND6_NUM_NEIGHBORS, LWIP_ND6_NUM_DESTINATIONS, LWIP_ND6_NUM_ROUTERS,
    LWIP_ND6_MAX_MULTICAST_SOLICIT,
    LWIP_ND6_REACHABLE_TIME, LWIP_ND6_DELAY_FIRST_PROBE_TIME,   \* in ticks of nd6_tmr
    MaxLifetime,            \* the lifetime a router announces, in ticks
    MEMP_NUM_ND6_QUEUE      \* the packets there is memory for

NoAddr == "::"

ASSUME Nd6Assumption ==
    /\ NoAddr \notin Hosts \cup Routers \cup Remote
    /\ {LWIP_ND6_NUM_NEIGHBORS, LWIP_ND6_NUM_DESTINATIONS, LWIP_ND6_NUM_ROUTERS, MaxLifetime,
        LWIP_ND6_MAX_MULTICAST_SOLICIT, LWIP_ND6_REACHABLE_TIME,
        LWIP_ND6_DELAY_FIRST_PROBE_TIME, MEMP_NUM_ND6_QUEUE} \subseteq Nat \ {0}

VARIABLES
    neighbor_cache, destination_cache, default_router_list,
    prefixed,               \* the prefix of the link is on prefix_list
    nd6_cached_index,       \* the neighbour and the destination used last
    copies,                 \* packets that are queued, or on their way from a queue
    right,                  \* every packet so far had the link-layer address of its next hop
    sending                 \* "ok", or what befell an entry whose queue was being sent:
                            \* "reused" for another address, or "endless"

vars == <<neighbor_cache, destination_cache, default_router_list, prefixed,
          nd6_cached_index, copies, right, sending>>

None == -1
Old == "old"                \* what a freed entry holds as its link-layer address
Neighbors == 0..(LWIP_ND6_NUM_NEIGHBORS - 1)
Destinations == 0..(LWIP_ND6_NUM_DESTINATIONS - 1)
RouterSlots == 0..(LWIP_ND6_NUM_ROUTERS - 1)
OnLink == Hosts \cup Routers

\* A node's link-layer address is written as its address; n is the counter's union.
Unused == [state |-> "NO_ENTRY", ip |-> NoAddr, ll |-> Old, isrouter |-> FALSE, n |-> 0, q |-> <<>>]

\* The state while a handler runs.
Now == [nc |-> neighbor_cache, dc |-> destination_cache, rl |-> default_router_list,
        pfx |-> prefixed, at |-> nd6_cached_index, copies |-> copies,
        right |-> right, sending |-> sending]

First(S) == IF S = {} THEN None ELSE Min(S)

-----------------------------------------------------------------------------
(* The neighbour cache                                                     *)

nd6_find_neighbor_cache_entry(s, ip) == First({i \in Neighbors : s.nc[i].ip = ip})

nd6_free_neighbor_cache_entry(s, i) ==
    IF s.nc[i].isrouter THEN s
    ELSE [s EXCEPT !.nc[i] = Unused, !.copies = @ - Len(s.nc[i].q)]

\* Mutant: an entry is taken whether it is a router's or not.
AnyIn(s, state) == {i \in Neighbors : s.nc[i].state = state}

HostsIn(s, state) == {i \in Neighbors : s.nc[i].state = state /\ ~s.nc[i].isrouter}

Vacated(s, i) ==
    [i |-> i, new |-> TRUE, s |-> IF i = None THEN s ELSE nd6_free_neighbor_cache_entry(s, i)]

FirstOf(choices) ==
    LET used == {k \in DOMAIN choices : choices[k] # {}}
    IN  IF used = {} THEN None ELSE Min(choices[Min(used)])

\* In this order: the first that is free, stale, probed or delayed, the one reachable for
\* the shortest time, the one asked for most often, and that with packets only at last.
nd6_new_neighbor_cache_entry(s) ==
    LET least(S) == {i \in S : \A j \in S : s.nc[i].n <= s.nc[j].n}
        last(S) == {i \in S : \A j \in S : s.nc[j].n < s.nc[i].n \/ (s.nc[j].n = s.nc[i].n /\ j <= i)}
        incomplete == HostsIn(s, "INCOMPLETE")
    IN  Vacated(s, FirstOf(<<HostsIn(s, "NO_ENTRY"), HostsIn(s, "STALE"), HostsIn(s, "PROBE"),
                             HostsIn(s, "DELAY"), least(HostsIn(s, "REACHABLE")),
                             last({i \in incomplete : s.nc[i].q = <<>>}), last(incomplete)>>))

\* The entry of an address, or a free one for it.
Entry(s, ip) ==
    IF \E i \in Neighbors : s.nc[i].ip = ip
    THEN [i |-> nd6_find_neighbor_cache_entry(s, ip), new |-> FALSE, s |-> s]
    ELSE nd6_new_neighbor_cache_entry(s)

\* An entry of the address, asked for on the link; nothing of it is known.
Resolving(s, i, ip) ==
    [s EXCEPT !.nc[i] = [Unused EXCEPT !.state = "INCOMPLETE", !.ip = ip, !.n = 1]]

Known(s, i, ip, state, n) ==
    [s EXCEPT !.nc[i].ip = ip, !.nc[i].ll = ip, !.nc[i].state = state, !.nc[i].n = n]
Delayed(s, i, ip) == Known(s, i, ip, "DELAY", LWIP_ND6_DELAY_FIRST_PROBE_TIME)
Reachable(s, i) == [s EXCEPT !.nc[i].state = "REACHABLE", !.nc[i].n = LWIP_ND6_REACHABLE_TIME]

-----------------------------------------------------------------------------
(* Routers and destinations                                                *)

\* Reachable ones first, then those whose lifetime runs, then any; last_router only counts.
nd6_select_router(s) ==
    LET listed == {k \in RouterSlots : s.rl[k].entry # None}
        valid == {k \in listed : s.rl[k].life > 0}
        reachable == {k \in valid : s.nc[s.rl[k].entry].state = "REACHABLE"}
    IN  First(IF reachable # {} THEN reachable ELSE IF valid # {} THEN valid ELSE listed)

nd6_get_router(s, ip) ==
    First({k \in RouterSlots : s.rl[k].entry # None /\ s.nc[s.rl[k].entry].ip = ip})

Listed(e, ip) ==
    LET t == IF e.new THEN Resolving(e.s, e.i, ip) ELSE e.s
        free == First({k \in RouterSlots : e.s.rl[k].entry = None})
    IN  IF e.i = None THEN [k |-> None, s |-> e.s]
        ELSE IF free = None THEN [k |-> None, s |-> [t EXCEPT !.nc[e.i].isrouter = FALSE]]
        ELSE [k |-> free, s |-> [t EXCEPT !.nc[e.i].isrouter = TRUE, !.rl[free].entry = e.i]]

\* A place on the list of routers, for a neighbour that is known or becomes so.
nd6_new_router(s, ip) == Listed(Entry(s, ip), ip)

nd6_find_destination_cache_entry(s, ip) == First({k \in Destinations : s.dc[k].dest = ip})

\* The comment says the oldest: it is the last that has aged at all.
nd6_new_destination_cache_entry(s) ==
    LET free == {k \in Destinations : s.dc[k].dest = NoAddr}
        aged == {k \in Destinations : s.dc[k].aged}
    IN  IF free # {} THEN Min(free) ELSE IF aged # {} THEN Max(aged) ELSE Max(Destinations)

nd6_is_prefix_in_netif(s, ip) == s.pfx /\ ip \in Hosts

\* The entry of the destination, made if there is none; ok is FALSE without a route.
Destination(s, ip) ==
    LET old == nd6_find_destination_cache_entry(s, ip)
        k == IF old # None THEN old ELSE nd6_new_destination_cache_entry(s)
        direct == ip \in Routers \/ nd6_is_prefix_in_netif(s, ip)
        r == nd6_select_router(s)
        t == [s EXCEPT !.at.d = k]
    IN  IF s.dc[s.at.d].dest = ip THEN [ok |-> TRUE, s |-> s]
        ELSE IF old # None THEN [ok |-> TRUE, s |-> t]
        ELSE IF direct
        THEN [ok |-> TRUE, s |-> [t EXCEPT !.dc[k].dest = ip, !.dc[k].hop = ip]]
        ELSE IF r = None
        THEN [ok |-> FALSE, s |-> [t EXCEPT !.dc[k].dest = NoAddr, !.dc[k].hop = NoAddr]]
        ELSE [ok |-> TRUE, s |-> [t EXCEPT !.dc[k].dest = ip, !.dc[k].hop = s.nc[s.rl[r].entry].ip]]

IsCached(s) == s.dc[s.at.d].hop = s.nc[s.at.n].ip

NextHop(d, e) ==
    LET t == IF e.new THEN Resolving(e.s, e.i, d.s.dc[d.s.at.d].hop) ELSE e.s
    IN  IF ~d.ok \/ e.i = None THEN [i |-> None, s |-> d.s]
        ELSE [i |-> e.i, s |-> [t EXCEPT !.at.n = e.i, !.dc[d.s.at.d].aged = FALSE]]

HopOf(d) ==
    NextHop(d, IF IsCached(d.s) THEN [i |-> d.s.at.n, new |-> FALSE, s |-> d.s]
               ELSE Entry(d.s, d.s.dc[d.s.at.d].hop))

\* The neighbour to send to, asked for if it is new.
nd6_get_next_hop_entry(s, ip) == HopOf(Destination(s, ip))

-----------------------------------------------------------------------------
(* Sending                                                                 *)

\* For want of memory the oldest of the same queue goes, else the packet itself.
nd6_queue_packet(s, i, dst) ==
    IF s.copies < MEMP_NUM_ND6_QUEUE
    THEN [s EXCEPT !.nc[i].q = Append(@, dst), !.copies = @ + 1]
    ELSE IF s.nc[i].q # <<>> THEN [s EXCEPT !.nc[i].q = Append(Tail(@), dst)]
    ELSE s

SendTo(hop, dst) ==
    LET i == hop.i
        t == hop.s
        u == IF t.nc[i].state # "STALE" THEN t
             ELSE [t EXCEPT !.nc[i].state = "DELAY", !.nc[i].n = LWIP_ND6_DELAY_FIRST_PROBE_TIME]
    IN  IF i = None THEN t
        ELSE IF t.nc[i].state = "INCOMPLETE" THEN nd6_queue_packet(t, i, dst)
        ELSE [u EXCEPT !.right = @ /\ t.nc[i].ll = t.dc[t.at.d].hop]

\* To its next hop, or on the queue of the neighbour; without a route it is lost.
ethip6_output(s, dst) == SendTo(nd6_get_next_hop_entry(s, dst), dst)

Emptied(s, t, i) ==
    [t EXCEPT !.sending = IF t.nc[i].q # <<>> THEN "endless"
                          ELSE IF t.nc[i].ip # s.nc[i].ip /\ @ = "ok" THEN "reused"
                          ELSE @]

\* Every packet is resolved again, which may take the entry for another address.  The
\* queue is empty after as many turns as it had packets, or it never is: what one turn
\* puts back on it the next takes off.
Turn(t, i) ==
    IF t.nc[i].q = <<>> THEN t
    ELSE [ethip6_output([t EXCEPT !.nc[i].q = Tail(@)], Head(t.nc[i].q)) EXCEPT !.copies = @ - 1]

nd6_send_q(s, i) ==
    LET turned[k \in 0..(MEMP_NUM_ND6_QUEUE + 1)] == IF k = 0 THEN s ELSE Turn(turned[k - 1], i)
    IN  Emptied(s, turned[MEMP_NUM_ND6_QUEUE + 1], i)

-----------------------------------------------------------------------------
(* Receiving                                                               *)

Becomes(after) ==
    \E s \in {after} :
        /\ neighbor_cache' = s.nc /\ destination_cache' = s.dc /\ default_router_list' = s.rl
        /\ prefixed' = s.pfx /\ nd6_cached_index' = s.at /\ copies' = s.copies
        /\ right' = s.right /\ sending' = s.sending

\* A neighbour advertisement with the sender's link-layer address.
NA(s, ip, override, multicast) ==
    LET i == nd6_find_neighbor_cache_entry(s, ip)
        learns == override \/ (~multicast /\ s.nc[i].state = "INCOMPLETE")
        t == IF learns THEN [s EXCEPT !.nc[i].ll = ip] ELSE s
    IN  IF i = None THEN s ELSE IF multicast THEN t ELSE nd6_send_q(Reachable(t, i), i)

Learnt(e, ip) ==
    IF e.new \/ e.s.nc[e.i].state = "INCOMPLETE" THEN Delayed(e.s, e.i, ip) ELSE e.s

Answer(e, ip) == IF e.i = None THEN e.s ELSE ethip6_output(Learnt(e, ip), ip)

\* A neighbour asks for our address: it is learnt, and answered.
NS(s, ip) == Answer(Entry(s, ip), ip)

Advertised(r, ip, life, ll, prefix) ==
    LET i == r.s.rl[r.k].entry
        t == [r.s EXCEPT !.rl[r.k].life = life, !.pfx = @ \/ prefix]
    IN  IF r.k = None THEN r.s
        ELSE IF ll /\ r.s.nc[i].state = "INCOMPLETE" THEN Reachable([t EXCEPT !.nc[i].ll = ip], i)
        ELSE t

\* A router advertisement, with or without the router's link-layer address and the prefix.
RA(s, ip, life, ll, prefix) ==
    Advertised(IF nd6_get_router(s, ip) # None THEN [k |-> nd6_get_router(s, ip), s |-> s]
               ELSE nd6_new_router(s, ip), ip, life, ll, prefix)

\* A redirect of a destination to a better next hop, with or without its link-layer address.
RD(s, dst, target, ll) ==
    LET k == nd6_find_destination_cache_entry(s, dst)
        t == [s EXCEPT !.dc[k].hop = target]
        told(e) == IF e.i = None THEN e.s ELSE Learnt(e, target)
    IN  IF k = None THEN s ELSE IF ll THEN told(Entry(t, target)) ELSE t

\* Mutant: a hint makes an unresolved neighbour reachable.
HintUnresolved(state) == state = "NO_ENTRY"

NoHint(state) == state \in {"INCOMPLETE", "NO_ENTRY"}

\* TCP has heard from the destination.
Hinted(s, ip) ==
    LET k == IF s.dc[s.at.d].dest = ip THEN s.at.d ELSE nd6_find_destination_cache_entry(s, ip)
        i == IF s.dc[k].hop = s.nc[s.at.n].ip THEN s.at.n ELSE nd6_find_neighbor_cache_entry(s, s.dc[k].hop)
    IN  IF k = None \/ i = None THEN s
        ELSE IF NoHint(s.nc[i].state) THEN s
        ELSE Reachable(s, i)

nd6_input ==
    \/ \E ip \in OnLink, override, multicast \in BOOLEAN : Becomes(NA(Now, ip, override, multicast))
    \/ \E ip \in OnLink : Becomes(NS(Now, ip))
    \/ \E ip \in Routers, life \in {0, MaxLifetime}, ll, prefix \in BOOLEAN :
          Becomes(RA(Now, ip, life, ll, prefix))
    \/ \E dst \in Hosts \cup Remote, ll \in BOOLEAN :
          \E target \in Routers \cup ({dst} \cap Hosts) : Becomes(RD(Now, dst, target, ll))

-----------------------------------------------------------------------------
(* The timer and the rest                                                  *)

\* The question goes to the group, which needs no neighbour, or to the neighbour itself.
Probed(s, i) ==
    LET t == [s EXCEPT !.nc[i].n = Min({@ + 1, LWIP_ND6_MAX_MULTICAST_SOLICIT})]
    IN  IF s.nc[i].state = "INCOMPLETE" THEN t ELSE ethip6_output(t, s.nc[i].ip)

\* One neighbour, one tick older.
Aged(s, i) ==
    LET e == s.nc[i]
        t == IF e.q # <<>> THEN nd6_send_q(s, i) ELSE s
    IN  CASE e.state \in {"INCOMPLETE", "PROBE"} ->
                IF e.n >= LWIP_ND6_MAX_MULTICAST_SOLICIT /\ ~e.isrouter
                THEN nd6_free_neighbor_cache_entry(s, i)
                ELSE Probed(s, i)
          [] e.state = "REACHABLE" ->
                IF t.nc[i].n <= 1 THEN [t EXCEPT !.nc[i].state = "STALE", !.nc[i].n = 0]
                ELSE [t EXCEPT !.nc[i].n = @ - 1]
          [] e.state = "DELAY" ->
                IF e.n <= 1 THEN [s EXCEPT !.nc[i].state = "PROBE", !.nc[i].n = 0]
                ELSE [s EXCEPT !.nc[i].n = @ - 1]
          [] OTHER -> s

OffList(s, k) == [s EXCEPT !.nc[s.rl[k].entry].isrouter = FALSE, !.rl[k] = [entry |-> None, life |-> 0]]

\* A router whose lifetime is over is a neighbour like others.
RouterAged(s, k) ==
    IF s.rl[k].entry = None THEN s
    ELSE IF s.rl[k].life <= 1 THEN OffList(s, k)
    ELSE [s EXCEPT !.rl[k].life = @ - 1]

Older(s) == [s EXCEPT !.dc = [k \in Destinations |-> [@[k] EXCEPT !.aged = TRUE]]]

\* The prefix may expire at any tick.
nd6_tmr ==
    LET aged[i \in 0..LWIP_ND6_NUM_NEIGHBORS] == IF i = 0 THEN Now ELSE Aged(aged[i - 1], i - 1)
        older == Older(aged[LWIP_ND6_NUM_NEIGHBORS])
        left[k \in 0..LWIP_ND6_NUM_ROUTERS] == IF k = 0 THEN older ELSE RouterAged(left[k - 1], k - 1)
    IN  \E pfx \in {prefixed, FALSE} : Becomes([left[LWIP_ND6_NUM_ROUTERS] EXCEPT !.pfx = pfx])

Output == \E dst \in OnLink \cup Remote : Becomes(ethip6_output(Now, dst))

nd6_reachability_hint == \E ip \in Hosts \cup Remote : Becomes(Hinted(Now, ip))

\* The interface goes away: the destinations stay.
nd6_cleanup_netif ==
    Becomes([Now EXCEPT !.pfx = FALSE, !.copies = 0, !.nc = [i \in Neighbors |-> Unused],
                        !.rl = [k \in RouterSlots |-> [@[k] EXCEPT !.entry = None]]])

Init ==
    /\ neighbor_cache = [i \in Neighbors |-> Unused]
    /\ destination_cache = [k \in Destinations |-> [dest |-> NoAddr, hop |-> NoAddr, aged |-> FALSE]]
    /\ default_router_list = [k \in RouterSlots |-> [entry |-> None, life |-> 0]]
    /\ prefixed = FALSE /\ nd6_cached_index = [n |-> 0, d |-> 0] /\ copies = 0
    /\ right = TRUE /\ sending = "ok"

\* What follows the loss of an entry is not described.
Next ==
    /\ sending = "ok"
    /\ \/ nd6_input \/ Output \/ nd6_reachability_hint \/ nd6_tmr \/ nd6_cleanup_netif

Spec == Init /\ [][Next]_vars

-----------------------------------------------------------------------------
(* Properties                                                              *)

\* A packet carries the link-layer address of its next hop, whether the cached indices,
\* the caches or a queue gave it, and whoever had the entry before.
RightNeighbor ==
    sending = "ok" =>
    /\ right
    /\ \A i \in Neighbors :
          neighbor_cache[i].state \notin {"NO_ENTRY", "INCOMPLETE"} => neighbor_cache[i].ll = neighbor_cache[i].ip

\* The list of routers points to neighbours that exist and know that they are routers,
\* to none twice, and no other neighbour is kept as one; no address has two entries.
RoutersLinked ==
    /\ \A k \in RouterSlots :
          LET e == default_router_list[k].entry
          IN  e # None => neighbor_cache[e].isrouter /\ neighbor_cache[e].state # "NO_ENTRY"
    /\ \A i \in Neighbors :
          Cardinality({k \in RouterSlots : default_router_list[k].entry = i})
              = IF neighbor_cache[i].isrouter THEN 1 ELSE 0
    /\ \A i, j \in Neighbors :
          i # j /\ neighbor_cache[i].ip = neighbor_cache[j].ip => neighbor_cache[i].state = "NO_ENTRY"

\* The packets that wait.
Queued(nc) ==
    LET waits == [i \in Neighbors |-> Len(nc[i].q)]
        sum[k \in 0..LWIP_ND6_NUM_NEIGHBORS] == IF k = 0 THEN 0 ELSE sum[k - 1] + waits[k - 1]
    IN  sum[LWIP_ND6_NUM_NEIGHBORS]

\* A packet is on one queue or freed, and one waits only where an answer is due
\* or has come.
QueuesAccounted ==
    sending = "ok" =>
    /\ copies = Queued(neighbor_cache)
    /\ \A i \in Neighbors : neighbor_cache[i].q # <<>> => neighbor_cache[i].state # "STALE"

\* As long as a router is on the list, its pointer means the same neighbour: an entry
\* another address needs is never a router's.
RouterEntryKept ==
    [][\A k \in RouterSlots :
         LET e == default_router_list[k].entry
         IN  e # None /\ default_router_list'[k].entry = e
             => neighbor_cache'[e].ip = neighbor_cache[e].ip]_vars

\* "Send queued packets for a neighbor" (nd6_send_q in nd6.c): it sends them and returns.
SendReturns == sending # "endless"
=============================================================================
