------------------------------- MODULE Etharp -------------------------------
(***************************************************************************)
(* Address resolution on an Ethernet interface: the table of neighbours,   *)
(* the packet that waits for an answer, the cached index, ageing and       *)
(* re-requesting.  One interface; no static entries, no ARP_QUEUEING.      *)
(***************************************************************************)
EXTENDS Integers, Sequences, FiniteSets, FiniteSetsExt

CONSTANTS
    OnLink,                 \* addresses of the interface's network
    Remote,                 \* addresses that are reached through the gateway
    Gateway,                \* the gateway's address, or NoAddr
    HwAddrs,                \* hardware addresses
    ARP_TABLE_SIZE, ARP_MAXAGE, ARP_MAXPENDING,
    ARP_AGE_REREQUEST_USED_UNICAST, ARP_AGE_REREQUEST_USED_BROADCAST

NoAddr == "0.0.0.0"
None == "none"

EtharpAssumption ==
    /\ Gateway \in OnLink \cup {NoAddr} /\ {NoAddr, None} \cap (OnLink \cup Remote) = {}
    /\ {ARP_TABLE_SIZE, ARP_MAXPENDING, ARP_MAXAGE} \subseteq Nat \ {0}
    /\ {ARP_AGE_REREQUEST_USED_UNICAST, ARP_AGE_REREQUEST_USED_BROADCAST} \subseteq Nat
    /\ ARP_MAXPENDING <= ARP_MAXAGE
    /\ ARP_AGE_REREQUEST_USED_UNICAST <= ARP_AGE_REREQUEST_USED_BROADCAST

VARIABLES
    arp_table,              \* the entries
    etharp_cached_entry,    \* the one used last
    heard,                  \* the hardware address each neighbour last spoke from
    right,                  \* every packet so far went where its next hop last spoke
    copies,                 \* packets copied for a queue and not freed
    asserted                \* the LWIP_ASSERTs held so far

vars == <<arp_table, etharp_cached_entry, heard, right, copies, asserted>>

Slots == 0..(ARP_TABLE_SIZE - 1)
Broadcast == "ff:ff:ff:ff:ff:ff"
Stable == {"STABLE", "STABLE_REREQUESTING_1", "STABLE_REREQUESTING_2"}
etharp_state == {"EMPTY", "PENDING"} \cup Stable

\* q: the destination of the packet that waits.
etharp_entry ==
    [state : etharp_state, ipaddr : OnLink \cup {NoAddr}, ethaddr : HwAddrs \cup {None},
     ctime : 0..ARP_MAXAGE, q : OnLink \cup Remote \cup {None}]

TypeOK ==
    /\ arp_table \in [Slots -> etharp_entry]
    /\ etharp_cached_entry \in Slots
    /\ heard \in [OnLink -> HwAddrs \cup {None}]
    /\ copies \in Nat /\ {asserted, right} \subseteq BOOLEAN

-----------------------------------------------------------------------------
(* The table                                                               *)

\* Every field of an empty entry is dead.
Empty == [state |-> "EMPTY", ipaddr |-> NoAddr, ethaddr |-> None, ctime |-> 0, q |-> None]

\* The state while a handler runs.
Now == [table |-> arp_table, cached |-> etharp_cached_entry, frames |-> <<>>,
        copies |-> copies, ok |-> asserted]

etharp_free_entry(s, i) ==
    [s EXCEPT !.table[i] = Empty, !.copies = IF s.table[i].q = None THEN @ ELSE @ - 1]

Found(s, ip) == {i \in Slots : s.table[i].state # "EMPTY" /\ s.table[i].ipaddr = ip}
Free(s) == {i \in Slots : s.table[i].state = "EMPTY"}

\* The oldest of some entries, the last of those equally old.
Oldest(s, among) ==
    Max({i \in among : \A j \in among : s.table[j].ctime <= s.table[i].ctime})

\* Stable entries go first, then those for which nothing waits.
Recyclable(s) ==
    LET stable == {i \in Slots : s.table[i].state \in Stable}
        idle == {i \in Slots : s.table[i].q = None}
    IN  IF stable # {} THEN stable ELSE IF idle # {} THEN idle ELSE Slots

Taken(s, i, ip) == [s EXCEPT !.table[i] = [Empty EXCEPT !.ipaddr = ip]]

\* The index of an entry for ip and the state after; -1 is ERR_MEM.
etharp_find_entry(s, ip, flags) ==
    LET old == Oldest(s, Recyclable(s))
        checked == [s EXCEPT !.ok = @ /\ (s.table[old].state \in Stable => s.table[old].q = None)]
    IN  IF Found(s, ip) # {} THEN [i |-> Min(Found(s, ip)), s |-> s]
        ELSE IF flags = "FIND_ONLY" THEN [i |-> -1, s |-> s]
        ELSE IF Free(s) # {} THEN [i |-> Min(Free(s)), s |-> Taken(s, Min(Free(s)), ip)]
        ELSE IF flags # "TRY_HARD" THEN [i |-> -1, s |-> s]
        ELSE [i |-> old, s |-> Taken(etharp_free_entry(checked, old), old, ip)]

-----------------------------------------------------------------------------
(* Sending                                                                 *)

Emit(s, f) == [s EXCEPT !.frames = Append(@, f)]
ethernet_output(s, dst, hw) == Emit(s, [type |-> "IP", dst |-> dst, hw |-> hw])
etharp_raw(s, op, ip, hw) == Emit(s, [type |-> op, dst |-> ip, hw |-> hw])
etharp_request(s, ip) == etharp_raw(s, "REQUEST", ip, Broadcast)

\* An entry that gets old and is used is asked for again, from its owner first.
\* Without memory ("oom") there is no request, and the state stays.
Rerequest(s, i, oom) ==
    LET e == s.table[i]
        hw == IF e.ctime >= ARP_AGE_REREQUEST_USED_BROADCAST THEN Broadcast ELSE e.ethaddr
    IN  IF e.state = "STABLE" /\ e.ctime >= ARP_AGE_REREQUEST_USED_UNICAST /\ ~oom
        THEN [etharp_raw(s, "REQUEST", e.ipaddr, hw) EXCEPT !.table[i].state = "STABLE_REREQUESTING_1"]
        ELSE s

etharp_output_to_arp_index(s, dst, i, oom) ==
    ethernet_output([Rerequest(s, i, oom) EXCEPT !.ok = @ /\ s.table[i].state \in Stable],
                    dst, s.table[i].ethaddr)

\* A packet for dst waits for the answer of ip; the one that waited before is freed.
Enqueue(s, i, dst, oom) ==
    IF oom THEN s
    ELSE [s EXCEPT !.table[i].q = dst, !.copies = IF s.table[i].q = None THEN @ + 1 ELSE @]

etharp_query(s, ip, dst, oom) ==
    LET found == etharp_find_entry(s, ip, "TRY_HARD")
        i == found.i
        t == found.s
        new == t.table[i].state = "EMPTY"
        u == IF new THEN [t EXCEPT !.table[i].state = "PENDING"] ELSE t
        v == IF new /\ ~oom THEN etharp_request(u, ip) ELSE u
    IN  IF v.table[i].state \in Stable
        THEN ethernet_output([v EXCEPT !.cached = i], dst, v.table[i].ethaddr)
        ELSE Enqueue(v, i, dst, oom)

Hop(dst) == IF dst \in OnLink THEN dst ELSE Gateway

\* Mutant: the cached index is used without looking at its address.
CachedUnchecked(s, ip) == s.table[s.cached].state \in Stable

\* The cached entry is the one for ip, and resolved.
Cached(s, ip) == s.table[s.cached].state \in Stable /\ s.table[s.cached].ipaddr = ip

\* The cached entry, else any that is resolved, else ask.
etharp_output(s, dst, oom) ==
    LET ip == Hop(dst)
        stable == {i \in Found(s, ip) : s.table[i].state \in Stable}
    IN  IF ip = NoAddr THEN s                                       \* ERR_RTE
        ELSE IF Cached(s, ip) THEN etharp_output_to_arp_index(s, dst, s.cached, oom)
        ELSE IF stable # {}
        THEN etharp_output_to_arp_index([s EXCEPT !.cached = Min(stable)], dst, Min(stable), oom)
        ELSE etharp_query(s, ip, dst, oom)

-----------------------------------------------------------------------------
(* Receiving                                                               *)

\* The entry is stable and fresh, and the packet that waited goes.
etharp_update_arp_entry(s, ip, hw, flags) ==
    LET found == etharp_find_entry(s, ip, flags)
        i == found.i
        q == found.s.table[i].q
        t == [found.s EXCEPT !.table[i] = [state |-> "STABLE", ipaddr |-> ip, ethaddr |-> hw,
                                           ctime |-> 0, q |-> None]]
    IN  IF i = -1 THEN found.s
        ELSE IF q = None THEN t
        ELSE [ethernet_output(t, q, hw) EXCEPT !.copies = @ - 1]

\* The handler's outcome, and what was heard by then.
Becomes(after, known) ==
    \E s \in {after} :
        /\ arp_table' = s.table /\ etharp_cached_entry' = s.cached
        /\ copies' = s.copies /\ asserted' = s.ok
        /\ heard' = known
        /\ right' = (right /\ \A k \in DOMAIN s.frames :
                        s.frames[k].type = "IP" => s.frames[k].hw = known[Hop(s.frames[k].dst)])

\* A request or an answer from ip at hw, to the interface or to someone else.
etharp_input ==
    \E ip \in OnLink, hw \in HwAddrs, for_us \in BOOLEAN, request \in BOOLEAN :
        \E s \in {etharp_update_arp_entry(Now, ip, hw, IF for_us THEN "TRY_HARD" ELSE "FIND_ONLY")} :
            Becomes(IF for_us /\ request THEN etharp_raw(s, "REPLY", ip, hw) ELSE s,
                    [heard EXCEPT ![ip] = hw])

Output ==
    \E dst \in OnLink \cup Remote, oom \in BOOLEAN : Becomes(etharp_output(Now, dst, oom), heard)

\* Someone asks for an address without a packet: etharp_query with q == NULL.
Query ==
    \E ip \in OnLink :
        \E found \in {etharp_find_entry(Now, ip, "TRY_HARD")} :
            Becomes(etharp_request(IF found.s.table[found.i].state = "EMPTY"
                                   THEN [found.s EXCEPT !.table[found.i].state = "PENDING"]
                                   ELSE found.s, ip), heard)

\* Mutant: an entry that waits for an answer does not age.
AgedStable(s, i) ==
    LET t == [s EXCEPT !.table[i].ctime = @ + 1]
    IN  IF s.table[i].state \notin Stable THEN s
        ELSE IF t.table[i].ctime >= ARP_MAXAGE THEN etharp_free_entry(t, i)
        ELSE [t EXCEPT !.table[i].state = "STABLE"]

\* One entry, one second older.
Aged(s, i) ==
    LET e == [s.table[i] EXCEPT !.ctime = @ + 1]
        t == [s EXCEPT !.table[i] = e]
    IN  IF e.state = "EMPTY" THEN s
        ELSE IF e.ctime >= (IF e.state = "PENDING" THEN ARP_MAXPENDING ELSE ARP_MAXAGE)
        THEN etharp_free_entry(t, i)
        ELSE CASE e.state = "STABLE_REREQUESTING_1" -> [t EXCEPT !.table[i].state = "STABLE_REREQUESTING_2"]
               [] e.state = "STABLE_REREQUESTING_2" -> [t EXCEPT !.table[i].state = "STABLE"]
               [] e.state = "PENDING" -> etharp_request(t, e.ipaddr)
               [] OTHER -> t

etharp_tmr ==
    LET aged[n \in 0..ARP_TABLE_SIZE] == IF n = 0 THEN Now ELSE Aged(aged[n - 1], n - 1)
    IN  Becomes(aged[ARP_TABLE_SIZE], heard)

\* The interface goes down.
etharp_cleanup_netif ==
    LET freed[n \in 0..ARP_TABLE_SIZE] ==
            IF n = 0 THEN Now
            ELSE IF freed[n - 1].table[n - 1].state = "EMPTY" THEN freed[n - 1]
            ELSE etharp_free_entry(freed[n - 1], n - 1)
    IN  Becomes(freed[ARP_TABLE_SIZE], heard)

Init ==
    /\ arp_table = [i \in Slots |-> Empty] /\ etharp_cached_entry = 0
    /\ heard = [ip \in OnLink |-> None]
    /\ right = TRUE /\ copies = 0 /\ asserted = TRUE

Next == etharp_input \/ Output \/ Query \/ etharp_tmr \/ etharp_cleanup_netif

\* The timer is called every second.
Spec == Init /\ [][Next]_vars /\ WF_vars(etharp_tmr)

-----------------------------------------------------------------------------
(* Properties                                                              *)

\* A packet goes to the address from which its next hop last spoke, whether the
\* cached index, the table or an answer let it go, and whatever the table dropped.
SentToLastHeard ==
    /\ right
    /\ \A i \in Slots : arp_table[i].state \in Stable => arp_table[i].ethaddr = heard[arp_table[i].ipaddr]

\* One entry for an address, and a copy of a packet for every one that waits and for
\* no other; only what is not resolved has one waiting.
TableSound ==
    /\ asserted
    /\ copies = Cardinality({i \in Slots : arp_table[i].q # None})
    /\ \A i, j \in Slots :
          /\ arp_table[i].q # None => arp_table[i].state = "PENDING"
          /\ i # j /\ arp_table[i].state # "EMPTY" => arp_table[i].ipaddr # arp_table[j].ipaddr

\* A packet that waits is given up for another address only if all entries have one.
WaitingIsRecycledLast ==
    [][\A i \in Slots :
         LET e == arp_table[i]
             f == arp_table'[i]
         IN  e.q # None /\ f.state # "EMPTY" /\ f.ipaddr # e.ipaddr
             => \A j \in Slots : arp_table[j].q # None]_vars

\* No one waits for ever: the answer comes or the entry goes.
PendingEnds ==
    \A ip \in OnLink :
        (\E i \in Slots : arp_table[i].state = "PENDING" /\ arp_table[i].ipaddr = ip)
            ~> ~(\E i \in Slots : arp_table[i].state = "PENDING" /\ arp_table[i].ipaddr = ip)
=============================================================================
