-------------------------------- MODULE Dhcp --------------------------------
(***************************************************************************)
(* The address of an interface: the DHCP client, and AutoIP, which it      *)
(* starts when no server answers.  Messages of servers may be late or come *)
(* twice, memory may run out, the link may come back and another host may  *)
(* use the address.  One interface, which is up.                           *)
(***************************************************************************)
EXTENDS Integers, FiniteSets, FiniteSetsExt

CONSTANTS
    Ips, Any,               \* the addresses servers give; 0.0.0.0
    LinkLocals,             \* number of AutoIP's addresses
    LEASE, T1, T2,          \* a lease and its two times, in ticks of the coarse timer
    Endless,                \* may a lease be for ever?
    TriesMax,               \* 255
    RequestTries,           \* dhcp_timeout selects as long as tries <= 5
    REBOOT_TRIES, LWIP_DHCP_AUTOIP_COOP_TRIES, PROBE_NUM, ANNOUNCE_NUM,
    DHCP_DOES_ARP_CHECK,
    ServerNamed             \* does every offer have a server identifier?

Forever == -1               \* a t0 of 0xffffffff

ASSUME DhcpAssumption ==
    /\ Any \notin Ips /\ LinkLocals \in Nat \ {0}
    /\ (Ips \cup {Any}) \cap 0..(LinkLocals - 1) = {}
    /\ {LEASE, T1, T2} \subseteq Nat \ {0}
    /\ {TriesMax, RequestTries, REBOOT_TRIES, LWIP_DHCP_AUTOIP_COOP_TRIES} \subseteq Nat \ {0}
    /\ {PROBE_NUM, ANNOUNCE_NUM} \subseteq Nat
    /\ {DHCP_DOES_ARP_CHECK, ServerNamed, Endless} \subseteq BOOLEAN

VARIABLES
    dhcp,                   \* netif's struct dhcp
    autoip,                 \* netif's struct autoip
    ip_addr,                \* netif's address
    dhcp_pcb_refcount,
    moved,                  \* dhcp.c's static xid is no longer dhcp->xid
    asked,                  \* what servers were asked for under dhcp->xid, Any by a discovery
    asserted

dhcpVars == <<dhcp, autoip, ip_addr, moved, dhcp_pcb_refcount, asked, asserted>>

dhcp_state_enum == {"OFF", "REQUESTING", "REBOOTING", "REBINDING", "RENEWING",
                    "SELECTING", "CHECKING", "BOUND", "BACKING_OFF"}
autoip_state_enum == {"NULL", "OFF", "PROBING", "ANNOUNCING", "BOUND"}

LinkLocal == 0..(LinkLocals - 1)
NoLease == [t0 |-> 0, t1 |-> 0, t2 |-> 0]
Leases == [t0 : {LEASE} \cup (IF Endless THEN {Forever} ELSE {}), t1 : {T1}, t2 : {T2}]

\* armed: request_timeout > 0.  lease: the offered_* times.  coop: autoip_coop_state.
NoDhcp == [state |-> "OFF", tries |-> 0, armed |-> FALSE, offered |-> Any, lease |-> NoLease,
           t0 |-> 0, used |-> 0, t1r |-> 0, t2r |-> 0, t2 |-> 0,
           coop |-> FALSE, pcb |-> FALSE]

DhcpTypeOK ==
    /\ dhcp.state \in dhcp_state_enum /\ dhcp.tries \in 0..TriesMax
    /\ dhcp.offered \in Ips \cup {Any} /\ asked \subseteq Ips \cup LinkLocal \cup {Any}
    /\ autoip.state \in autoip_state_enum /\ autoip.tried \in LinkLocal
    /\ ip_addr \in Ips \cup LinkLocal \cup {Any} /\ dhcp_pcb_refcount \in Nat

-----------------------------------------------------------------------------
(* AutoIP: handlers take the state s to the state after.                   *)

Now == [d |-> dhcp, a |-> autoip, ip |-> ip_addr, moved |-> moved, refs |-> dhcp_pcb_refcount,
        asked |-> asked, ok |-> asserted]

autoip_start_probing(s) == [s EXCEPT !.a.state = "PROBING", !.a.sent = 0]

\* The address is that of the number of conflicts so far (autoip_create_addr).
autoip_start(s, oom) ==
    IF s.a.state = "NULL" /\ "autoip" \in oom THEN [s EXCEPT !.ip = Any]
    ELSE autoip_start_probing([s EXCEPT !.ip = Any, !.a.conflict = FALSE])

autoip_restart(s) ==
    autoip_start([s EXCEPT !.a.tried = (@ + 1) % LinkLocals], {})

\* Mutant: the address stays on the interface.
StopQuietly(s) == IF s.a.state = "NULL" THEN s ELSE [s EXCEPT !.a.state = "OFF"]

autoip_stop(s) ==
    IF s.a.state = "NULL" THEN s
    ELSE [s EXCEPT !.a.state = "OFF", !.ip = IF @ \in LinkLocal THEN Any ELSE @]

autoip_network_changed(s) ==
    IF s.a.state \in {"NULL", "OFF"} THEN s ELSE autoip_start_probing(s)

CoopOff(s) == IF s.d.coop THEN [autoip_stop(s) EXCEPT !.d.coop = FALSE] ELSE s

-----------------------------------------------------------------------------
(* The client                                                              *)

dhcp_set_state(s, new) ==
    IF s.d.state = new THEN s
    ELSE [s EXCEPT !.d.state = new, !.d.tries = 0, !.d.armed = FALSE]

\* Counted, and the timer set.
Tried(s) == [s EXCEPT !.d.tries = Min({@ + 1, TriesMax}), !.d.armed = TRUE]

\* A message other than REQUEST that is not a retry has a new number.
dhcp_create_msg(s, type, ip, oom) ==
    LET own == type = "REQUEST" \/ (s.d.tries # 0 /\ ~s.moved)
        old == IF own THEN s.asked ELSE {}
    IN  IF "msg" \in oom THEN s
        ELSE [s EXCEPT !.moved = type = "REQUEST" /\ @,
                       !.asked = IF type \in {"REQUEST", "DISCOVER"} THEN old \cup {ip} ELSE old]

Coop(s, oom) ==
    IF s.d.tries >= LWIP_DHCP_AUTOIP_COOP_TRIES /\ ~s.d.coop
    THEN autoip_start([s EXCEPT !.d.coop = TRUE], oom) ELSE s

dhcp_discover(s, oom) ==
    Coop(Tried(dhcp_create_msg(dhcp_set_state([s EXCEPT !.d.offered = Any], "SELECTING"),
                               "DISCOVER", Any, oom)), oom)

Ask(s, state, ip, oom) == Tried(dhcp_create_msg(dhcp_set_state(s, state), "REQUEST", ip, oom))

dhcp_select(s, oom) == Ask(s, "REQUESTING", s.d.offered, oom)
dhcp_renew(s, oom) == Ask(s, "RENEWING", s.ip, oom)
dhcp_rebind(s, oom) == Ask(s, "REBINDING", s.ip, oom)
dhcp_reboot(s, oom) == Ask(s, "REBOOTING", s.d.offered, oom)
dhcp_check(s) == Tried(dhcp_set_state(s, "CHECKING"))
dhcp_decline(s, oom) == Tried(dhcp_create_msg(dhcp_set_state(s, "BACKING_OFF"), "DECLINE", Any, oom))

\* Mutant: the time used of the lease before goes on.
BindUsed(s) ==
    LET l == s.d.lease
        t == CoopOff([s EXCEPT !.d.t0 = IF l.t0 = Forever THEN @ ELSE l.t0,
                               !.d.t1r = l.t1, !.d.t2r = l.t2, !.d.t2 = l.t2])
    IN  [dhcp_set_state(t, "BOUND") EXCEPT !.ip = s.d.offered]

dhcp_bind(s) ==
    LET l == s.d.lease
        t == CoopOff([s EXCEPT !.d.used = 0, !.d.t0 = IF l.t0 = Forever THEN @ ELSE l.t0,
                               !.d.t1r = l.t1, !.d.t2r = l.t2, !.d.t2 = l.t2])
    IN  [dhcp_set_state(t, "BOUND") EXCEPT !.ip = s.d.offered]

dhcp_supplied_address(s) == s.d.state \in {"BOUND", "RENEWING"}

dhcp_release(s, oom) ==
    LET t == dhcp_set_state([s EXCEPT !.d.offered = Any, !.d.lease = NoLease, !.d.t0 = 0,
                                      !.d.used = 0, !.d.t1r = 0, !.d.t2r = 0], "OFF")
    IN  IF ~dhcp_supplied_address(s) THEN t
        ELSE [dhcp_create_msg(t, "RELEASE", Any, oom) EXCEPT !.ip = Any]

dhcp_dec_pcb_refcount(s) == [s EXCEPT !.ok = @ /\ s.refs > 0, !.refs = @ - 1, !.d.pcb = FALSE]

dhcp_stop(s) ==
    LET t == dhcp_set_state(CoopOff(s), "OFF") IN IF t.d.pcb THEN dhcp_dec_pcb_refcount(t) ELSE t

\* Everything is forgotten, also that AutoIP was started.
dhcp_start(s, oom) ==
    LET t == IF s.d.pcb THEN dhcp_dec_pcb_refcount(s) ELSE s
        u == [t EXCEPT !.d = [NoDhcp EXCEPT !.pcb = TRUE], !.refs = @ + 1, !.asked = {}]
    IN  IF "pcb" \in oom THEN [t EXCEPT !.d = NoDhcp]
        ELSE IF "msg" \in oom THEN dhcp_stop(dhcp_discover(u, oom))
        ELSE dhcp_discover(u, oom)

dhcp_network_changed(s, oom) ==
    LET t == [s EXCEPT !.d.tries = 0]
    IN  CASE s.d.state \in {"REBINDING", "RENEWING", "BOUND", "REBOOTING"} -> dhcp_reboot(t, oom)
          [] s.d.state = "OFF" -> s
          [] OTHER -> dhcp_discover([CoopOff(s) EXCEPT !.d.tries = 0], oom)

-----------------------------------------------------------------------------
(* Answers                                                                 *)

\* What dhcp_parse_reply can find in a message: an answer to what was asked, or one
\* of another transaction, of this client or of any other.
Reply == [type : {"OFFER"}, ip : Ips, server : {TRUE, ServerNamed}]
         \cup [type : {"NAK"}] \cup [type : {"ACK"}, ip : Ips, lease : Leases]

Answers(r) == CASE r.type = "OFFER" -> Any \in asked
                [] r.type = "NAK" -> asked \ {Any} # {}
                [] r.type = "ACK" -> r.ip \in asked

\* Only an offer with a server identifier is taken up.
dhcp_handle_offer(s, r, oom) ==
    IF r.server THEN dhcp_select([s EXCEPT !.d.offered = r.ip], oom) ELSE s

dhcp_handle_nak(s, oom) ==
    dhcp_discover([dhcp_set_state(s, "BACKING_OFF") EXCEPT !.ip = Any], oom)

dhcp_handle_ack(s, r) == [s EXCEPT !.d.lease = r.lease, !.d.offered = r.ip]

Answered(s, r, oom) ==
    LET acked == dhcp_handle_ack(s, r)
        renewing == {"REBOOTING", "REBINDING", "RENEWING"}
    IN  CASE r.type = "ACK" /\ s.d.state = "REQUESTING" ->
               IF DHCP_DOES_ARP_CHECK THEN dhcp_check(acked) ELSE dhcp_bind(acked)
          [] r.type = "ACK" /\ s.d.state \in renewing -> dhcp_bind(acked)
          [] r.type = "NAK" /\ s.d.state \in renewing \cup {"REQUESTING"} -> dhcp_handle_nak(s, oom)
          [] r.type = "OFFER" /\ s.d.state = "SELECTING" ->
               dhcp_handle_offer([s EXCEPT !.d.armed = FALSE], r, oom)
          [] OTHER -> s

-----------------------------------------------------------------------------
(* Timers                                                                  *)

dhcp_timeout(s, oom) ==
    CASE s.d.state \in {"BACKING_OFF", "SELECTING"} -> dhcp_discover(s, oom)
      [] s.d.state = "REQUESTING" -> IF s.d.tries <= RequestTries THEN dhcp_select(s, oom)
                                     ELSE dhcp_discover(dhcp_release(s, oom), oom)
      [] s.d.state = "CHECKING" -> IF s.d.tries <= 1 THEN dhcp_check(s) ELSE dhcp_bind(s)
      [] s.d.state = "REBOOTING" -> IF s.d.tries < REBOOT_TRIES THEN dhcp_reboot(s, oom)
                                    ELSE dhcp_discover(s, oom)
      [] OTHER -> s

\* Half of what is left, if that is at least one tick.
Half(left, old) == IF left \div 2 >= 1 THEN left \div 2 ELSE old

dhcp_t1_timeout(s, oom) ==
    IF s.d.state \in {"REQUESTING", "BOUND", "RENEWING"}
    THEN LET t == dhcp_renew(s, oom) IN [t EXCEPT !.d.t1r = Half(t.d.t2 - t.d.used, @)]
    ELSE s

dhcp_t2_timeout(s, oom) ==
    IF s.d.state \in {"REQUESTING", "BOUND", "RENEWING", "REBINDING"}
    THEN LET t == dhcp_rebind(s, oom) IN [t EXCEPT !.d.t2r = Half(t.d.t0 - t.d.used, @)]
    ELSE s

Dec(n) == IF n = 0 THEN 0 ELSE n - 1

\* One tick of the lease: its end, else T2, else T1.  Each count runs until one ends.
CoarseTick(s, oom) ==
    LET t == IF s.d.t0 = 0 THEN s ELSE [s EXCEPT !.d.used = @ + 1]
        u == [t EXCEPT !.d.t2r = Dec(@)]
        v == [u EXCEPT !.d.t1r = Dec(@)]
    IN  IF t.d.t0 # 0 /\ t.d.used = t.d.t0 THEN dhcp_discover(dhcp_release(t, oom), oom)
        ELSE IF t.d.t2r = 1 THEN dhcp_t2_timeout(u, oom)
        ELSE IF u.d.t1r = 1 THEN dhcp_t1_timeout(v, oom)
        ELSE v

-----------------------------------------------------------------------------
(* Steps                                                                   *)

Becomes(after) ==
    \E s \in {after} :
        /\ dhcp' = s.d /\ autoip' = s.a /\ ip_addr' = s.ip /\ moved' = s.moved
        /\ dhcp_pcb_refcount' = s.refs /\ asked' = s.asked /\ asserted' = s.ok

Oom == SUBSET {"msg", "autoip"}

Start == \E oom \in SUBSET {"msg", "autoip", "pcb"} : Becomes(dhcp_start(Now, oom))
Stop == Becomes(dhcp_stop(Now))
Release == \E oom \in Oom : Becomes(dhcp_release(Now, oom))
Renew == dhcp.state \in {"BOUND", "RENEWING"} /\ \E oom \in Oom : Becomes(dhcp_renew(Now, oom))

\* A transaction of its own, under the next number, on the pcb that may be shared.
dhcp_inform == \E oom \in {FALSE, TRUE} : Becomes([Now EXCEPT !.moved = @ \/ ~oom])

\* A message with dhcp->xid answers what was asked, perhaps late or again; others are dropped.
dhcp_recv ==
    \E r \in Reply, oom \in Oom : dhcp.pcb /\ Answers(r) /\ Becomes(Answered(Now, r, oom))

\* request_timeout ends at any time.
dhcp_fine_tmr ==
    \E oom \in Oom : dhcp.armed /\ Becomes(dhcp_timeout([Now EXCEPT !.d.armed = FALSE], oom))

dhcp_coarse_tmr == \E oom \in Oom : dhcp.state # "OFF" /\ Becomes(CoarseTick(Now, oom))

dhcp_arp_reply == \E oom \in Oom : dhcp.state = "CHECKING" /\ Becomes(dhcp_decline(Now, oom))

LinkUp ==
    \E oom \in Oom : Becomes(autoip_network_changed(dhcp_network_changed(Now, oom)))

\* ttw, a choice here, has ended.
autoip_tmr ==
    LET s == Now
        sent == s.a.sent + 1
    IN  \/ /\ autoip.state = "PROBING" /\ autoip.sent < PROBE_NUM
           /\ Becomes([s EXCEPT !.a.sent = sent])
        \/ /\ autoip.state = "PROBING" /\ autoip.sent >= PROBE_NUM
           /\ Becomes([s EXCEPT !.a.state = "ANNOUNCING", !.a.sent = 1, !.ip = autoip.tried])
        \/ /\ autoip.state = "ANNOUNCING"
           /\ Becomes(IF sent < ANNOUNCE_NUM THEN [s EXCEPT !.a.sent = sent]
                      ELSE [s EXCEPT !.a.state = "BOUND", !.a.sent = 0])
        \/ autoip.conflict /\ Becomes([s EXCEPT !.a.conflict = FALSE])

\* Another host uses the address: it is given up while probing and at the second
\* conflict within DEFEND_INTERVAL, and defended at the first.
autoip_arp_reply ==
    /\ autoip.state \notin {"NULL", "OFF"}
    /\ Becomes(IF autoip.state = "PROBING" \/ autoip.conflict THEN autoip_restart(Now)
               ELSE [Now EXCEPT !.a.conflict = TRUE])

DhcpInit ==
    /\ dhcp = NoDhcp /\ ip_addr = Any /\ moved = FALSE /\ dhcp_pcb_refcount = 0
    /\ autoip = [state |-> "NULL", tried |-> 0, sent |-> 0, conflict |-> FALSE]
    /\ asked = {} /\ asserted = TRUE

DhcpNext ==
    \/ Start \/ Stop \/ Release \/ Renew \/ dhcp_inform \/ dhcp_recv
    \/ dhcp_fine_tmr \/ dhcp_coarse_tmr \/ dhcp_arp_reply
    \/ LinkUp \/ autoip_tmr \/ autoip_arp_reply

DhcpSpec == DhcpInit /\ [][DhcpNext]_dhcpVars

-----------------------------------------------------------------------------
(* Properties                                                              *)

\* The interface has the address that was asked for in the client's own transaction,
\* unless an AutoIP that dhcp_start forgot goes on behind it.
BoundAsAsked ==
    dhcp.state = "BOUND" /\ autoip.state \in {"NULL", "OFF"}
        => ip_addr = dhcp.offered /\ ip_addr \in asked

\* While an answer is waited for, the timer that gives up runs.
NegotiationTimed ==
    dhcp.state \in {"SELECTING", "REQUESTING", "CHECKING", "REBOOTING", "BACKING_OFF"} => dhcp.armed

\* A lease is asked for again when its first time has passed, and of any server when
\* its second has, both counted from the last ACK; by then it has not ended.
LeaseTimed ==
    /\ dhcp.state = "BOUND" => dhcp.used < dhcp.lease.t1
    /\ dhcp.state = "RENEWING" => dhcp.used < dhcp.lease.t2
    /\ dhcp.state \in {"BOUND", "RENEWING", "REBINDING"} /\ dhcp.lease.t0 # Forever
          => dhcp.t0 = dhcp.lease.t0 /\ dhcp.used < dhcp.t0

\* A link-local address is on the interface only while AutoIP watches over it, and
\* the client's pcb is counted once, while the client is on.
LinkLocalOwned ==
    /\ ip_addr \in LinkLocal => autoip.state \notin {"NULL", "OFF"} /\ ip_addr = autoip.tried
    /\ asserted /\ dhcp_pcb_refcount = IF dhcp.pcb THEN 1 ELSE 0
    /\ dhcp.state # "OFF" => dhcp.pcb

\* dhcp.c and autoip.c: a bound interface has an address it asked for, and a
\* link-local one only while AutoIP watches over it; the client's pcb is counted.
AddressOwned == BoundAsAsked /\ LinkLocalOwned

\* While the client waits for an answer, the timer that gives up runs; a lease is
\* asked for again when T1 and then T2 have passed, counted from the last ACK.
LeaseWatched == NegotiationTimed /\ LeaseTimed
=============================================================================
