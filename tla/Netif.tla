-------------------------------- MODULE Netif --------------------------------
(***************************************************************************)
(* The interfaces (netif.c) and how IP uses them: the list, the default    *)
(* interface, their addresses; over which interface and from which source  *)
(* address IPv4 and IPv6 send (ip4.c, ip6.c), and which packets an         *)
(* interface takes in.  Forwarding and loopback are off in lwipopts.h.     *)
(*                                                                         *)
(* An address is a record of its scope, its network (the part netcmp       *)
(* compares) and its host.  A behaviour is about one IP version, chosen in *)
(* Init.  An address that is not removed or tentative is "valid", whether  *)
(* preferred or deprecated.  What IPv6 learns from routers is kept in      *)
(* nd6.c; here it is the set of interfaces it has a default router on.     *)
(***************************************************************************)
EXTENDS Integers, SequencesExt, FiniteSetsExt

CONSTANTS Netifs, NoNetif,
          NoAddr,         \* the address of all zeros
          Ip4, Ip6,       \* addresses interfaces are given
          Hosts4, Hosts6, \* hosts of others, those of IPv6 with multicast groups
          NumAddresses,   \* LWIP_IPV6_NUM_ADDRESSES
          Tcp,            \* LWIP_TCP, with the notification this fork left of it
          OddSources      \* whether sources IPv6 refuses come in

VARIABLES ver, netif_list, netif_default, nif,
          routers,        \* interfaces IPv6 has a default router on
          leaked,         \* a packet was neither handed up nor freed
          aborted         \* LWIP_ASSERT stopped the program

lists == <<netif_list, netif_default>>
ends == <<leaked, aborted>>
vars == <<ver, lists, nif, routers, ends>>

Slots == 0 .. NumAddresses - 1
LinkLocal(n) == [scope |-> "link", net |-> "fe80", host |-> n]
IsMulticast(a) == a # NoAddr /\ a.net = "multicast"
IsLinkLocal(a) == a # NoAddr /\ a.net = "fe80"

\* No interface has a group's address.  A network has one scope, since both are read
\* off the first bits of an address.
NetifAssumption ==
  /\ NoNetif \notin Netifs /\ NumAddresses \in Nat
  /\ \A a \in Ip4 \cup Ip6 : a.net # "multicast"
  /\ \A d \in Hosts4 : d # NoAddr /\ d.net # "multicast" /\ d.host # "broadcast"
  /\ \A d \in Hosts6 : /\ d # NoAddr /\ d.scope \in {"link", "unique", "global"}
                        /\ \A a \in Ip6 \cup {LinkLocal(n) : n \in Netifs} :
                             a.net = d.net => a.scope = d.scope

Free == [addr |-> NoAddr, state |-> "invalid"]
Cleared == [ip |-> NoAddr, gw |-> NoAddr, broadcast |-> FALSE, up |-> FALSE, link |-> FALSE,
            ip6 |-> [i \in Slots |-> Free]]

Listed == ToSet(netif_list)
Usable(n) == nif[n].up /\ nif[n].link
ValidAt(n) == {i \in Slots : nif[n].ip6[i].state = "valid"}
Addresses(n) == {nif[n].ip6[i].addr : i \in ValidAt(n)}
\* The interface of a set that comes first in the list.
FirstListed(ns) ==
  IF ns = {} THEN NoNetif
  ELSE netif_list[Min({i \in DOMAIN netif_list : netif_list[i] \in ns})]

-----------------------------------------------------------------------------
(* Sending.                                                                 *)

Default == IF netif_default # NoNetif /\ Usable(netif_default) THEN netif_default ELSE NoNetif

ip4_route(dest) ==
  LET on == {n \in Listed : /\ Usable(n) /\ nif[n].ip # NoAddr
                            /\ \/ nif[n].ip.net = dest.net
                               \/ ~nif[n].broadcast /\ nif[n].gw = dest}
  IN IF on # {} THEN FirstListed(on)
     ELSE IF Default # NoNetif /\ nif[Default].ip # NoAddr THEN Default ELSE NoNetif

\* found is what nd6_find_route knows.  A single interface is never compared.
ip6_route(src, dest, found) ==
  LET owner == {n \in Listed : Usable(n) /\ src \in Addresses(n)}
      near  == {n \in Listed : Usable(n) /\ \E a \in Addresses(n) : a.net = dest.net}
  IN CASE Len(netif_list) = 1 -> IF Usable(netif_list[1]) THEN netif_list[1] ELSE NoNetif
       [] Len(netif_list) # 1 /\ IsLinkLocal(dest) ->
            IF owner # {} THEN FirstListed(owner) ELSE Default
       [] OTHER -> IF near # {} THEN FirstListed(near)
                   ELSE IF found # NoNetif /\ Usable(found) THEN found
                   ELSE IF owner # {} THEN FirstListed(owner)
                   ELSE Default

\* The address of the first slot of a set; none of an empty one.
AddressAt(n, slots) == IF slots = {} THEN NoAddr ELSE nif[n].ip6[Min(slots)].addr

\* Mutant: an address that is still checked for duplicates is a source too.
SelectTentative(n, dest) ==
  AddressAt(n, {i \in Slots : /\ nif[n].ip6[i].state # "invalid"
                              /\ nif[n].ip6[i].addr.scope = dest.scope})

ip6_select_source_address(n, dest) ==
  LET ofScope == {i \in ValidAt(n) : nif[n].ip6[i].addr.scope = dest.scope}
      near    == {i \in ValidAt(n) : nif[n].ip6[i].addr.net = dest.net}
      best    == CASE dest.scope = "link"   -> ofScope
                   [] dest.scope = "unique" -> ofScope \cap near
                   [] dest.scope = "global" -> IF ofScope \cap near # {} THEN ofScope \cap near
                                               ELSE ofScope
  IN AddressAt(n, IF best # {} THEN best ELSE near)

\* The interface and the source of what a caller sends with no source address.
Sent(n, src) == [over |-> n, src |-> src]
ip4_output(dest) ==
  LET n == ip4_route(dest) IN Sent(n, IF n = NoNetif THEN NoAddr ELSE nif[n].ip)
ip6_output(dest, found) ==
  LET n == ip6_route(NoAddr, dest, found)
  IN Sent(n, IF n = NoNetif THEN NoAddr ELSE ip6_select_source_address(n, dest))

-----------------------------------------------------------------------------
(* Taking in.  A packet has its addresses, whether its headers are right,   *)
(* and, to a group, whether the interface is a member.                      *)

Broadcast(n) == [scope |-> "global", net |-> nif[n].ip.net, host |-> "broadcast"]

\* This fork takes every unicast packet for its own.
ip4_input(n, p) ==
  IF p.ok /\ ~IsMulticast(p.dest) /\ ~IsMulticast(p.src) /\ p.src # NoAddr
     /\ ~(nif[n].broadcast /\ nif[n].ip # NoAddr /\ p.src = Broadcast(n))
  THEN "up" ELSE "freed"

Takes(n, dest) == nif[n].up /\ dest \in Addresses(n)
\* From no address, a host only asks whether an address is taken.
Askable(p) == p.src # NoAddr \/ (IsMulticast(p.dest) /\ p.dest.host = "solicited node")
\* Sources that are groups, and IPv4 addresses mapped to IPv6, are refused.
ip6_input(n, p) ==
  LET ours == /\ Askable(p)
              /\ IF IsMulticast(p.dest) THEN p.member
                 ELSE \/ Takes(n, p.dest)
                      \/ ~IsLinkLocal(p.dest) /\ \E m \in Listed : Takes(m, p.dest)
  IN CASE ~p.ok -> "freed"
       [] p.ok /\ IsMulticast(p.src) -> "leaked"
       [] p.ok /\ ~IsMulticast(p.src) /\ ours -> "up"
       [] p.ok /\ ~IsMulticast(p.src) /\ ~ours -> "freed"

-----------------------------------------------------------------------------
Init == /\ ver \in {4, 6}
        /\ netif_list = <<>>
        /\ netif_default = NoNetif
        /\ nif = [n \in Netifs |-> Cleared]
        /\ routers = {}
        /\ leaked = FALSE
        /\ aborted = FALSE

\* What tcp_netif_ip_addr_changed is in this fork: an assertion that fails.
Notified(changed) == aborted' = (Tcp /\ changed) /\ UNCHANGED leaked

\* The driver's init sets the flags; when it fails the interface is not listed,
\* and what it holds is not read before the next netif_add clears it.
netif_add(n, ip, gw, broadcast, link, ok) ==
  /\ n \notin Listed
  /\ nif' = IF ok THEN [nif EXCEPT ![n] = [Cleared EXCEPT !.ip = ip, !.gw = gw,
                                              !.broadcast = broadcast, !.link = link]] ELSE nif
  /\ netif_list' = IF ok THEN <<n>> \o netif_list ELSE netif_list
  /\ Notified(ip # NoAddr)
  /\ UNCHANGED <<netif_default, routers>>

\* nd6_cleanup_netif, which netif_set_down calls on an interface that is up.
SetDown(n) == routers' = IF nif[n].up THEN routers \ {n} ELSE routers

netif_remove(n) ==
  /\ n \in Listed
  /\ SetDown(n)
  /\ netif_default' = IF netif_default = n THEN NoNetif ELSE netif_default
  /\ netif_list' = RemoveAt(netif_list, Min({i \in DOMAIN netif_list : netif_list[i] = n}))
  /\ nif' = [nif EXCEPT ![n] = Cleared]
  /\ Notified(nif[n].ip # NoAddr \/ ValidAt(n) # {})

netif_set_addr(n, ip, gw) ==
  /\ n \in Listed
  /\ nif' = [nif EXCEPT ![n].ip = ip, ![n].gw = gw]
  /\ Notified(nif[n].ip # ip)
  /\ UNCHANGED <<lists, routers>>

netif_set_default(n) == netif_default' = n /\ UNCHANGED <<netif_list, nif, routers, ends>>

netif_set_up(n) == /\ n \in Listed
                   /\ nif' = [nif EXCEPT ![n].up = TRUE]
                   /\ UNCHANGED <<lists, routers, ends>>

netif_set_down(n) == /\ n \in Listed
                     /\ nif' = [nif EXCEPT ![n].up = FALSE]
                     /\ SetDown(n)
                     /\ UNCHANGED <<lists, ends>>

netif_set_link(n, link) == /\ n \in Listed
                           /\ nif' = [nif EXCEPT ![n].link = link]
                           /\ UNCHANGED <<lists, routers, ends>>

\* By duplicate detection, lifetimes or the application, of a slot in use.
netif_ip6_addr_set_state(n, i, state) ==
  /\ n \in Listed
  /\ nif[n].ip6[i].addr # NoAddr
  /\ nif' = [nif EXCEPT ![n].ip6[i].state = state]
  /\ Notified(i \in ValidAt(n) /\ state # "valid")
  /\ UNCHANGED <<lists, routers>>

netif_ip6_addr_set(n, i, a) ==
  /\ n \in Listed
  /\ nif' = [nif EXCEPT ![n].ip6[i].addr = a]
  /\ Notified(i \in ValidAt(n) /\ nif[n].ip6[i].addr # a)
  /\ UNCHANGED <<lists, routers>>

\* The address becomes tentative in the first free slot but slot 0, unless it
\* is there already or no slot is free.
netif_add_ip6_address(n, a) ==
  /\ n \in Listed
  /\ LET has  == \E i \in Slots : nif[n].ip6[i].state # "invalid" /\ nif[n].ip6[i].addr = a
         free == {i \in Slots \ {0} : nif[n].ip6[i].state = "invalid"}
     IN nif' = IF has \/ free = {} THEN nif
               ELSE [nif EXCEPT ![n].ip6[Min(free)] = [addr |-> a, state |-> "tentative"]]
  /\ UNCHANGED <<lists, routers, ends>>

netif_create_ip6_linklocal_address(n) ==
  /\ n \in Listed
  /\ nif' = [nif EXCEPT ![n].ip6[0] = [addr |-> LinkLocal(n), state |-> "tentative"]]
  /\ Notified(0 \in ValidAt(n))
  /\ UNCHANGED <<lists, routers>>

\* Drivers hand in packets only while their interface is usable.
Input(n, p) ==
  /\ n \in Listed /\ Usable(n)
  /\ leaked' = (leaked \/ (IF ver = 4 THEN ip4_input(n, p) ELSE ip6_input(n, p)) = "leaked")
  /\ UNCHANGED <<lists, nif, routers, aborted>>

\* A router advertises itself, or its entry expires (nd6.c).
RouterChange(n) == /\ \/ n \in Listed /\ Usable(n) /\ routers' = routers \cup {n}
                      \/ n \in routers /\ routers' = routers \ {n}
                   /\ UNCHANGED <<lists, nif, ends>>

Packets(from, to) == [src : {a \in from : IsMulticast(a) => OddSources},
                      dest : to, ok : BOOLEAN, member : {FALSE}]

Common(n) == \/ netif_remove(n)
             \/ netif_set_default(n)
             \/ netif_set_up(n)
             \/ netif_set_down(n)
             \/ \E link \in BOOLEAN : netif_set_link(n, link)

Over4(n) == \E ip \in Ip4 \cup {NoAddr}, gw \in {NoAddr} \cup Hosts4 :
              \/ netif_set_addr(n, ip, gw)
              \/ gw # NoAddr /\ \E p \in Packets({gw}, {ip}) : Input(n, p)
              \/ \E broadcast, link, ok \in BOOLEAN : netif_add(n, ip, gw, broadcast, link, ok)

Over6(n) == \/ \E link, ok \in BOOLEAN : netif_add(n, NoAddr, NoAddr, FALSE, link, ok)
            \/ \E i \in Slots, state \in {"invalid", "tentative", "valid"} :
                 netif_ip6_addr_set_state(n, i, state)
            \/ \E i \in Slots \ {0}, a \in Ip6 : netif_ip6_addr_set(n, i, a)
            \/ \E a \in Ip6 : netif_add_ip6_address(n, a)
            \/ netif_create_ip6_linklocal_address(n)
            \/ RouterChange(n)
            \/ \E p \in Packets(Hosts6, Ip6) : Input(n, p)

Next == /\ ~aborted
        /\ UNCHANGED ver
        /\ \/ \E n \in Netifs : \/ n \in Listed /\ Common(n)
                                \/ ver = 4 /\ Over4(n)
                                \/ ver = 6 /\ Over6(n)
           \/ netif_set_default(NoNetif)

Spec == Init /\ [][Next]_vars

-----------------------------------------------------------------------------
(* Properties.                                                              *)

\* Nothing that routing follows points at an interface that was removed: the
\* list has each once, the default interface and those of IPv6's default routers
\* are in it.
NothingDangles == /\ \A i, j \in DOMAIN netif_list : netif_list[i] = netif_list[j] => i = j
                  /\ netif_default \in Listed \cup {NoNetif}
                  /\ routers \subseteq Listed

\* Whatever the sender asks for and whatever routers are known, a route leads over
\* an interface that is listed, up and has its link.
Found == routers \cup {NoNetif}
RoutedOverUsable ==
  IF ver = 4
  THEN \A d \in Hosts4 : LET n == ip4_route(d)
                         IN n = NoNetif \/ (n \in Listed /\ Usable(n) /\ nif[n].ip # NoAddr)
  ELSE \A d \in Hosts6, f \in Found, src \in {NoAddr} \cup UNION {Addresses(m) : m \in Listed} :
         LET n == ip6_route(src, d, f) IN n = NoNetif \/ (n \in Listed /\ Usable(n))

\* What is sent with the source IP chooses can be answered: the answer, coming in
\* over the same interface, is handed up.  And the source has the destination's
\* scope, so that whoever the packet reaches can reach the sender.
Answer(from, to) == [src |-> from, dest |-> to, ok |-> TRUE, member |-> FALSE]
AnswerTaken ==
  IF ver = 4
  THEN \A d \in Hosts4 : LET o == ip4_output(d)
                         IN o.over # NoNetif => ip4_input(o.over, Answer(d, o.src)) = "up"
  ELSE \A d \in Hosts6, f \in Found :
         LET o == ip6_output(d, f)
         IN o.src # NoAddr => /\ o.src.scope = d.scope
                              /\ IsMulticast(d) \/ ip6_input(o.over, Answer(d, o.src)) = "up"

\* Every packet that comes in is handed up or freed.  ip6_input returns at
\* ip6.c:459, for a source it refuses, without either.
NothingLeaked == ~leaked
=============================================================================
