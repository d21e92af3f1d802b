-------------------------------- MODULE MCIp --------------------------------
(***************************************************************************)
(* Reassembly, interfaces with routing, and UDP, for TLC.  None of them    *)
(* reads the state of another, so a behaviour is one of the three, chosen  *)
(* in Init, and leaves the variables of the others alone.                  *)
(* Reassembly and the interfaces both run for IP version "ver".            *)
(***************************************************************************)
EXTENDS Udp, TLC

CONSTANTS x, y, n1, n2,
          Netifs, NoNetif, NoAddr, Ip4, Ip6, Hosts4, Hosts6, NumAddresses, Tcp, OddSources,
          Versions, Ids, Parts, IP_REASS_MAX_PBUFS, IP_REASS_MAXAGE, TimerCalls

VARIABLES part,         \* the component of this behaviour
          ver, netif_list, netif_default, nif, routers, leaked, aborted,
          timed, reassdatagrams, ip_reass_pbufcount, asserted, out

netifVars == <<netif_list, netif_default, nif, routers, leaked, aborted>>
reassVars == <<timed, reassdatagrams, ip_reass_pbufcount, asserted, out>>

N == INSTANCE Netif
R == INSTANCE Reass

ASSUME IpAssumption == N!NetifAssumption /\ R!ReassAssumption

\* The addresses of the instance: two hosts of the program in two networks.
MCNet == x :> n1 @@ y :> n2
A4(net, host) == [scope |-> "global", net |-> net, host |-> host]
A6(scope, net, host) == [scope |-> scope, net |-> net, host |-> host]
MCIp4 == {A4("A", "a"), A4("B", "b")}
MCHosts4 == {A4("A", "x"), A4("C", "y")}
MCIp6 == {A6("global", "A", "a"), A6("unique", "B", "b")}
MCHosts6 == {A6("global", "A", "x"), A6("global", "C", "y"), A6("unique", "B", "z"),
             A6("link", "fe80", "w"), A6("link", "multicast", "g")}
MCSymmetry == Permutations(Pcbs) \cup Permutations(Netifs)

MCInit == /\ part \in {"udp", "netif", "reass"}
          /\ Init /\ N!Init /\ R!Init
          /\ part = "udp" => ver = 4
          /\ part # "udp" => udp_port = 1 /\ addr = AnyIp
          /\ part # "reass" => timed = FALSE

MCNext == /\ UNCHANGED part
          /\ \/ /\ part = "udp" /\ Next
                /\ UNCHANGED <<ver, netifVars, reassVars>>
             \/ /\ part = "netif" /\ N!Next
                /\ UNCHANGED <<vars, reassVars>>
             \/ /\ part = "reass" /\ R!Next
                /\ UNCHANGED <<vars, netifVars>>

allVars == <<part, ver, vars, netifVars, reassVars>>
MCSpec == MCInit /\ [][MCNext]_allVars

-----------------------------------------------------------------------------
(* Properties                                                              *)

\* ip4_frag.c, ip6_frag.c: what goes up is one datagram in order, without a hole but
\* perhaps just before the fragment that came last; what is whole goes up, the pbufs
\* are counted and limited, and with the timer none gets too old.
Reassembled == part = "reass" =>
                 R!HandedUpInOrder /\ R!WholeIsHandedUp /\ R!PbufsCounted /\ R!NoneOutlivesTimer

\* A fragment never costs its own datagram what came before, and of the others the
\* oldest are given up first (ip_reass_remove_oldest_datagram).
OldestGiveWay == R!OldestGiveWay

\* udp.c: the list holds each block that has a port exactly once and no freed one,
\* and a bind to port 0 finds a free port whenever there is one.
BlocksListed == part = "udp" => ListIntact /\ AutomaticPortFree

\* udp.c: two blocks come to share an address and a port only by a change of the
\* interface's address, and moving a block to the front of the list changes nothing
\* about who gets a datagram that at most one block matches in full.
BlocksFound == OwnersApart /\ MovingKeepsReceivers

\* netif.c, ip4_route, ip6_route: neither the list, the default interface nor a
\* router's entry points at a removed interface, and a route leads over one that
\* is up with its link.  What is sent with the source that IP chooses can be
\* answered over the same interface, and has the destination's scope.
RoutesUsable == part = "netif" => N!NothingDangles /\ N!RoutedOverUsable /\ N!AnswerTaken

\* ip4_input and ip6_input hand every packet up or free it.
NothingLeaked == N!NothingLeaked
=============================================================================
