---------------------------- MODULE MCNeighbours ----------------------------
(***************************************************************************)
(* ARP and IPv6 neighbour discovery, for TLC.  An interface speaks both    *)
(* without either reading the state of the other, so a behaviour is one of *)
(* the two, chosen in Init, and leaves the variables of the other alone.   *)
(***************************************************************************)
EXTENDS Nd6

CONSTANTS ArpLink, ArpRemote, Gateway, HwAddrs, ARP_TABLE_SIZE, ARP_MAXAGE, ARP_MAXPENDING,
          ARP_AGE_REREQUEST_USED_UNICAST, ARP_AGE_REREQUEST_USED_BROADCAST

VARIABLES part,         \* the protocol of this behaviour
          arp_table, etharp_cached_entry, heard, arpRight, arpCopies, asserted

arpVars == <<arp_table, etharp_cached_entry, heard, arpRight, arpCopies, asserted>>

E == INSTANCE Etharp WITH OnLink <- ArpLink, Remote <- ArpRemote,
                            right <- arpRight, copies <- arpCopies

ASSUME ArpAssumption == E!EtharpAssumption

MCInit == part \in {"arp", "nd6"} /\ Init /\ E!Init

MCNext == /\ UNCHANGED part
          /\ \/ part = "nd6" /\ Next /\ UNCHANGED arpVars
             \/ part = "arp" /\ E!Next /\ UNCHANGED vars

\* etharp_tmr is called every second.
MCSpec == /\ MCInit /\ [][MCNext]_<<part, vars, arpVars>>
          /\ WF_arpVars(part = "arp" /\ E!etharp_tmr)

-----------------------------------------------------------------------------
(* Properties                                                              *)

\* etharp.c: a packet goes to the address its next hop last spoke from, whichever
\* index, entry or answer let it go; each address has one entry and each packet that
\* waits one copy, freed when it goes.
SentToLastHeard == E!SentToLastHeard /\ E!TableSound

\* etharp_tmr: no entry stays pending for ever, the answer comes or the entry goes;
\* and on the way one with a packet waiting is recycled only if every entry has one.
PendingEnds == E!PendingEnds /\ E!WaitingIsRecycledLast

\* nd6.c: a packet carries the link-layer address of its next hop, whoever had the
\* entry before; the list of routers and the neighbours that are routers match one
\* to one, no address has two entries, and each packet queued is on one queue.
CacheSound == RightNeighbor /\ RoutersLinked /\ QueuesAccounted
=============================================================================
