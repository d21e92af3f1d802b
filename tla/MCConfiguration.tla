-------------------------- MODULE MCConfiguration --------------------------
(***************************************************************************)
(* What configures an interface, for TLC: the address that DHCP and AutoIP *)
(* give it, and the multicast groups it is a member of.  Neither reads the *)
(* state of the other, so a behaviour is one of the two, chosen in Init,   *)
(* and leaves the variables of the other alone.                            *)
(***************************************************************************)
EXTENDS Groups, Dhcp

VARIABLE part           \* what is configured in this behaviour

MCInit == /\ part \in {"address", "groups"} /\ Init /\ DhcpInit
          /\ part = "address" => ver = "igmp"

MCNext == /\ UNCHANGED part
          /\ \/ part = "groups" /\ Next /\ UNCHANGED dhcpVars
             \/ part = "address" /\ DhcpNext /\ UNCHANGED vars

\* The timers of the groups are called every 100 ms.
MCSpec == /\ MCInit /\ [][MCNext]_<<part, vars, dhcpVars>>
          /\ WF_vars(part = "groups" /\ igmp_tmr) /\ WF_vars(part = "groups" /\ mld6_tmr)
=============================================================================
