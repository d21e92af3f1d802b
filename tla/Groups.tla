------------------------------- MODULE Groups -------------------------------
(***************************************************************************)
(* The multicast groups of an interface: how applications join and leave   *)
(* them, and how routers' queries are answered, in IGMP and in MLD.        *)
(***************************************************************************)
EXTENDS Integers, FiniteSets, FiniteSetsExt

CONSTANTS
    Group,                  \* addresses of groups
    Unreported,             \* MLD: interface-local ones and all nodes of the link
    MaxResp,                \* response times of queries, in ticks
    JOIN_DELAYING_MEMBER_TMR, V1_DELAYING_MEMBER_TMR,
    UsesMax                 \* the applications that join a group; use is a u8_t

ASSUME GroupsAssumption ==
    /\ MaxResp \subseteq Nat /\ {JOIN_DELAYING_MEMBER_TMR, V1_DELAYING_MEMBER_TMR} \subseteq Nat \ {0}
    /\ Unreported \subseteq Group /\ UsesMax \in 1..255

VARIABLES
    ver,                    \* "igmp" or "mld"
    up,                     \* the interface is in netif_list
    allsystems,             \* IGMP's first group is there
    group,                  \* the list, as a function: NON_MEMBER is not in it
    filter,                 \* the groups the driver lets through
    users,                  \* joined and not yet left
    due                     \* ticks left to answer a query, 0 if there is none

vars == <<ver, up, allsystems, group, filter, users, due>>

NonMember == [state |-> "NON_MEMBER", timer |-> 0, last |-> FALSE, use |-> 0]
Timers == 0..Max(MaxResp \cup {JOIN_DELAYING_MEMBER_TMR, V1_DELAYING_MEMBER_TMR})

TypeOK ==
    /\ ver \in {"igmp", "mld"} /\ {up, allsystems} \subseteq BOOLEAN
    /\ group \in [Group -> [state : {"NON_MEMBER", "DELAYING_MEMBER", "IDLE_MEMBER"},
                            timer : Timers, last : BOOLEAN, use : 0..UsesMax]]
    /\ filter \subseteq Group /\ users \in [Group -> 0..UsesMax] /\ due \in [Group -> Timers]

lookfor_group(g) == group[g].state # "NON_MEMBER"

\* There is no LWIP_RAND.
igmp_start_timer(e, max) == [e EXCEPT !.timer = Max({1, max \div 2}), !.state = "DELAYING_MEMBER"]
mld6_start_timer(e, max) == [e EXCEPT !.timer = Max({1, max}), !.state = "DELAYING_MEMBER"]
start_timer(e, max) == IF ver = "igmp" THEN igmp_start_timer(e, max) ELSE mld6_start_timer(e, max)

\* Mutant: a report that is due later stays so.
NeverSooner(e, max) == IF e.state = "IDLE_MEMBER" THEN start_timer(e, max) ELSE e

\* A report that waits is brought forward, never put off.
delaying_member(e, max) ==
    IF e.state = "IDLE_MEMBER" \/ (e.state = "DELAYING_MEMBER" /\ (e.timer = 0 \/ max < e.timer))
    THEN start_timer(e, max) ELSE e

\* Without memory no report is sent, and the other's report stands.
send_report(e, oom) == IF oom THEN e ELSE [e EXCEPT !.last = TRUE]

\* netif_add: for IGMP with the group of all systems.
igmp_start ==
    /\ ~up /\ up' = TRUE
    /\ allsystems' = (ver = "igmp")
    /\ UNCHANGED <<ver, group, filter, users, due>>

\* netif_remove: the memberships of its applications end.
stop ==
    /\ up /\ up' = FALSE /\ allsystems' = FALSE
    /\ group' = [g \in Group |-> NonMember] /\ filter' = {}
    /\ users' = [g \in Group |-> 0] /\ due' = [g \in Group |-> 0]
    /\ UNCHANGED ver

\* The first one reports at once and again after a delay.
FirstJoins(g, oom) ==
    LET new == send_report([NonMember EXCEPT !.state = "IDLE_MEMBER", !.use = 1], oom)
    IN  /\ group' = [group EXCEPT ![g] = start_timer(new, JOIN_DELAYING_MEMBER_TMR)]
        /\ filter' = filter \cup {g}

joingroup_netif(g) ==
    /\ up /\ users[g] < UsesMax
    /\ IF lookfor_group(g) THEN group' = [group EXCEPT ![g].use = @ + 1] /\ UNCHANGED filter
       ELSE \E oom \in BOOLEAN : FirstJoins(g, oom)
    /\ users' = [users EXCEPT ![g] = @ + 1]
    /\ UNCHANGED <<ver, up, allsystems, due>>

igmp_joingroup_netif(g) == ver = "igmp" /\ joingroup_netif(g)
mld6_joingroup_netif(g) == ver = "mld" /\ joingroup_netif(g)

\* Mutant: the last but one takes the group away.
LeaveEarly(g) ==
    IF group[g].use <= 2
    THEN group' = [group EXCEPT ![g] = NonMember] /\ filter' = filter \ {g}
    ELSE group' = [group EXCEPT ![g].use = @ - 1] /\ UNCHANGED filter

leavegroup(g) ==
    IF group[g].use <= 1
    THEN group' = [group EXCEPT ![g] = NonMember] /\ filter' = filter \ {g}
    ELSE group' = [group EXCEPT ![g].use = @ - 1] /\ UNCHANGED filter

leavegroup_netif(g) ==
    /\ up /\ users[g] > 0
    /\ leavegroup(g)
    /\ users' = [users EXCEPT ![g] = @ - 1]
    /\ due' = [due EXCEPT ![g] = IF group'[g].state = "NON_MEMBER" THEN 0 ELSE @]
    /\ UNCHANGED <<ver, up, allsystems>>

igmp_leavegroup_netif(g) == ver = "igmp" /\ leavegroup_netif(g)
mld6_leavegroup_netif(g) == ver = "mld" /\ leavegroup_netif(g)

\* A query for some of the groups: each is to be answered within max.
Asked(which, max) ==
    LET asked == {g \in which : lookfor_group(g)}
        within == Max({1, max})
    IN  /\ group' = [g \in Group |-> IF g \in asked THEN delaying_member(group[g], max) ELSE group[g]]
        /\ due' = [g \in Group |-> IF g \notin asked THEN due[g]
                                   ELSE IF due[g] = 0 THEN within ELSE Min({due[g], within})]
        /\ UNCHANGED <<ver, up, allsystems, filter, users>>

\* Another member answers first.
Reported(g) ==
    /\ group[g].state = "DELAYING_MEMBER"
    /\ group' = [group EXCEPT ![g].state = "IDLE_MEMBER", ![g].timer = 0, ![g].last = FALSE]
    /\ due' = [due EXCEPT ![g] = 0]
    /\ UNCHANGED <<ver, up, allsystems, filter, users>>

\* A general query of IGMPv1 has no response time.  Queries go to the group of all systems.
igmp_input ==
    /\ ver = "igmp" /\ allsystems
    /\ \/ \E max \in MaxResp :
             \/ Asked(Group, IF max = 0 THEN V1_DELAYING_MEMBER_TMR ELSE max)
             \/ \E g \in Group : Asked({g}, max)
       \/ \E g \in Group : Reported(g)

\* max is the time as the code reads it: it is not converted from network order.
\* A general query leaves some groups out, one for such a group does not.
mld6_input ==
    /\ ver = "mld"
    /\ \/ \E max \in MaxResp :
             Asked(Group \ Unreported, max) \/ \E g \in Group : Asked({g}, max)
       \/ \E g \in Group : Reported(g)

\* The interface or its link comes up, or its address changes.
report_groups ==
    /\ group' = [g \in Group |-> delaying_member(group[g], JOIN_DELAYING_MEMBER_TMR)]
    /\ UNCHANGED <<ver, up, allsystems, filter, users, due>>

\* Mutant: the report is sent, and the member goes on delaying.
TimeoutQuietly(e, oom) == send_report(e, oom)

timeout(e, oom) ==
    IF e.state = "DELAYING_MEMBER" THEN send_report([e EXCEPT !.state = "IDLE_MEMBER"], oom) ELSE e

tmr(oom) ==
    /\ group' = [g \in Group |->
           LET e == [group[g] EXCEPT !.timer = IF @ = 0 THEN 0 ELSE @ - 1]
           IN  IF group[g].timer = 1 THEN timeout(e, g \in oom) ELSE e]
    /\ due' = [g \in Group |-> IF due[g] = 0 \/ group[g].timer = 1 THEN 0 ELSE due[g] - 1]
    /\ UNCHANGED <<ver, up, allsystems, filter, users>>

igmp_tmr == ver = "igmp" /\ \E oom \in SUBSET Group : tmr(oom)
mld6_tmr == ver = "mld" /\ \E oom \in SUBSET Group : tmr(oom)

Init ==
    /\ ver \in {"igmp", "mld"} /\ up = FALSE /\ allsystems = FALSE
    /\ group = [g \in Group |-> NonMember] /\ filter = {}
    /\ users = [g \in Group |-> 0] /\ due = [g \in Group |-> 0]

Next ==
    \/ igmp_start \/ stop \/ report_groups
    \/ igmp_input \/ mld6_input \/ igmp_tmr \/ mld6_tmr
    \/ \E g \in Group : \/ igmp_joingroup_netif(g) \/ igmp_leavegroup_netif(g)
                         \/ mld6_joingroup_netif(g) \/ mld6_leavegroup_netif(g)

\* Both timers are called every 100 ms.
Spec == Init /\ [][Next]_vars /\ WF_vars(igmp_tmr) /\ WF_vars(mld6_tmr)

-----------------------------------------------------------------------------
(* Properties                                                              *)

\* A group is in the list and let through by the driver as long as anyone who has
\* joined it has not left, whoever joined or left in between.
MemberWhileUsed ==
    /\ filter = {g \in Group : lookfor_group(g)}
    /\ \A g \in Group : group[g].use = users[g] /\ (lookfor_group(g) <=> users[g] > 0)
    /\ up /\ ver = "igmp" => allsystems

\* A query is answered within its time, by this host or another member, also if more
\* queries, joins and changes of the link set the timer again.
AnsweredInTime ==
    \A g \in Group : due[g] > 0 => group[g].state = "DELAYING_MEMBER" /\ group[g].timer \in 1..due[g]

\* No report waits for ever.
ReportsEnd ==
    \A g \in Group : group[g].state = "DELAYING_MEMBER" ~> group[g].state # "DELAYING_MEMBER"
=============================================================================
