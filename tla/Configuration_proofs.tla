------------------------ MODULE Configuration_proofs ------------------------
(***************************************************************************)
(* Proofs about the configuration of an interface.                         *)
(*                                                                         *)
(* First the multicast groups: a group is in the list as long as someone   *)
(* uses it, and a query is answered within its time, for every set of      *)
(* groups, every response time and any number of members.                  *)
(*                                                                         *)
(* Then its address: whatever servers, other hosts, the timers and a lack  *)
(* of memory do, the address is owned and the lease is watched, for every  *)
(* number of addresses, length of lease and limit on tries.  A handler is  *)
(* a function of the whole state.  One lemma per function says what it     *)
(* makes of a state in which Base holds, which may be in the middle of a   *)
(* handler; the functions that send a message and set the timer end in a   *)
(* state in which all of the invariant holds.                              *)
(***************************************************************************)
EXTENDS MCConfiguration, TLAPS

-----------------------------------------------------------------------------
(* Groups: timers.                                                         *)

\* The larger of two integers.
LEMMA MaxOfTwo ==
    ASSUME NEW a \in Int, NEW b \in Int
    PROVE  Max({a, b}) = IF a >= b THEN a ELSE b
  BY DEF Max

\* The smaller of two integers.
LEMMA MinOfTwo ==
    ASSUME NEW a \in Int, NEW b \in Int
    PROVE  Min({a, b}) = IF a <= b THEN a ELSE b
  BY DEF Min

Entry == [state : {"NON_MEMBER", "DELAYING_MEMBER", "IDLE_MEMBER"}, timer : Nat,
          last : BOOLEAN, use : 0..UsesMax]

\* A timer is set to a tick at least, and to no more than it was asked for.
LEMMA StartTimer ==
    ASSUME NEW e \in Entry, NEW max \in Nat
    PROVE  /\ start_timer(e, max) \in Entry
           /\ start_timer(e, max).state = "DELAYING_MEMBER"
           /\ start_timer(e, max).use = e.use
           /\ start_timer(e, max).timer >= 1
           /\ start_timer(e, max).timer <= max \/ start_timer(e, max).timer = 1
  <1>1. PICK t \in Nat : /\ t >= 1 /\ (t <= max \/ t = 1)
                         /\ start_timer(e, max) = [e EXCEPT !.timer = t, !.state = "DELAYING_MEMBER"]
    <2>1. /\ Max({1, max}) \in Nat /\ Max({1, max}) >= 1
          /\ Max({1, max}) <= max \/ Max({1, max}) = 1
      BY MaxOfTwo
    <2>2. max \div 2 \in Nat /\ max \div 2 <= max
      OBVIOUS
    <2>3. /\ Max({1, max \div 2}) \in Nat /\ Max({1, max \div 2}) >= 1
          /\ Max({1, max \div 2}) <= max \/ Max({1, max \div 2}) = 1
      BY <2>2, MaxOfTwo
    <2> QED BY <2>1, <2>3 DEF start_timer, igmp_start_timer, mld6_start_timer
  <1>2. [e EXCEPT !.timer = t, !.state = "DELAYING_MEMBER"] \in Entry
    BY DEF Entry
  <1> QED BY <1>1, <1>2 DEF Entry

\* Whatever was there, a member delays for no longer than it did and than it is asked.
LEMMA DelayingMember ==
    ASSUME NEW e \in Entry, NEW max \in Nat, e.state # "NON_MEMBER"
    PROVE  LET d == delaying_member(e, max) IN
           /\ d \in Entry /\ d.use = e.use
           /\ d.state = "DELAYING_MEMBER"
           /\ d.timer >= 1
           /\ d.timer <= max \/ d.timer = 1
           /\ e.state = "DELAYING_MEMBER" /\ e.timer >= 1 => d.timer <= e.timer
  <1>1. CASE e.state = "IDLE_MEMBER" \/ (e.state = "DELAYING_MEMBER" /\ (e.timer = 0 \/ max < e.timer))
    <2>1. delaying_member(e, max) = start_timer(e, max)
      BY <1>1 DEF delaying_member
    <2>2. /\ start_timer(e, max) \in Entry
          /\ start_timer(e, max).state = "DELAYING_MEMBER"
          /\ start_timer(e, max).use = e.use
          /\ start_timer(e, max).timer >= 1
          /\ start_timer(e, max).timer <= max \/ start_timer(e, max).timer = 1
      BY StartTimer
    <2>3. start_timer(e, max).timer \in Nat /\ e.timer \in Nat
      BY <2>2 DEF Entry
    <2>4. e.state = "DELAYING_MEMBER" /\ e.timer >= 1 => start_timer(e, max).timer <= e.timer
      BY <1>1, <2>2, <2>3
    <2> QED BY <2>1, <2>2, <2>4
  <1>2. CASE e.state = "DELAYING_MEMBER" /\ ~(e.timer = 0 \/ max < e.timer)
    <2>1. delaying_member(e, max) = e
      BY <1>2 DEF delaying_member
    <2> QED BY <1>2, <2>1 DEF Entry
  <1> QED BY <1>1, <1>2 DEF Entry

\* Who is no member stays so.
LEMMA NoMember ==
    ASSUME NEW e \in Entry, NEW max \in Nat, e.state = "NON_MEMBER"
    PROVE  delaying_member(e, max) = e
  BY DEF delaying_member

-----------------------------------------------------------------------------
(* Groups: the inductive invariant.                                        *)

Types ==
    /\ ver \in {"igmp", "mld"} /\ up \in BOOLEAN /\ allsystems \in BOOLEAN
    /\ group \in [Group -> Entry] /\ users \in [Group -> 0..UsesMax]
    /\ due \in [Group -> Nat]

GroupsInv == Types /\ MemberWhileUsed /\ AnsweredInTime

-----------------------------------------------------------------------------
(* Groups: the steps.                                                      *)

\* Starting IGMP or MLD on the interface keeps the invariant.
LEMMA StartKeeps ==
    ASSUME GroupsInv, igmp_start \/ stop
    PROVE  GroupsInv'
  <1>1. NonMember \in Entry /\ NonMember.use = 0 /\ NonMember.state = "NON_MEMBER"
    BY GroupsAssumption DEF NonMember, Entry, GroupsAssumption
  <1>2. CASE igmp_start
    BY <1>2 DEF igmp_start, GroupsInv, Types, MemberWhileUsed, AnsweredInTime, lookfor_group
  <1>3. CASE stop
    <2>0. UsesMax \in 1..255
      BY GroupsAssumption DEF GroupsAssumption
    <2>1. Types'
      <3>1. users' \in [Group -> 0..UsesMax] /\ due' \in [Group -> Nat]
        BY <1>3, <2>0 DEF stop
      <3>2. group' \in [Group -> Entry]
        BY <1>1, <1>3 DEF stop
      <3>3. ver' = ver /\ up' \in BOOLEAN /\ allsystems' \in BOOLEAN
        BY <1>3 DEF stop
      <3> QED BY <3>1, <3>2, <3>3 DEF GroupsInv, Types
    <2>2. MemberWhileUsed' /\ AnsweredInTime'
      BY <1>1, <1>3 DEF stop, MemberWhileUsed, AnsweredInTime, lookfor_group
    <2> QED BY <2>1, <2>2 DEF GroupsInv
  <1> QED BY <1>2, <1>3

\* One group changes its entry.
LEMMA JoinKeeps ==
    ASSUME GroupsInv, NEW g \in Group, joingroup_netif(g)
    PROVE  GroupsInv'
  <1>1. /\ up /\ users[g] < UsesMax /\ users' = [users EXCEPT ![g] = @ + 1]
        /\ UNCHANGED <<ver, up, allsystems, due>>
    BY DEF joingroup_netif
  <1>2. /\ group[g] \in Entry /\ users[g] \in 0..UsesMax /\ group[g].use = users[g]
        /\ group \in [Group -> Entry] /\ users \in [Group -> 0..UsesMax]
    BY DEF GroupsInv, Types, MemberWhileUsed
  <1>3. UsesMax \in 1..255 /\ JOIN_DELAYING_MEMBER_TMR \in Nat
    BY GroupsAssumption DEF GroupsAssumption
  <1>4. PICK e \in Entry :
           /\ group' = [group EXCEPT ![g] = e] /\ filter' = filter \cup {g}
           /\ e.use = users[g] + 1 /\ e.state # "NON_MEMBER"
           /\ due[g] > 0 => e.state = group[g].state /\ e.timer = group[g].timer
    <2>1. CASE lookfor_group(g)
      <3> DEFINE e == [group[g] EXCEPT !.use = @ + 1]
      <3>1. group' = [group EXCEPT ![g] = e] /\ filter' = filter
        BY <2>1 DEF joingroup_netif
      <3>2. g \in filter
        BY <2>1 DEF GroupsInv, MemberWhileUsed
      <3>3. /\ e \in Entry /\ e.use = users[g] + 1 /\ e.state = group[g].state
            /\ e.timer = group[g].timer
        BY <1>1, <1>2, <1>3 DEF Entry
      <3>4. e.state # "NON_MEMBER"
        BY <2>1, <3>3 DEF lookfor_group
      <3> HIDE DEF e
      <3> QED BY <3>1, <3>2, <3>3, <3>4
    <2>2. CASE ~lookfor_group(g)
      <3>1. PICK oom \in BOOLEAN : FirstJoins(g, oom)
        BY <2>2 DEF joingroup_netif
      <3> DEFINE new == send_report([NonMember EXCEPT !.state = "IDLE_MEMBER", !.use = 1], oom)
                 e == start_timer(new, JOIN_DELAYING_MEMBER_TMR)
      <3>2. new \in Entry /\ new.use = 1
        <4> DEFINE n == [NonMember EXCEPT !.state = "IDLE_MEMBER", !.use = 1]
        <4>1. NonMember \in Entry
          BY <1>3 DEF NonMember, Entry
        <4>2. n \in Entry /\ n.use = 1
          <5>1. 1 \in 0..UsesMax
            BY <1>3
          <5>2. \A x \in Entry : [x EXCEPT !.state = "IDLE_MEMBER", !.use = 1] \in Entry
            BY <5>1 DEF Entry
          <5>3. \A x \in Entry : [x EXCEPT !.state = "IDLE_MEMBER", !.use = 1].use = 1
            BY DEF Entry
          <5> QED BY <4>1, <5>2, <5>3
        <4>3. new \in {n, [n EXCEPT !.last = TRUE]}
          BY DEF send_report
        <4> HIDE DEF n, new
        <4>4. [n EXCEPT !.last = TRUE] \in Entry /\ [n EXCEPT !.last = TRUE].use = 1
          BY <4>2 DEF Entry
        <4> QED BY <4>2, <4>3, <4>4
      <3>3. group' = [group EXCEPT ![g] = e] /\ filter' = filter \cup {g}
        BY <3>1 DEF FirstJoins
      <3> HIDE DEF new
      <3>4. e \in Entry /\ e.use = 1 /\ e.state = "DELAYING_MEMBER"
        BY <1>3, <3>2, StartTimer
      <3>5. users[g] = 0 /\ ~(due[g] > 0)
        BY <1>2, <2>2 DEF GroupsInv, MemberWhileUsed, AnsweredInTime, lookfor_group
      <3> HIDE DEF e
      <3>6. e.use = users[g] + 1 /\ e.state # "NON_MEMBER"
        BY <3>4, <3>5
      <3> QED BY <3>3, <3>4, <3>5, <3>6
    <2> QED BY <2>1, <2>2
  <1>5. group'[g] = e /\ \A h \in Group : h # g => group'[h] = group[h] /\ users'[h] = users[h]
    BY <1>1, <1>2, <1>4
  <1>6. Types'
    BY <1>1, <1>2, <1>3, <1>4 DEF GroupsInv, Types
  <1>7. MemberWhileUsed'
    <2>1. users'[g] = users[g] + 1 /\ users'[g] > 0
      BY <1>1, <1>2
    <2> QED BY <1>1, <1>4, <1>5, <2>1 DEF GroupsInv, MemberWhileUsed, lookfor_group
  <1>8. AnsweredInTime'
    BY <1>1, <1>4, <1>5 DEF GroupsInv, AnsweredInTime
  <1> QED BY <1>6, <1>7, <1>8 DEF GroupsInv

\* So does leaving a group, by its last user or another.
LEMMA LeaveKeeps ==
    ASSUME GroupsInv, NEW g \in Group, leavegroup_netif(g)
    PROVE  GroupsInv'
  <1>1. /\ up /\ users[g] > 0 /\ leavegroup(g) /\ users' = [users EXCEPT ![g] = @ - 1]
        /\ due' = [due EXCEPT ![g] = IF group'[g].state = "NON_MEMBER" THEN 0 ELSE @]
        /\ UNCHANGED <<ver, up, allsystems>>
    BY DEF leavegroup_netif
  <1>2. /\ group[g] \in Entry /\ users[g] \in 0..UsesMax /\ group[g].use = users[g]
        /\ group \in [Group -> Entry] /\ users \in [Group -> 0..UsesMax]
        /\ lookfor_group(g) /\ due \in [Group -> Nat]
    BY <1>1 DEF GroupsInv, Types, MemberWhileUsed
  <1>3. UsesMax \in 1..255
    BY GroupsAssumption DEF GroupsAssumption
  <1>4. CASE group[g].use <= 1
    <2>1. group' = [group EXCEPT ![g] = NonMember] /\ filter' = filter \ {g}
      BY <1>1, <1>4 DEF leavegroup
    <2>2. NonMember \in Entry /\ NonMember.use = 0 /\ NonMember.state = "NON_MEMBER"
      BY <1>3 DEF NonMember, Entry
    <2>3. /\ group'[g] = NonMember /\ users'[g] = 0 /\ due'[g] = 0
          /\ \A h \in Group : h # g => /\ group'[h] = group[h] /\ users'[h] = users[h]
                                      /\ due'[h] = due[h]
      BY <1>1, <1>2, <1>4, <2>1, <2>2
    <2>4. Types'
      BY <1>1, <1>2, <1>3, <2>1, <2>2 DEF GroupsInv, Types
    <2>5. MemberWhileUsed'
      BY <1>1, <2>1, <2>2, <2>3 DEF GroupsInv, MemberWhileUsed, lookfor_group
    <2>6. AnsweredInTime'
      BY <2>3 DEF GroupsInv, AnsweredInTime
    <2> QED BY <2>4, <2>5, <2>6 DEF GroupsInv
  <1>5. CASE group[g].use > 1
    <2> DEFINE e == [group[g] EXCEPT !.use = @ - 1]
    <2>1. group' = [group EXCEPT ![g] = e] /\ filter' = filter
      BY <1>1, <1>2, <1>5 DEF leavegroup, Entry
    <2>2. /\ e \in Entry /\ e.use = users[g] - 1 /\ e.state = group[g].state
          /\ e.timer = group[g].timer
      BY <1>2, <1>3, <1>5 DEF Entry
    <2> HIDE DEF e
    <2>3. /\ group'[g] = e /\ users'[g] = users[g] - 1 /\ due'[g] = due[g] /\ users'[g] > 0
          /\ \A h \in Group : h # g => /\ group'[h] = group[h] /\ users'[h] = users[h]
                                      /\ due'[h] = due[h]
      BY <1>1, <1>2, <1>5, <2>1, <2>2 DEF lookfor_group
    <2>4. Types'
      BY <1>1, <1>2, <1>3, <2>1, <2>2 DEF GroupsInv, Types
    <2>5. MemberWhileUsed'
      BY <1>1, <1>2, <2>1, <2>2, <2>3 DEF GroupsInv, MemberWhileUsed, lookfor_group
    <2>6. AnsweredInTime'
      BY <2>2, <2>3 DEF GroupsInv, AnsweredInTime
    <2> QED BY <2>4, <2>5, <2>6 DEF GroupsInv
  <1> QED BY <1>2, <1>4, <1>5 DEF Entry

\* Groups change their entries only, as members that delay.
LEMMA DelayKeeps ==
    ASSUME GroupsInv, NEW which \in SUBSET Group, NEW max \in Nat,
           UNCHANGED <<ver, up, allsystems, filter, users>>,
           group' = [g \in Group |-> IF g \in which /\ lookfor_group(g)
                                     THEN delaying_member(group[g], max) ELSE group[g]]
    PROVE  /\ MemberWhileUsed'
           /\ due' \in [Group -> Nat] => Types'
           /\ \A g \in Group :
                 IF g \in which /\ lookfor_group(g)
                 THEN /\ group'[g].state = "DELAYING_MEMBER" /\ group'[g].timer \in Nat
                      /\ group'[g].timer >= 1
                      /\ group'[g].timer <= max \/ group'[g].timer = 1
                      /\ due[g] > 0 => group'[g].timer <= due[g]
                 ELSE group'[g] = group[g]
  <1>1. \A g \in Group : group[g] \in Entry
    BY DEF GroupsInv, Types
  <1>2. ASSUME NEW g \in Group, g \in which, lookfor_group(g)
        PROVE  /\ group'[g] = delaying_member(group[g], max)
               /\ group'[g] \in Entry /\ group'[g].use = group[g].use
               /\ group'[g].state = "DELAYING_MEMBER"
               /\ group'[g].timer >= 1
               /\ group'[g].timer <= max \/ group'[g].timer = 1
               /\ group[g].state = "DELAYING_MEMBER" /\ group[g].timer >= 1 =>
                     group'[g].timer <= group[g].timer
    BY <1>1, <1>2, DelayingMember DEF lookfor_group
  <1>3. ASSUME NEW g \in Group, ~(g \in which /\ lookfor_group(g))
        PROVE  group'[g] = group[g]
    BY <1>3
  <1>4. \A g \in Group : /\ group'[g] \in Entry /\ group'[g].use = group[g].use
                         /\ lookfor_group(g)' <=> lookfor_group(g)
    BY <1>1, <1>2, <1>3 DEF lookfor_group
  <1>5. MemberWhileUsed'
    BY <1>4 DEF GroupsInv, MemberWhileUsed
  <1>6. due' \in [Group -> Nat] => Types'
    BY <1>4 DEF GroupsInv, Types
  <1>7. ASSUME NEW g \in Group, g \in which, lookfor_group(g)
        PROVE  group'[g].timer \in Nat /\ (due[g] > 0 => group'[g].timer <= due[g])
    <2>1. group'[g].timer \in Nat /\ group[g].timer \in Nat /\ due[g] \in Nat
      BY <1>1, <1>4 DEF Entry, GroupsInv, Types
    <2>2. due[g] > 0 => group[g].state = "DELAYING_MEMBER" /\ group[g].timer \in 1..due[g]
      BY DEF GroupsInv, AnsweredInTime
    <2> QED BY <1>2, <1>7, <2>1, <2>2
  <1> QED BY <1>2, <1>3, <1>5, <1>6, <1>7

\* So does a query, for one group or for all.
LEMMA AskedKeeps ==
    ASSUME GroupsInv, NEW which \in SUBSET Group, NEW max \in Nat, Asked(which, max)
    PROVE  GroupsInv'
  <1> DEFINE within == Max({1, max})
  <1>1. within \in Nat /\ within >= 1 /\ within >= max
    BY MaxOfTwo
  <1>2. /\ UNCHANGED <<ver, up, allsystems, filter, users>>
        /\ group' = [g \in Group |-> IF g \in which /\ lookfor_group(g)
                                     THEN delaying_member(group[g], max) ELSE group[g]]
        /\ due' = [g \in Group |->
              IF ~(g \in which /\ lookfor_group(g)) THEN due[g]
              ELSE IF due[g] = 0 THEN within ELSE Min({due[g], within})]
    BY DEF Asked
  <1> HIDE DEF within
  <1>3. \A g \in Group : due[g] \in Nat
    BY DEF GroupsInv, Types
  <1>4. \A g \in Group : /\ Min({due[g], within}) \in {due[g], within}
                         /\ Min({due[g], within}) \in Nat
    BY <1>1, <1>3, MinOfTwo
  <1>5. due' \in [Group -> Nat]
    BY <1>1, <1>2, <1>3, <1>4
  <1>6. MemberWhileUsed' /\ Types'
    BY <1>2, <1>5, DelayKeeps
  <1>7. ASSUME NEW g \in Group, due'[g] > 0
        PROVE  group'[g].state = "DELAYING_MEMBER" /\ group'[g].timer \in 1..due'[g]
    <2>1. CASE g \in which /\ lookfor_group(g)
      <3>1. /\ group'[g].state = "DELAYING_MEMBER" /\ group'[g].timer \in Nat
            /\ group'[g].timer >= 1
            /\ group'[g].timer <= max \/ group'[g].timer = 1
            /\ due[g] > 0 => group'[g].timer <= due[g]
        BY <1>2, <2>1, DelayKeeps
      <3>2. /\ due'[g] \in {due[g], within} /\ due'[g] \in Nat
            /\ due'[g] = due[g] => due[g] > 0
        BY <1>1, <1>2, <1>3, <1>4, <1>7, <2>1
      <3>3. group'[g].timer <= due'[g]
        BY <1>1, <1>3, <3>1, <3>2
      <3> QED BY <3>1, <3>2, <3>3
    <2>2. CASE ~(g \in which /\ lookfor_group(g))
      <3>1. group'[g] = group[g] /\ due'[g] = due[g]
        BY <1>2, <2>2
      <3> QED BY <1>7, <3>1 DEF GroupsInv, AnsweredInTime
    <2> QED BY <2>1, <2>2
  <1> QED BY <1>6, <1>7 DEF GroupsInv, AnsweredInTime

\* So does another member's report.
LEMMA ReportedKeeps ==
    ASSUME GroupsInv, NEW g \in Group, Reported(g)
    PROVE  GroupsInv'
  <1> DEFINE e == [group[g] EXCEPT !.state = "IDLE_MEMBER", !.timer = 0, !.last = FALSE]
  <1>1. /\ group[g].state = "DELAYING_MEMBER"
        /\ group' = [group EXCEPT ![g] = e]
        /\ due' = [due EXCEPT ![g] = 0]
        /\ UNCHANGED <<ver, up, allsystems, filter, users>>
    BY DEF Reported
  <1>2. /\ group[g] \in Entry /\ group \in [Group -> Entry] /\ due \in [Group -> Nat]
    BY DEF GroupsInv, Types
  <1>3. e \in Entry /\ e.use = group[g].use /\ e.state = "IDLE_MEMBER"
    BY <1>2 DEF Entry
  <1> HIDE DEF e
  <1>4. /\ group'[g] = e /\ due'[g] = 0
        /\ \A h \in Group : h # g => group'[h] = group[h] /\ due'[h] = due[h]
    BY <1>1, <1>2
  <1>5. Types'
    BY <1>1, <1>2, <1>3 DEF GroupsInv, Types
  <1>6. MemberWhileUsed'
    BY <1>1, <1>3, <1>4 DEF GroupsInv, MemberWhileUsed, lookfor_group
  <1>7. AnsweredInTime'
    BY <1>4 DEF GroupsInv, AnsweredInTime
  <1> QED BY <1>5, <1>6, <1>7 DEF GroupsInv

\* So does reporting all groups after the link came up.
LEMMA ReportGroupsKeeps ==
    ASSUME GroupsInv, report_groups
    PROVE  GroupsInv'
  <1>1. JOIN_DELAYING_MEMBER_TMR \in Nat
    BY GroupsAssumption DEF GroupsAssumption
  <1>2. \A g \in Group : group[g] \in Entry
    BY DEF GroupsInv, Types
  <1>3. /\ UNCHANGED <<ver, up, allsystems, filter, users, due>>
        /\ group' = [g \in Group |-> IF g \in Group /\ lookfor_group(g)
                                     THEN delaying_member(group[g], JOIN_DELAYING_MEMBER_TMR)
                                     ELSE group[g]]
    BY <1>1, <1>2, NoMember DEF report_groups, lookfor_group
  <1>4. due' \in [Group -> Nat]
    BY <1>3 DEF GroupsInv, Types
  <1>5. MemberWhileUsed' /\ Types'
    BY <1>1, <1>3, <1>4, DelayKeeps
  <1>6. ASSUME NEW g \in Group, due'[g] > 0
        PROVE  group'[g].state = "DELAYING_MEMBER" /\ group'[g].timer \in 1..due'[g]
    <2>1. due'[g] = due[g] /\ due[g] \in Nat
      BY <1>3 DEF GroupsInv, Types
    <2>2. lookfor_group(g)
      BY <1>6, <2>1 DEF GroupsInv, AnsweredInTime, lookfor_group
    <2>3. /\ group'[g].state = "DELAYING_MEMBER" /\ group'[g].timer \in Nat
          /\ group'[g].timer >= 1
          /\ due[g] > 0 => group'[g].timer <= due[g]
      BY <1>1, <1>3, <2>2, DelayKeeps
    <2> QED BY <1>6, <2>1, <2>3
  <1> QED BY <1>5, <1>6 DEF GroupsInv, AnsweredInTime

\* So does a tick: the groups whose timer ends report.
LEMMA TmrKeeps ==
    ASSUME GroupsInv, NEW oom \in SUBSET Group, tmr(oom)
    PROVE  GroupsInv'
  <1> DEFINE down(g) == [group[g] EXCEPT !.timer = IF @ = 0 THEN 0 ELSE @ - 1]
             next(g) == IF group[g].timer = 1 THEN timeout(down(g), g \in oom) ELSE down(g)
  <1>1. /\ UNCHANGED <<ver, up, allsystems, filter, users>>
        /\ group' = [g \in Group |-> next(g)]
        /\ due' = [g \in Group |-> IF due[g] = 0 \/ group[g].timer = 1 THEN 0 ELSE due[g] - 1]
    BY DEF tmr
  <1>2. \A g \in Group : group[g] \in Entry /\ group[g].timer \in Nat /\ due[g] \in Nat
    BY DEF GroupsInv, Types, Entry
  <1>3. ASSUME NEW g \in Group
        PROVE  /\ down(g) \in Entry /\ down(g).use = group[g].use
               /\ down(g).state = group[g].state
               /\ down(g).timer = IF group[g].timer = 0 THEN 0 ELSE group[g].timer - 1
    BY <1>2 DEF Entry
  <1> HIDE DEF down
  <1>4. ASSUME NEW e \in Entry, NEW o
        PROVE  /\ timeout(e, o) \in Entry /\ timeout(e, o).use = e.use
               /\ timeout(e, o).state = "NON_MEMBER" <=> e.state = "NON_MEMBER"
    <2>1. timeout(e, o) \in {e, [e EXCEPT !.state = "IDLE_MEMBER"],
                             [[e EXCEPT !.state = "IDLE_MEMBER"] EXCEPT !.last = TRUE]}
      BY DEF timeout, send_report
    <2>2. e.state # "DELAYING_MEMBER" => timeout(e, o) = e
      BY DEF timeout
    <2>3. [e EXCEPT !.state = "IDLE_MEMBER"] \in Entry
      BY DEF Entry
    <2>4. [[e EXCEPT !.state = "IDLE_MEMBER"] EXCEPT !.last = TRUE] \in Entry
      BY <2>3 DEF Entry
    <2>5. /\ [e EXCEPT !.state = "IDLE_MEMBER"].use = e.use
          /\ [e EXCEPT !.state = "IDLE_MEMBER"].state = "IDLE_MEMBER"
          /\ [[e EXCEPT !.state = "IDLE_MEMBER"] EXCEPT !.last = TRUE].use = e.use
          /\ [[e EXCEPT !.state = "IDLE_MEMBER"] EXCEPT !.last = TRUE].state = "IDLE_MEMBER"
      BY DEF Entry
    <2> QED BY <2>1, <2>2, <2>3, <2>4, <2>5 DEF Entry
  <1>5. \A g \in Group : /\ group'[g] \in Entry /\ group'[g].use = group[g].use
                         /\ lookfor_group(g)' <=> lookfor_group(g)
                         /\ group[g].timer # 1 => group'[g] = down(g)
    <2> SUFFICES ASSUME NEW g \in Group
                 PROVE  /\ group'[g] \in Entry /\ group'[g].use = group[g].use
                        /\ lookfor_group(g)' <=> lookfor_group(g)
                        /\ group[g].timer # 1 => group'[g] = down(g)
      OBVIOUS
    <2>1. group'[g] = next(g)
      BY <1>1
    <2>2. /\ timeout(down(g), g \in oom) \in Entry
          /\ timeout(down(g), g \in oom).use = down(g).use
          /\ timeout(down(g), g \in oom).state = "NON_MEMBER" <=> down(g).state = "NON_MEMBER"
      BY <1>3, <1>4
    <2>3. next(g) \in {down(g), timeout(down(g), g \in oom)}
          /\ (group[g].timer # 1 => next(g) = down(g))
      OBVIOUS
    <2> HIDE DEF next
    <2>4. /\ next(g) \in Entry /\ next(g).use = group[g].use
          /\ next(g).state = "NON_MEMBER" <=> group[g].state = "NON_MEMBER"
      BY <1>3, <2>2, <2>3
    <2> QED BY <2>1, <2>3, <2>4 DEF lookfor_group
  <1>6. due' \in [Group -> Nat]
    BY <1>1, <1>2
  <1>7. Types'
    BY <1>1, <1>5, <1>6 DEF GroupsInv, Types
  <1>8. MemberWhileUsed'
    BY <1>1, <1>5 DEF GroupsInv, MemberWhileUsed
  <1>9. ASSUME NEW g \in Group, due'[g] > 0
        PROVE  group'[g].state = "DELAYING_MEMBER" /\ group'[g].timer \in 1..due'[g]
    <2>1. due[g] > 0 /\ group[g].timer # 1 /\ due'[g] = due[g] - 1
      BY <1>1, <1>2, <1>9
    <2>2. group[g].state = "DELAYING_MEMBER" /\ group[g].timer \in 1..due[g]
      BY <2>1 DEF GroupsInv, AnsweredInTime
    <2> QED BY <1>2, <1>3, <1>5, <2>1, <2>2
  <1> QED BY <1>7, <1>8, <1>9 DEF GroupsInv, AnsweredInTime

-----------------------------------------------------------------------------
(* Groups: the theorems.                                                   *)

\* Every step keeps the types, the membership of the groups in use and the time of the answers.
THEOREM InductiveInvariant == Spec => []GroupsInv
  <1>1. Init => GroupsInv
    <2> SUFFICES ASSUME Init PROVE GroupsInv
      OBVIOUS
    <2>1. NonMember \in Entry /\ NonMember.use = 0 /\ NonMember.state = "NON_MEMBER"
      BY GroupsAssumption DEF NonMember, Entry, GroupsAssumption
    <2>2. UsesMax \in 1..255
      BY GroupsAssumption DEF GroupsAssumption
    <2>3. Types
      <3>1. group \in [Group -> Entry]
        BY <2>1 DEF Init
      <3>2. users \in [Group -> 0..UsesMax] /\ due \in [Group -> Nat]
        BY <2>2 DEF Init
      <3>3. ver \in {"igmp", "mld"} /\ up \in BOOLEAN /\ allsystems \in BOOLEAN
        BY DEF Init
      <3> QED BY <3>1, <3>2, <3>3 DEF Types
    <2>4. MemberWhileUsed /\ AnsweredInTime
      BY <2>1 DEF Init, MemberWhileUsed, AnsweredInTime, lookfor_group
    <2> QED BY <2>3, <2>4 DEF GroupsInv
  <1>2. GroupsInv /\ [Next]_vars => GroupsInv'
    <2> SUFFICES ASSUME GroupsInv, [Next]_vars PROVE GroupsInv'
      OBVIOUS
    <2>1. CASE igmp_start \/ stop
      BY <2>1, StartKeeps
    <2>2. CASE report_groups
      BY <2>2, ReportGroupsKeeps
    <2>3. CASE igmp_input \/ mld6_input
      <3>1. MaxResp \subseteq Nat /\ V1_DELAYING_MEMBER_TMR \in Nat
        BY GroupsAssumption DEF GroupsAssumption
      <3>2. \/ \E which \in SUBSET Group, max \in Nat : Asked(which, max)
            \/ \E g \in Group : Reported(g)
        <4>1. \A g \in Group : {g} \in SUBSET Group
          OBVIOUS
        <4>2. Group \in SUBSET Group
          OBVIOUS
        <4>3. CASE igmp_input
          <5>1. CASE \E g \in Group : Reported(g)
            BY <5>1
          <5>2. ASSUME NEW max \in MaxResp,
                       Asked(Group, IF max = 0 THEN V1_DELAYING_MEMBER_TMR ELSE max)
                PROVE  \E which \in SUBSET Group, m \in Nat : Asked(which, m)
            <6>1. (IF max = 0 THEN V1_DELAYING_MEMBER_TMR ELSE max) \in Nat
              BY <3>1
            <6> QED BY <4>2, <5>2, <6>1
          <5>3. ASSUME NEW max \in MaxResp, NEW g \in Group, Asked({g}, max)
                PROVE  \E which \in SUBSET Group, m \in Nat : Asked(which, m)
            BY <3>1, <4>1, <5>3
          <5> QED BY <4>3, <5>1, <5>2, <5>3 DEF igmp_input
        <4>4. CASE mld6_input
          <5>1. CASE \E g \in Group : Reported(g)
            BY <5>1
          <5>2. ASSUME NEW max \in MaxResp, Asked(Group \ Unreported, max)
                PROVE  \E which \in SUBSET Group, m \in Nat : Asked(which, m)
            BY <3>1, <5>2
          <5>3. ASSUME NEW max \in MaxResp, NEW g \in Group, Asked({g}, max)
                PROVE  \E which \in SUBSET Group, m \in Nat : Asked(which, m)
            BY <3>1, <4>1, <5>3
          <5> QED BY <4>4, <5>1, <5>2, <5>3 DEF mld6_input
        <4> QED BY <2>3, <4>3, <4>4
      <3> QED BY <3>2, AskedKeeps, ReportedKeeps
    <2>4. CASE igmp_tmr \/ mld6_tmr
      BY <2>4, TmrKeeps DEF igmp_tmr, mld6_tmr
    <2>5. ASSUME NEW g \in Group, igmp_joingroup_netif(g) \/ mld6_joingroup_netif(g)
          PROVE  GroupsInv'
      BY <2>5, JoinKeeps DEF igmp_joingroup_netif, mld6_joingroup_netif
    <2>6. ASSUME NEW g \in Group, igmp_leavegroup_netif(g) \/ mld6_leavegroup_netif(g)
          PROVE  GroupsInv'
      BY <2>6, LeaveKeeps DEF igmp_leavegroup_netif, mld6_leavegroup_netif
    <2>7. CASE UNCHANGED vars
      BY <2>7 DEF GroupsInv, Types, MemberWhileUsed, AnsweredInTime, lookfor_group, vars
    <2> QED BY <2>1, <2>2, <2>3, <2>4, <2>5, <2>6, <2>7 DEF Next
  <1> QED BY <1>1, <1>2, PTL DEF Spec

\* igmp.c, mld6.c: a group is in the list and in the driver's filter exactly as long as
\* someone who joined it has not left.
THEOREM UsedIsMember == Spec => []MemberWhileUsed
  <1>1. GroupsInv => MemberWhileUsed
    BY DEF GroupsInv
  <1> QED BY <1>1, InductiveInvariant, PTL

\* igmp_delaying_member, mld6_delayed_report: no sequence of queries, joins, reports and
\* changes of the link puts the answer to a query off beyond its time.
THEOREM QueriesAnswered == Spec => []AnsweredInTime
  <1>1. GroupsInv => AnsweredInTime
    BY DEF GroupsInv
  <1> QED BY <1>1, InductiveInvariant, PTL

-----------------------------------------------------------------------------
(* The address: the invariant.                                             *)

Times == [t0 : Int, t1 : Nat, t2 : Nat]

Client ==
    [state : dhcp_state_enum, tries : 0..TriesMax, armed : BOOLEAN, offered : Ips \cup {Any},
     lease : Times, t0 : Int, used : Nat, t1r : Nat, t2r : Nat,
     t2 : Nat, coop : BOOLEAN, pcb : BOOLEAN]

Autoip == [state : autoip_state_enum, tried : LinkLocal, sent : Nat, conflict : BOOLEAN]

Address == Ips \cup LinkLocal \cup {Any}

State == [d : Client, a : Autoip, ip : Address, moved : BOOLEAN, refs : Nat,
          asked : SUBSET Address, ok : BOOLEAN]

Watching(a) == a.state \notin {"NULL", "OFF"}

\* The link-local part of the address, and the count of the pcb.
LinkLocalKept(s) ==
    /\ s.ip \in LinkLocal => Watching(s.a) /\ s.ip = s.a.tried
    /\ s.ok /\ s.refs = IF s.d.pcb THEN 1 ELSE 0

\* What is assumed of servers where the lease is concerned: offers name their server,
\* leases end, and their two times are in order.
Servers == ServerNamed = TRUE /\ Endless = FALSE /\ T1 < T2

\* The lease that every ACK of such a server gives.
TheLease == [t0 |-> LEASE, t1 |-> T1, t2 |-> T2]

\* The counters of the lease d, in whatever state the client is: they run only for
\* the lease that was acknowledged, T1 ends before T2, and T2 is counted from the ACK.
Counted(d) ==
    Servers =>
        /\ d.t0 \in {0, LEASE}
        /\ d.t0 = LEASE => d.used < LEASE /\ d.t2 = T2
        /\ d.t1r # 0 \/ d.t2r # 0 => d.t0 = LEASE /\ d.lease = TheLease
        /\ d.t1r # 0 => d.t1r < d.t2r /\ d.used + d.t2r = T2

\* What holds also in the middle of a handler.
Base(s) == s \in State /\ LinkLocalKept(s) /\ Counted(s.d)

\* The state of the client and the rest of it.
Leased(d) ==
    Servers =>
        /\ d.state \in {"BOUND", "RENEWING", "REBINDING"} => d.t0 = LEASE /\ d.lease = TheLease
        /\ d.state = "BOUND" => d.t1r >= 1 /\ d.used + d.t1r <= T1
        /\ d.state = "RENEWING" => d.t2r >= 1 /\ d.used + d.t2r = T2
        /\ d.state = "CHECKING" => d.lease = TheLease

AskedFor(s) ==
    /\ s.d.state = "BOUND" /\ ~Watching(s.a) => s.ip = s.d.offered /\ s.ip \in s.asked
    /\ s.d.state = "CHECKING" => s.d.offered \in s.asked

Negotiating == {"SELECTING", "REQUESTING", "CHECKING", "REBOOTING", "BACKING_OFF"}

Timed(d) ==
    /\ Servers /\ d.state \in Negotiating => d.armed
    /\ d.state # "OFF" => d.pcb

Good(s) == Base(s) /\ Leased(s.d) /\ AskedFor(s) /\ Timed(s.d)

DhcpInv == Good(Now)

-----------------------------------------------------------------------------
(* AutoIP                                                                  *)

\* The constants.
LEMMA Constants ==
    /\ Any \notin Ips /\ LinkLocals \in Nat \ {0}
    /\ \A x \in LinkLocal : x \notin Ips \cup {Any}
    /\ LEASE \in Nat \ {0} /\ T1 \in Nat \ {0} /\ T2 \in Nat \ {0}
    /\ TriesMax \in Nat \ {0}
    /\ 0 \in LinkLocal
    /\ \A n \in LinkLocal : (n + 1) % LinkLocals \in LinkLocal
<1>1. LinkLocals \in Nat \ {0}
  BY DhcpAssumption
<1>2. \A n \in Nat : n % LinkLocals \in 0..(LinkLocals - 1)
  BY <1>1
<1> QED
  BY <1>1, <1>2, DhcpAssumption DEF LinkLocal

\* The client is left alone, and so is what it asked for.
SameClient(s, t) == t.d = s.d /\ t.asked = s.asked

\* autoip_start takes the address away; without memory it does no more.
LEMMA AutoipStart ==
    ASSUME NEW s, NEW oom, Base(s)
    PROVE  /\ Base(autoip_start(s, oom)) /\ SameClient(s, autoip_start(s, oom))
           /\ autoip_start(s, oom).ip = Any
<1>1. CASE s.a.state = "NULL" /\ "autoip" \in oom
  <2> DEFINE t == [s EXCEPT !.ip = Any]
  <2>1. autoip_start(s, oom) = t
    BY <1>1 DEF autoip_start
  <2>2. t \in State /\ t.d = s.d /\ t.asked = s.asked /\ t.ip = Any /\ t.ok = s.ok
        /\ t.refs = s.refs
    BY DEF Base, State, Address
  <2> HIDE DEF t
  <2> QED
    BY <2>1, <2>2, Constants DEF Base, LinkLocalKept, SameClient
<1>2. CASE ~(s.a.state = "NULL" /\ "autoip" \in oom)
  <2> DEFINE r == [s EXCEPT !.ip = Any, !.a.conflict = FALSE]
             t == [r EXCEPT !.a.state = "PROBING", !.a.sent = 0]
  <2>1. autoip_start(s, oom) = t
    BY <1>2 DEF autoip_start, autoip_start_probing
  <2>2. r \in State /\ r.d = s.d /\ r.asked = s.asked /\ r.ip = Any /\ r.ok = s.ok
        /\ r.refs = s.refs
    BY DEF Base, State, Address, Autoip
  <2> HIDE DEF r
  <2>3. t \in State /\ t.d = s.d /\ t.asked = s.asked /\ t.ip = Any /\ t.ok = s.ok
        /\ t.refs = s.refs
    BY <2>2 DEF State, Address, Autoip, autoip_state_enum
  <2> HIDE DEF t
  <2> QED
    BY <2>1, <2>3, Constants DEF Base, LinkLocalKept, SameClient
<1> QED
  BY <1>1, <1>2

\* autoip_stop gives a link-local address back.
LEMMA AutoipStop ==
    ASSUME NEW s, Base(s)
    PROVE  Base(autoip_stop(s)) /\ SameClient(s, autoip_stop(s))
<1>1. CASE s.a.state = "NULL"
  BY <1>1 DEF autoip_stop, SameClient
<1>2. CASE s.a.state # "NULL"
  <2> DEFINE ip == IF s.ip \in LinkLocal THEN Any ELSE s.ip
             t == [s EXCEPT !.a.state = "OFF", !.ip = ip]
  <2>1. autoip_stop(s) = t
    BY <1>2 DEF autoip_stop
  <2>2. ip \in Address /\ ip \notin LinkLocal
    BY Constants DEF Base, State, Address
  <2> HIDE DEF ip
  <2>3. t \in State /\ t.d = s.d /\ t.asked = s.asked /\ t.ip = ip /\ t.ok = s.ok
        /\ t.refs = s.refs
    BY <2>2 DEF Base, State, Autoip, autoip_state_enum
  <2> HIDE DEF t
  <2> QED
    BY <2>1, <2>2, <2>3 DEF Base, LinkLocalKept, SameClient
<1> QED
  BY <1>1, <1>2

-----------------------------------------------------------------------------
(* The client                                                              *)

\* What a function leaves alone that does not change the lease: all but the state,
\* the tries, the timer of the messages and the cooperation with AutoIP.
SameLease(d, e) ==
    /\ e.offered = d.offered /\ e.lease = d.lease /\ e.t0 = d.t0 /\ e.used = d.used
    /\ e.t1r = d.t1r /\ e.t2r = d.t2r /\ e.t2 = d.t2 /\ e.pcb = d.pcb

\* A state that differs from s in the client only, where the lease is the same.
LEMMA SameLeaseBase ==
    ASSUME NEW s, NEW t, Base(s), t \in State, SameLease(s.d, t.d),
           t.a = s.a, t.ip = s.ip, t.refs = s.refs, t.ok = s.ok
    PROVE  Base(t)
  BY DEF Base, SameLease, LinkLocalKept, Counted

\* The cooperation with AutoIP ends.
LEMMA CoopEnds ==
    ASSUME NEW s, Base(s)
    PROVE  LET t == CoopOff(s)
           IN  Base(t) /\ SameLease(s.d, t.d) /\ t.asked = s.asked
<1>1. CASE s.d.coop
  <2> DEFINE r == autoip_stop(s)
             t == [r EXCEPT !.d.coop = FALSE]
  <2>1. Base(r) /\ r.d = s.d /\ r.asked = s.asked
    BY AutoipStop DEF SameClient
  <2> HIDE DEF r
  <2>2. /\ t \in State /\ SameLease(r.d, t.d) /\ t.a = r.a /\ t.ip = r.ip
        /\ t.refs = r.refs /\ t.ok = r.ok /\ t.asked = r.asked
    BY <2>1 DEF Base, State, Client, SameLease
  <2>3. CoopOff(s) = t
    BY <1>1 DEF CoopOff, r
  <2> HIDE DEF t
  <2> QED
    BY <2>1, <2>2, <2>3, SameLeaseBase
<1>2. CASE ~s.d.coop
  BY <1>2 DEF CoopOff, SameLease
<1> QED
  BY <1>1, <1>2

\* The rest of the state is the same.
SameRest(s, t) == t.a = s.a /\ t.ip = s.ip /\ t.refs = s.refs /\ t.ok = s.ok /\ t.moved = s.moved

\* A new state of the client.
LEMMA SetState ==
    ASSUME NEW s, Base(s), NEW new \in dhcp_state_enum
    PROVE  LET t == dhcp_set_state(s, new)
           IN  /\ Base(t) /\ SameLease(s.d, t.d) /\ SameRest(s, t) /\ t.asked = s.asked
               /\ t.d.state = new
<1>1. CASE s.d.state = new
  BY <1>1 DEF dhcp_set_state, SameLease, SameRest
<1>2. CASE s.d.state # new
  <2> DEFINE e == [s.d EXCEPT !.state = new, !.tries = 0, !.armed = FALSE]
             t == [s EXCEPT !.d = e]
  <2>1. dhcp_set_state(s, new) = t
    BY <1>2 DEF dhcp_set_state, Base, State
  <2>2. e \in Client /\ SameLease(s.d, e) /\ e.state = new
    <3>1. s.d \in Client /\ 0 \in 0..TriesMax
      BY Constants DEF Base, State
    <3> HIDE DEF e
    <3>2. e \in Client
      BY <3>1 DEF Client, e
    <3>3. SameLease(s.d, e) /\ e.state = new
      BY <3>1 DEF Client, SameLease, e
    <3> QED
      BY <3>2, <3>3
  <2> HIDE DEF e
  <2>3. t \in State /\ t.d = e /\ SameRest(s, t) /\ t.asked = s.asked
    BY <2>2 DEF Base, State, SameRest
  <2> HIDE DEF t
  <2> QED
    BY <2>1, <2>2, <2>3, SameLeaseBase DEF SameRest
<1> QED
  BY <1>1, <1>2

\* The message is counted and the timer set.
LEMMA TimerSet ==
    ASSUME NEW s, Base(s)
    PROVE  LET t == Tried(s)
           IN  /\ Base(t) /\ SameLease(s.d, t.d) /\ SameRest(s, t) /\ t.asked = s.asked
               /\ t.d.state = s.d.state /\ t.d.armed
<1> DEFINE n == Min({s.d.tries + 1, TriesMax})
           e == [s.d EXCEPT !.tries = n, !.armed = TRUE]
           t == [s EXCEPT !.d = e]
<1>1. Tried(s) = t
  BY DEF Tried, Base, State
<1>2. n \in 0..TriesMax
  <2>1. s.d.tries \in 0..TriesMax /\ TriesMax \in Nat
    BY Constants DEF Base, State, Client
  <2> DEFINE U == {s.d.tries + 1, TriesMax}
  <2>2. \E x \in U : \A y \in U : x <= y
    BY <2>1
  <2>3. n \in U /\ \A y \in U : n <= y
    BY <2>2 DEF Min
  <2> QED
    BY <2>1, <2>3
<1> HIDE DEF n
<1>3. e \in Client /\ SameLease(s.d, e) /\ e.state = s.d.state /\ e.armed
  BY <1>2 DEF Base, State, Client, SameLease
<1> HIDE DEF e
<1>4. t \in State /\ t.d = e /\ SameRest(s, t) /\ t.asked = s.asked
  BY <1>3 DEF Base, State, SameRest
<1> HIDE DEF t
<1> QED
  BY <1>1, <1>3, <1>4, SameLeaseBase DEF SameRest

\* A message changes what was asked; a request adds to it.
LEMMA MessageSent ==
    ASSUME NEW s, Base(s), NEW type, NEW ip \in Address, NEW oom
    PROVE  LET t == dhcp_create_msg(s, type, ip, oom)
           IN  /\ Base(t) /\ t.d = s.d /\ t.a = s.a /\ t.ip = s.ip
               /\ type = "REQUEST" => s.asked \subseteq t.asked
<1> DEFINE own == type = "REQUEST" \/ (s.d.tries # 0 /\ ~s.moved)
           old == IF own THEN s.asked ELSE {}
           new == IF type \in {"REQUEST", "DISCOVER"} THEN old \cup {ip} ELSE old
           t == [s EXCEPT !.moved = type = "REQUEST" /\ s.moved, !.asked = new]
<1>1. dhcp_create_msg(s, type, ip, oom) = IF "msg" \in oom THEN s ELSE t
  BY DEF dhcp_create_msg
<1>2. new \in SUBSET Address /\ (type = "REQUEST" => s.asked \subseteq new)
  BY DEF Base, State
<1> HIDE DEF new
<1>3. /\ t \in State /\ t.d = s.d /\ t.a = s.a /\ t.ip = s.ip /\ t.refs = s.refs /\ t.ok = s.ok
      /\ t.asked = new
  BY <1>2 DEF Base, State
<1> HIDE DEF t
<1>4. Base(t)
  BY <1>3 DEF Base, LinkLocalKept
<1> QED
  BY <1>1, <1>2, <1>3, <1>4

\* AutoIP is started when several messages have had no answer.
LEMMA CoopStarts ==
    ASSUME NEW s, NEW oom, Base(s)
    PROVE  LET t == Coop(s, oom)
           IN  /\ Base(t) /\ SameLease(s.d, t.d)
               /\ t.d.state = s.d.state /\ t.d.armed = s.d.armed
<1>1. CASE s.d.tries >= LWIP_DHCP_AUTOIP_COOP_TRIES /\ ~s.d.coop
  <2> DEFINE r == [s EXCEPT !.d.coop = TRUE]
  <2>1. Coop(s, oom) = autoip_start(r, oom)
    BY <1>1 DEF Coop
  <2>2. /\ r \in State /\ SameLease(s.d, r.d) /\ SameRest(s, r)
        /\ r.d.state = s.d.state /\ r.d.armed = s.d.armed
    BY DEF Base, State, Client, SameLease, SameRest
  <2> HIDE DEF r
  <2>3. Base(r)
    BY <2>2, SameLeaseBase DEF SameRest
  <2> QED
    BY <2>1, <2>2, <2>3, AutoipStart DEF SameClient
<1>2. CASE ~(s.d.tries >= LWIP_DHCP_AUTOIP_COOP_TRIES /\ ~s.d.coop)
  BY <1>2 DEF Coop, SameLease
<1> QED
  BY <1>1, <1>2

\* The client begins anew, from wherever it was.
LEMMA Discovers ==
    ASSUME NEW s, NEW oom, Base(s), s.d.pcb
    PROVE  LET t == dhcp_discover(s, oom)
           IN  Good(t) /\ t.d.pcb
<1> DEFINE r1 == [s EXCEPT !.d.offered = Any]
           r2 == dhcp_set_state(r1, "SELECTING")
           r3 == dhcp_create_msg(r2, "DISCOVER", Any, oom)
           r4 == Tried(r3)
           t == Coop(r4, oom)
<1>1. Base(r1) /\ r1.d.pcb
  <2>1. r1 \in State /\ SameRest(s, r1) /\ r1.d.lease = s.d.lease /\ r1.d.t0 = s.d.t0
        /\ r1.d.used = s.d.used /\ r1.d.t1r = s.d.t1r /\ r1.d.t2r = s.d.t2r
        /\ r1.d.t2 = s.d.t2 /\ r1.d.pcb = s.d.pcb
    BY DEF Base, State, Client, SameRest
  <2> HIDE DEF r1
  <2> QED
    BY <2>1 DEF Base, SameRest, LinkLocalKept, Counted
<1> HIDE DEF r1
<1>2. Base(r2) /\ r2.d.pcb /\ r2.d.state = "SELECTING"
  <2>1. "SELECTING" \in dhcp_state_enum
    BY DEF dhcp_state_enum
  <2> QED
    BY <1>1, <2>1, SetState DEF SameLease
<1> HIDE DEF r2
<1>3. Base(r3) /\ r3.d = r2.d
  BY <1>2, MessageSent DEF Address
<1> HIDE DEF r3
<1>4. Base(r4) /\ r4.d.pcb /\ r4.d.state = "SELECTING" /\ r4.d.armed
  BY <1>2, <1>3, TimerSet DEF SameLease
<1> HIDE DEF r4
<1>5. Base(t) /\ t.d.pcb /\ t.d.state = "SELECTING" /\ t.d.armed
  BY <1>4, CoopStarts DEF SameLease
<1>6. dhcp_discover(s, oom) = t
  BY DEF dhcp_discover, r1, r2, r3, r4
<1> HIDE DEF t
<1> QED
  BY <1>5, <1>6 DEF Good, Leased, AskedFor, Timed, Negotiating

\* A request is sent in a state that waits for its answer.
LEMMA Asks ==
    ASSUME NEW s, NEW oom, Base(s), s.d.pcb, NEW ip \in Address,
           NEW new \in {"REQUESTING", "REBOOTING", "RENEWING", "REBINDING"},
           Servers /\ new \in {"RENEWING", "REBINDING"} => s.d.t0 = LEASE /\ s.d.lease = TheLease,
           Servers /\ new = "RENEWING" => s.d.t2r >= 1 /\ s.d.used + s.d.t2r = T2
    PROVE  LET t == Ask(s, new, ip, oom)
           IN  Good(t) /\ SameLease(s.d, t.d) /\ t.d.state = new
<1> DEFINE r1 == dhcp_set_state(s, new)
           r2 == dhcp_create_msg(r1, "REQUEST", ip, oom)
           t == Tried(r2)
<1>1. Base(r1) /\ SameLease(s.d, r1.d) /\ r1.d.state = new
  <2>1. new \in dhcp_state_enum
    BY DEF dhcp_state_enum
  <2> QED
    BY <2>1, SetState
<1> HIDE DEF r1
<1>2. Base(r2) /\ r2.d = r1.d
  BY <1>1, MessageSent
<1> HIDE DEF r2
<1>3. Base(t) /\ SameLease(s.d, t.d) /\ t.d.state = new /\ t.d.armed
  <2>1. Base(t) /\ SameLease(r2.d, t.d) /\ t.d.state = r2.d.state /\ t.d.armed
    BY <1>2, TimerSet
  <2> QED
    BY <1>1, <1>2, <2>1 DEF SameLease
<1>4. Ask(s, new, ip, oom) = t
  BY DEF Ask, r1, r2
<1> HIDE DEF t
<1> QED
  BY <1>3, <1>4 DEF Good, Leased, AskedFor, Timed, Negotiating, SameLease

\* An address that was acknowledged is looked for on the link.
LEMMA Checks ==
    ASSUME NEW s, Base(s), s.d.pcb, s.d.offered \in s.asked,
           Servers => s.d.lease = TheLease
    PROVE  Good(dhcp_check(s))
<1> DEFINE r == dhcp_set_state(s, "CHECKING")
           t == Tried(r)
<1>1. Base(r) /\ SameLease(s.d, r.d) /\ r.asked = s.asked /\ r.d.state = "CHECKING"
  <2>1. "CHECKING" \in dhcp_state_enum
    BY DEF dhcp_state_enum
  <2> QED
    BY <2>1, SetState
<1> HIDE DEF r
<1>2. /\ Base(t) /\ SameLease(s.d, t.d) /\ t.asked = s.asked /\ t.d.state = "CHECKING"
      /\ t.d.armed
  BY <1>1, TimerSet DEF SameLease
<1>3. dhcp_check(s) = t
  BY DEF dhcp_check, r
<1> HIDE DEF t
<1> QED
  BY <1>2, <1>3 DEF Good, Leased, AskedFor, Timed, Negotiating, SameLease

\* It is in use there.
LEMMA Declines ==
    ASSUME NEW s, NEW oom, Base(s), s.d.pcb
    PROVE  Good(dhcp_decline(s, oom))
<1> DEFINE r1 == dhcp_set_state(s, "BACKING_OFF")
           r2 == dhcp_create_msg(r1, "DECLINE", Any, oom)
           t == Tried(r2)
<1>1. Base(r1) /\ SameLease(s.d, r1.d) /\ r1.d.state = "BACKING_OFF"
  <2>1. "BACKING_OFF" \in dhcp_state_enum
    BY DEF dhcp_state_enum
  <2> QED
    BY <2>1, SetState
<1> HIDE DEF r1
<1>2. Base(r2) /\ r2.d = r1.d
  BY <1>1, MessageSent DEF Address
<1> HIDE DEF r2
<1>3. Base(t) /\ SameLease(s.d, t.d) /\ t.d.state = "BACKING_OFF" /\ t.d.armed
  <2>1. Base(t) /\ SameLease(r2.d, t.d) /\ t.d.state = r2.d.state /\ t.d.armed
    BY <1>2, TimerSet
  <2> QED
    BY <1>1, <1>2, <2>1 DEF SameLease
<1>4. dhcp_decline(s, oom) = t
  BY DEF dhcp_decline, r1, r2
<1> HIDE DEF t
<1> QED
  BY <1>3, <1>4 DEF Good, Leased, AskedFor, Timed, Negotiating, SameLease

\* The address that was acknowledged is taken, and the lease counted from now.
LEMMA Binds ==
    ASSUME NEW s, Base(s), s.d.pcb, s.d.offered \in s.asked,
           Servers => s.d.lease = TheLease
    PROVE  Good(dhcp_bind(s))
<1> DEFINE l == s.d.lease
           t0 == IF l.t0 = Forever THEN s.d.t0 ELSE l.t0
           e == [s.d EXCEPT !.used = 0, !.t0 = t0, !.t1r = l.t1, !.t2r = l.t2, !.t2 = l.t2]
           r1 == [s EXCEPT !.d = e]
           r2 == CoopOff(r1)
           r3 == dhcp_set_state(r2, "BOUND")
           t == [r3 EXCEPT !.ip = s.d.offered]
<1>1. dhcp_bind(s) = t
  <2>1. [s EXCEPT !.d.used = 0, !.d.t0 = IF l.t0 = Forever THEN @ ELSE l.t0,
                  !.d.t1r = l.t1, !.d.t2r = l.t2, !.d.t2 = l.t2] = r1
    BY DEF Base, State, Client
  <2> HIDE DEF r1
  <2> QED
    BY <2>1 DEF dhcp_bind
<1>2. t0 \in Int /\ l.t1 \in Nat /\ l.t2 \in Nat
  BY DEF Base, State, Client, Times
<1>3. Servers => t0 = LEASE /\ l = TheLease /\ l.t1 = T1 /\ l.t2 = T2
  <2>1. LEASE # Forever
    BY Constants DEF Forever
  <2>2. TheLease.t0 = LEASE /\ TheLease.t1 = T1 /\ TheLease.t2 = T2
    BY DEF TheLease
  <2> QED
    BY <2>1, <2>2
<1> HIDE DEF t0
<1>4. /\ e \in Client /\ e.offered = s.d.offered /\ e.lease = l /\ e.t0 = t0
      /\ e.used = 0 /\ e.t1r = l.t1 /\ e.t2r = l.t2 /\ e.t2 = l.t2 /\ e.pcb = s.d.pcb
  <2> DEFINE t1 == l.t1
             t2 == l.t2
             f == [s.d EXCEPT !.used = 0, !.t0 = t0, !.t1r = t1, !.t2r = t2, !.t2 = t2]
  <2>1. s.d \in Client /\ t0 \in Int /\ t1 \in Nat /\ t2 \in Nat
    BY <1>2 DEF Base, State
  <2>2. e = f
    OBVIOUS
  <2> HIDE DEF e, t1, t2, f
  <2>3. f \in Client
    BY <2>1 DEF Client, f
  <2>4. /\ f.offered = s.d.offered /\ f.lease = l /\ f.t0 = t0 /\ f.used = 0 /\ f.t1r = t1
        /\ f.t2r = t2 /\ f.t2 = t2 /\ f.pcb = s.d.pcb
    BY <2>1, <2>3 DEF Client, f
  <2> QED
    BY <2>2, <2>3, <2>4 DEF t1, t2
<1> HIDE DEF e
<1>5. Base(r1) /\ r1.d = e /\ r1.asked = s.asked
  <2>1. r1 \in State /\ r1.d = e /\ SameRest(s, r1) /\ r1.asked = s.asked
    BY <1>4 DEF Base, State, SameRest
  <2> HIDE DEF r1, l
  <2>2. Counted(e)
    BY <1>3, <1>4, Constants DEF Counted, Servers
  <2> QED
    BY <1>4, <2>1, <2>2 DEF Base, SameRest, LinkLocalKept
<1> HIDE DEF r1
<1>6. Base(r2) /\ SameLease(e, r2.d) /\ r2.asked = s.asked
  BY <1>5, CoopEnds
<1> HIDE DEF r2
<1>7. Base(r3) /\ SameLease(e, r3.d) /\ r3.asked = s.asked /\ r3.d.state = "BOUND"
  <2>1. "BOUND" \in dhcp_state_enum
    BY DEF dhcp_state_enum
  <2>2. /\ Base(r3) /\ SameLease(r2.d, r3.d) /\ r3.asked = r2.asked /\ r3.d.state = "BOUND"
    BY <1>6, <2>1, SetState
  <2> QED
    BY <1>6, <2>2 DEF SameLease
<1> HIDE DEF r3
<1>8. /\ t \in State /\ t.d = r3.d /\ t.a = r3.a /\ t.refs = r3.refs /\ t.ok = r3.ok
      /\ t.asked = s.asked /\ t.ip = s.d.offered /\ s.d.offered \in Ips \cup {Any}
  BY <1>7 DEF Base, State, Client, Address
<1> HIDE DEF t
<1>9. Base(t)
  <2>1. t.ip \notin LinkLocal
    BY <1>8, Constants
  <2> QED
    BY <1>7, <1>8, <2>1 DEF Base, LinkLocalKept
<1>10. /\ t.d.state = "BOUND" /\ t.d.offered = s.d.offered /\ t.d.lease = l
       /\ t.d.t0 = t0 /\ t.d.used = 0 /\ t.d.t1r = l.t1 /\ t.d.pcb
  BY <1>4, <1>7, <1>8 DEF SameLease
<1>11. Leased(t.d)
  BY <1>3, <1>10, Constants DEF Leased
<1> QED
  BY <1>1, <1>8, <1>9, <1>10, <1>11 DEF Good, AskedFor, Timed, Negotiating

\* What was offered is forgotten.
LEMMA Forgets ==
    ASSUME NEW d \in Client
    PROVE  LET e == [d EXCEPT !.offered = Any, !.lease = NoLease, !.t0 = 0]
           IN  e \in Client /\ e.t0 = 0 /\ e.pcb = d.pcb
<1> DEFINE e == [d EXCEPT !.offered = Any, !.lease = NoLease, !.t0 = 0]
           l == NoLease
           e1 == [d EXCEPT !.offered = Any]
           e2 == [e1 EXCEPT !.lease = l]
<1>1. l \in Times
  BY DEF NoLease, Times
<1> HIDE DEF l
<1>2. e1 \in Client /\ e1.pcb = d.pcb
  BY DEF Client
<1>3. e = [e2 EXCEPT !.t0 = 0]
  BY DEF l, Client
<1> HIDE DEF e1
<1>4. e2 \in Client /\ e2.pcb = d.pcb
  BY <1>1, <1>2 DEF Client
<1> HIDE DEF e2
<1> DEFINE f == [e2 EXCEPT !.t0 = 0]
<1>5. f \in Client /\ f.t0 = 0 /\ f.pcb = d.pcb
  BY <1>4 DEF Client
<1> QED
  BY <1>3, <1>5

\* The address is given back; nothing is left of the lease.
LEMMA Releases ==
    ASSUME NEW s, NEW oom, s \in State, LinkLocalKept(s)
    PROVE  LET t == dhcp_release(s, oom)
           IN  Good(t) /\ t.d.pcb = s.d.pcb
<1> DEFINE e == [s.d EXCEPT !.offered = Any, !.lease = NoLease, !.t0 = 0, !.used = 0,
                            !.t1r = 0, !.t2r = 0]
           r1 == [s EXCEPT !.d = e]
           r2 == dhcp_set_state(r1, "OFF")
           r3 == dhcp_create_msg(r2, "RELEASE", Any, oom)
           r4 == [r3 EXCEPT !.ip = Any]
<1>1. dhcp_release(s, oom) = IF ~dhcp_supplied_address(s) THEN r2 ELSE r4
  <2>1. [s EXCEPT !.d.offered = Any, !.d.lease = NoLease, !.d.t0 = 0,
                  !.d.used = 0, !.d.t1r = 0, !.d.t2r = 0] = r1
    BY DEF State, Client
  <2> HIDE DEF r1
  <2> QED
    BY <2>1 DEF dhcp_release
<1>2. /\ e \in Client /\ e.t0 = 0 /\ e.t1r = 0 /\ e.t2r = 0 /\ e.pcb = s.d.pcb
  <2>1. s.d \in Client /\ NoLease \in Times
    BY DEF State, NoLease, Times
  <2> HIDE DEF e
  <2> DEFINE e1 == [s.d EXCEPT !.offered = Any, !.lease = NoLease, !.t0 = 0]
  <2> HIDE DEF e1
  <2>2. e1 \in Client /\ e1.t0 = 0 /\ e1.pcb = s.d.pcb
    BY <2>1, Forgets DEF e1
  <2>3. e = [e1 EXCEPT !.used = 0, !.t1r = 0, !.t2r = 0]
    BY <2>1 DEF e, e1, Client
  <2>4. e \in Client /\ e.t0 = e1.t0 /\ e.t1r = 0 /\ e.t2r = 0 /\ e.pcb = e1.pcb
    BY <2>2, <2>3 DEF Client
  <2> QED
    BY <2>2, <2>4
<1> HIDE DEF e
<1>3. Base(r1) /\ r1.d = e
  <2>1. r1 \in State /\ r1.d = e /\ SameRest(s, r1)
    BY <1>2 DEF Base, State, SameRest
  <2> HIDE DEF r1
  <2>2. Counted(e)
    BY <1>2, Constants DEF Counted
  <2> QED
    BY <1>2, <2>1, <2>2 DEF Base, SameRest, LinkLocalKept
<1> HIDE DEF r1
<1>4. Base(r2) /\ r2.d.pcb = s.d.pcb /\ r2.d.state = "OFF"
  <2>1. "OFF" \in dhcp_state_enum
    BY DEF dhcp_state_enum
  <2> QED
    BY <1>2, <1>3, <2>1, SetState DEF SameLease
<1> HIDE DEF r2
<1>5. Base(r3) /\ r3.d = r2.d
  BY <1>4, MessageSent DEF Address
<1> HIDE DEF r3
<1>6. Base(r4) /\ r4.d = r2.d
  <2>1. r4 \in State /\ r4.d = r3.d /\ r4.ip = Any /\ r4.refs = r3.refs /\ r4.ok = r3.ok
    BY <1>5 DEF Base, State, Address
  <2> HIDE DEF r4
  <2> QED
    BY <1>5, <2>1, Constants DEF Base, LinkLocalKept
<1> HIDE DEF r4
<1>7. \A t : Base(t) /\ t.d.state = "OFF" => Good(t)
  BY DEF Good, Leased, AskedFor, Timed, Negotiating
<1> QED
  BY <1>1, <1>4, <1>6, <1>7

\* The pcb is given back once.
LEMMA PcbReturned ==
    ASSUME NEW s, Base(s), s.d.pcb
    PROVE  LET t == dhcp_dec_pcb_refcount(s)
           IN  Base(t) /\ ~t.d.pcb /\ t.refs = 0 /\ t.d.state = s.d.state
<1> DEFINE e == [s.d EXCEPT !.pcb = FALSE]
           ok == s.ok /\ s.refs > 0
           refs == s.refs - 1
           t == [s EXCEPT !.ok = ok, !.refs = refs, !.d = e]
<1>1. dhcp_dec_pcb_refcount(s) = t
  BY DEF dhcp_dec_pcb_refcount, Base, State
<1>2. e \in Client /\ ~e.pcb /\ e.state = s.d.state /\ e.lease = s.d.lease /\ e.t0 = s.d.t0
      /\ e.used = s.d.used /\ e.t1r = s.d.t1r /\ e.t2r = s.d.t2r /\ e.t2 = s.d.t2
  BY DEF Base, State, Client
<1> HIDE DEF e
<1>3. ok = TRUE /\ refs = 0
  BY DEF Base, LinkLocalKept
<1> HIDE DEF ok, refs
<1>4. t \in State /\ t.d = e /\ t.refs = 0 /\ t.ok /\ t.a = s.a /\ t.ip = s.ip
  <2>1. t = [s EXCEPT !.ok = TRUE, !.refs = 0, !.d = e] /\ s \in State
    BY <1>3 DEF Base
  <2> HIDE DEF t
  <2> QED
    BY <1>2, <2>1 DEF State
<1> HIDE DEF t
<1>5. Counted(e)
  BY <1>2 DEF Base, Counted
<1> QED
  BY <1>1, <1>2, <1>4, <1>5 DEF Base, LinkLocalKept

\* The client stops.
LEMMA Stops ==
    ASSUME NEW s, Base(s)
    PROVE  Good(dhcp_stop(s))
<1> DEFINE r == CoopOff(s)
           t == dhcp_set_state(r, "OFF")
<1>1. Base(r)
  BY CoopEnds
<1> HIDE DEF r
<1>2. Base(t) /\ t.d.state = "OFF"
  <2>1. "OFF" \in dhcp_state_enum
    BY DEF dhcp_state_enum
  <2> QED
    BY <1>1, <2>1, SetState
<1>3. dhcp_stop(s) = IF t.d.pcb THEN dhcp_dec_pcb_refcount(t) ELSE t
  BY DEF dhcp_stop, r
<1> HIDE DEF t
<1>4. Base(dhcp_stop(s)) /\ dhcp_stop(s).d.state = "OFF"
  BY <1>2, <1>3, PcbReturned
<1> QED
  BY <1>4 DEF Good, Leased, AskedFor, Timed, Negotiating

\* The client starts from nothing, whatever it was in.
LEMMA Starts ==
    ASSUME NEW s, NEW oom, Base(s)
    PROVE  Good(dhcp_start(s, oom))
<1> DEFINE t == IF s.d.pcb THEN dhcp_dec_pcb_refcount(s) ELSE s
           new == [NoDhcp EXCEPT !.pcb = TRUE]
           u == [t EXCEPT !.d = new, !.refs = t.refs + 1, !.asked = {}]
           w == [t EXCEPT !.d = NoDhcp]
<1>1. Base(t) /\ ~t.d.pcb /\ t.refs = 0
  BY PcbReturned DEF Base, LinkLocalKept
<1>2. dhcp_start(s, oom) = IF "pcb" \in oom THEN w
                           ELSE IF "msg" \in oom THEN dhcp_stop(dhcp_discover(u, oom))
                           ELSE dhcp_discover(u, oom)
  BY DEF dhcp_start
<1> HIDE DEF t
<1>3. NoDhcp \in Client /\ ~NoDhcp.pcb /\ NoDhcp.state = "OFF" /\ Counted(NoDhcp)
  <2>1. "OFF" \in dhcp_state_enum /\ 0 \in 0..TriesMax
    BY Constants DEF dhcp_state_enum
  <2>0. NoLease \in Times
    BY DEF NoLease, Times
  <2>2. NoDhcp \in Client
    BY <2>0, <2>1 DEF NoDhcp, Client
  <2>3. Counted(NoDhcp)
    BY Constants DEF NoDhcp, Counted
  <2> QED
    BY <2>2, <2>3 DEF NoDhcp
<1>4. new \in Client /\ new.pcb /\ Counted(new)
  <2>1. new \in Client /\ new.pcb /\ new.t0 = NoDhcp.t0 /\ new.t1r = NoDhcp.t1r
        /\ new.t2r = NoDhcp.t2r /\ new.used = NoDhcp.used /\ new.t2 = NoDhcp.t2
        /\ new.lease = NoDhcp.lease
    BY <1>3 DEF Client
  <2> HIDE DEF new
  <2> QED
    BY <1>3, <2>1 DEF Counted
<1> HIDE DEF new
<1>5. Base(u) /\ u.d.pcb
  <2>1. u \in State /\ u.d = new /\ u.refs = 1 /\ u.ok = t.ok /\ u.a = t.a /\ u.ip = t.ip
    <3>1. u = [t EXCEPT !.d = new, !.refs = 1, !.asked = {}] /\ t \in State
      BY <1>1 DEF Base
    <3> HIDE DEF u
    <3> QED
      BY <1>4, <3>1 DEF State
  <2> HIDE DEF u
  <2> QED
    BY <1>1, <1>4, <2>1 DEF Base, LinkLocalKept
<1>6. Base(w) /\ w.d = NoDhcp
  <2>1. w \in State /\ w.d = NoDhcp /\ w.refs = t.refs /\ w.ok = t.ok /\ w.a = t.a /\ w.ip = t.ip
    BY <1>1, <1>3 DEF Base, State
  <2> HIDE DEF w
  <2> QED
    BY <1>1, <1>3, <2>1 DEF Base, LinkLocalKept
<1> HIDE DEF u, w
<1>7. CASE "pcb" \in oom
  BY <1>2, <1>3, <1>6, <1>7 DEF Good, Leased, AskedFor, Timed, Negotiating
<1>8. CASE "pcb" \notin oom /\ "msg" \in oom
  <2>1. Base(dhcp_discover(u, oom))
    BY <1>5, Discovers DEF Good
  <2> QED
    BY <1>2, <1>8, <2>1, Stops
<1>9. CASE "pcb" \notin oom /\ "msg" \notin oom
  BY <1>2, <1>5, <1>9, Discovers
<1> QED
  BY <1>7, <1>8, <1>9

\* Tries are forgotten.
LEMMA TriesForgotten ==
    ASSUME NEW s, Base(s)
    PROVE  LET t == [s EXCEPT !.d.tries = 0]
           IN  /\ Base(t) /\ SameLease(s.d, t.d) /\ t.d.state = s.d.state /\ t.ip = s.ip
<1> DEFINE e == [s.d EXCEPT !.tries = 0]
           t == [s EXCEPT !.d = e]
<1>1. e \in Client /\ SameLease(s.d, e) /\ e.state = s.d.state
  <2>1. s.d \in Client /\ 0 \in 0..TriesMax
    BY Constants DEF Base, State
  <2> HIDE DEF e
  <2>2. e \in Client
    BY <2>1 DEF Client, e
  <2> QED
    BY <2>1, <2>2 DEF Client, SameLease, e
<1> HIDE DEF e
<1>2. t \in State /\ t.d = e /\ SameRest(s, t)
  BY <1>1 DEF Base, State, SameRest
<1>3. [s EXCEPT !.d.tries = 0] = t
  BY DEF e
<1> HIDE DEF t
<1> QED
  BY <1>1, <1>2, <1>3, SameLeaseBase DEF SameRest

\* The link is back: what was bound is asked for again.
LEMMA NetworkChanged ==
    ASSUME NEW s, NEW oom, Good(s)
    PROVE  Good(dhcp_network_changed(s, oom))
<1>0. Base(s) /\ (s.d.state # "OFF" => s.d.pcb)
  BY DEF Good, Timed
<1>1. CASE s.d.state \in {"REBINDING", "RENEWING", "BOUND", "REBOOTING"}
  <2> DEFINE t == [s EXCEPT !.d.tries = 0]
  <2>1. dhcp_network_changed(s, oom) = Ask(t, "REBOOTING", t.d.offered, oom)
    BY <1>1 DEF dhcp_network_changed, dhcp_reboot
  <2>2. Base(t) /\ t.d.pcb
    BY <1>0, <1>1, TriesForgotten DEF SameLease
  <2> HIDE DEF t
  <2>3. t.d.offered \in Address
    BY <2>2 DEF Base, State, Client, Address
  <2> QED
    BY <2>1, <2>2, <2>3, Asks
<1>2. CASE s.d.state = "OFF"
  BY <1>2 DEF dhcp_network_changed
<1>3. CASE s.d.state \notin {"REBINDING", "RENEWING", "BOUND", "REBOOTING", "OFF"}
  <2> DEFINE r == CoopOff(s)
             t == [r EXCEPT !.d.tries = 0]
  <2>1. dhcp_network_changed(s, oom) = dhcp_discover(t, oom)
    BY <1>3 DEF dhcp_network_changed
  <2>2. Base(r) /\ r.d.pcb
    BY <1>0, <1>3, CoopEnds DEF SameLease
  <2> HIDE DEF r
  <2>3. Base(t) /\ t.d.pcb
    BY <2>2, TriesForgotten DEF SameLease
  <2> QED
    BY <2>1, <2>3, Discovers
<1> QED
  BY <1>1, <1>2, <1>3

\* AutoIP probes again when the link is back.
LEMMA ProbesAgain ==
    ASSUME NEW s, Good(s)
    PROVE  Good(autoip_network_changed(s))
<1>1. CASE s.a.state \in {"NULL", "OFF"}
  BY <1>1 DEF autoip_network_changed
<1>2. CASE s.a.state \notin {"NULL", "OFF"}
  <2> DEFINE t == [s EXCEPT !.a.state = "PROBING", !.a.sent = 0]
  <2>1. autoip_network_changed(s) = t
    BY <1>2 DEF autoip_network_changed, autoip_start_probing
  <2>2. t \in State /\ t.d = s.d /\ t.asked = s.asked /\ t.ip = s.ip /\ t.ok = s.ok
        /\ t.refs = s.refs /\ t.a.state = "PROBING" /\ t.a.tried = s.a.tried
    BY DEF Good, Base, State, Autoip, autoip_state_enum
  <2> HIDE DEF t
  <2> QED
    BY <1>2, <2>1, <2>2 DEF Good, Base, LinkLocalKept, AskedFor, Watching
<1> QED
  BY <1>1, <1>2

-----------------------------------------------------------------------------
(* Answers and timers                                                      *)

\* A lease that was acknowledged is the lease, and the address comes with it.
LEMMA Acked ==
    ASSUME NEW s, Base(s), NEW r, r \in Reply, r.type = "ACK"
    PROVE  LET t == dhcp_handle_ack(s, r)
           IN  /\ Base(t) /\ t.d.pcb = s.d.pcb /\ t.asked = s.asked
               /\ Servers => t.d.lease = TheLease
               /\ t.d.offered = r.ip
<1>1. r.ip \in Ips /\ r.lease \in Leases
  BY DEF Reply
<1>2. Servers => r.lease = TheLease
  <2> SUFFICES ASSUME Servers PROVE r.lease = TheLease
    OBVIOUS
  <2>1. Leases = [t0 : {LEASE}, t1 : {T1}, t2 : {T2}]
    BY DEF Leases, Servers
  <2>2. r.lease \in [t0 : {LEASE}, t1 : {T1}, t2 : {T2}]
    BY <1>1, <2>1
  <2> QED
    BY <2>2 DEF TheLease
<1> DEFINE l == r.lease
           e1 == [s.d EXCEPT !.lease = l]
           e == [e1 EXCEPT !.offered = r.ip]
           t == [s EXCEPT !.d = e]
<1>3. l \in Times
  <2>1. LEASE \in Int /\ T1 \in Nat /\ T2 \in Nat /\ Forever \in Int
    BY Constants DEF Forever
  <2> QED
    BY <1>1, <2>1 DEF Leases, Times
<1>4. dhcp_handle_ack(s, r) = t
  BY DEF dhcp_handle_ack, Base, State, Client
<1> HIDE DEF l
<1>5. /\ e1 \in Client /\ e1.lease = l /\ e1.t0 = s.d.t0 /\ e1.used = s.d.used
      /\ e1.t1r = s.d.t1r /\ e1.t2r = s.d.t2r /\ e1.t2 = s.d.t2 /\ e1.pcb = s.d.pcb
  BY <1>3 DEF Base, State, Client
<1> HIDE DEF e1
<1>6. /\ e \in Client /\ e.lease = l /\ e.t0 = s.d.t0 /\ e.used = s.d.used
      /\ e.t1r = s.d.t1r /\ e.t2r = s.d.t2r /\ e.t2 = s.d.t2 /\ e.pcb = s.d.pcb
      /\ e.offered = r.ip
  BY <1>1, <1>5 DEF Client
<1> HIDE DEF e
<1>7. t \in State /\ t.d = e /\ SameRest(s, t) /\ t.asked = s.asked
  BY <1>6 DEF Base, State, SameRest
<1> HIDE DEF t
<1>8. Counted(e)
  BY <1>2, <1>6 DEF Base, Counted, l
<1>9. Base(t)
  BY <1>6, <1>7, <1>8 DEF Base, SameRest, LinkLocalKept
<1> QED
  BY <1>2, <1>4, <1>6, <1>7, <1>9 DEF l

\* The timer of the messages is off, whether it ended or an offer is looked at: all
\* holds but that the client waits.
LEMMA Disarmed ==
    ASSUME NEW s, Good(s)
    PROVE  LET t == [s EXCEPT !.d.armed = FALSE]
           IN  /\ Base(t) /\ Leased(t.d) /\ AskedFor(t) /\ SameLease(s.d, t.d)
               /\ t.d.state = s.d.state /\ t.ip = s.ip /\ t.asked = s.asked
               /\ t.d.state # "OFF" => t.d.pcb
<1> DEFINE e == [s.d EXCEPT !.armed = FALSE]
           t == [s EXCEPT !.d = e]
<1>1. [s EXCEPT !.d.armed = FALSE] = t
  OBVIOUS
<1>2. e \in Client /\ SameLease(s.d, e) /\ e.state = s.d.state
  BY DEF Good, Base, State, Client, SameLease
<1> HIDE DEF e
<1>3. t \in State /\ t.d = e /\ SameRest(s, t) /\ t.asked = s.asked
  BY <1>2 DEF Good, Base, State, SameRest
<1> HIDE DEF t
<1>4. Base(t)
  BY <1>2, <1>3, SameLeaseBase DEF Good, SameRest
<1>5. Leased(t.d) /\ AskedFor(t)
  BY <1>2, <1>3 DEF Good, Leased, AskedFor, SameLease, SameRest
<1> QED
  BY <1>1, <1>2, <1>3, <1>4, <1>5 DEF Good, Timed, SameLease, SameRest

\* An offer is taken up if it names its server.
LEMMA OfferTaken ==
    ASSUME NEW s, NEW oom, Base(s), Leased(s.d), AskedFor(s), s.d.pcb,
           NEW r, r \in Reply, r.type = "OFFER"
    PROVE  Good(dhcp_handle_offer(s, r, oom))
<1> DEFINE e == [s.d EXCEPT !.offered = r.ip]
           t == [s EXCEPT !.d = e]
<1>0. CASE ~r.server
  <2>1. ~Servers /\ dhcp_handle_offer(s, r, oom) = s
    BY <1>0 DEF Reply, Servers, dhcp_handle_offer
  <2> QED
    BY <2>1 DEF Good, Timed
<1> SUFFICES ASSUME r.server PROVE Good(dhcp_handle_offer(s, r, oom))
  BY <1>0
<1>1. r.ip \in Ips /\ r.server
  BY DEF Reply
<1>2. dhcp_handle_offer(s, r, oom) = Ask(t, "REQUESTING", t.d.offered, oom)
  BY <1>1 DEF dhcp_handle_offer, dhcp_select
<1>3. /\ e \in Client /\ e.lease = s.d.lease /\ e.t0 = s.d.t0 /\ e.used = s.d.used
      /\ e.t1r = s.d.t1r /\ e.t2r = s.d.t2r /\ e.t2 = s.d.t2 /\ e.pcb = s.d.pcb
      /\ e.offered = r.ip
  BY <1>1 DEF Base, State, Client
<1> HIDE DEF e
<1>4. t \in State /\ t.d = e /\ SameRest(s, t)
  BY <1>3 DEF Base, State, SameRest
<1> HIDE DEF t
<1>5. Base(t) /\ t.d.pcb
  BY <1>3, <1>4 DEF Base, SameRest, LinkLocalKept, Counted
<1>6. t.d.offered \in Address
  BY <1>1, <1>3, <1>4 DEF Address
<1> QED
  BY <1>2, <1>5, <1>6, Asks

\* A server refuses: the address is given up.
LEMMA Refused ==
    ASSUME NEW s, NEW oom, Base(s), s.d.pcb
    PROVE  Good(dhcp_handle_nak(s, oom))
<1> DEFINE r == dhcp_set_state(s, "BACKING_OFF")
           t == [r EXCEPT !.ip = Any]
<1>1. Base(r) /\ r.d.pcb
  <2>1. "BACKING_OFF" \in dhcp_state_enum
    BY DEF dhcp_state_enum
  <2> QED
    BY <2>1, SetState DEF SameLease
<1>2. dhcp_handle_nak(s, oom) = dhcp_discover(t, oom)
  BY DEF dhcp_handle_nak
<1> HIDE DEF r
<1>3. t \in State /\ t.d = r.d /\ t.ip = Any /\ t.refs = r.refs /\ t.ok = r.ok
  BY <1>1 DEF Base, State, Address
<1> HIDE DEF t
<1>4. Base(t) /\ t.d.pcb
  BY <1>1, <1>3, Constants DEF Base, LinkLocalKept
<1> QED
  BY <1>2, <1>4, Discovers

\* An answer to what was asked, in whatever state it comes.
LEMMA AnswerTaken ==
    ASSUME NEW s, NEW oom, Good(s), s.d.pcb,
           NEW r, r \in Reply, r.type = "ACK" => r.ip \in s.asked
    PROVE  Good(Answered(s, r, oom))
<1> DEFINE acked == dhcp_handle_ack(s, r)
           renewing == {"REBOOTING", "REBINDING", "RENEWING"}
<1>0. Base(s)
  BY DEF Good
<1>1. r.type = "ACK" => Good(dhcp_check(acked)) /\ Good(dhcp_bind(acked))
  BY <1>0, Acked, Checks, Binds
<1>2. Good(dhcp_handle_nak(s, oom))
  BY <1>0, Refused
<1>3. r.type = "OFFER" => Good(dhcp_handle_offer([s EXCEPT !.d.armed = FALSE], r, oom))
  <2> DEFINE t == [s EXCEPT !.d.armed = FALSE]
  <2>1. Base(t) /\ Leased(t.d) /\ AskedFor(t) /\ t.d.pcb
    BY Disarmed DEF SameLease
  <2> HIDE DEF t
  <2>2. r.type = "OFFER" => Good(dhcp_handle_offer(t, r, oom))
    BY <2>1, OfferTaken
  <2> QED
    BY <2>2 DEF t
<1>4. CASE r.type = "ACK"
  <2>1. Answered(s, r, oom) =
          IF s.d.state = "REQUESTING"
          THEN IF DHCP_DOES_ARP_CHECK THEN dhcp_check(acked) ELSE dhcp_bind(acked)
          ELSE IF s.d.state \in renewing THEN dhcp_bind(acked) ELSE s
    BY <1>4 DEF Answered
  <2> QED
    BY <1>1, <1>4, <2>1
<1>5. CASE r.type = "NAK"
  <2>1. Answered(s, r, oom) =
          IF s.d.state \in renewing \cup {"REQUESTING"} THEN dhcp_handle_nak(s, oom) ELSE s
    BY <1>5 DEF Answered
  <2> QED
    BY <1>2, <2>1
<1>6. CASE r.type = "OFFER"
  <2>1. Answered(s, r, oom) =
          IF s.d.state = "SELECTING"
          THEN dhcp_handle_offer([s EXCEPT !.d.armed = FALSE], r, oom) ELSE s
    BY <1>6 DEF Answered
  <2> QED
    BY <1>3, <1>6, <2>1
<1>7. r.type \in {"ACK", "NAK", "OFFER"}
  BY DEF Reply
<1> QED
  BY <1>4, <1>5, <1>6, <1>7

\* No answer came in time.
LEMMA TimesOut ==
    ASSUME NEW s, NEW oom, Base(s), Leased(s.d), AskedFor(s),
           s.d.state # "OFF" => s.d.pcb
    PROVE  Good(dhcp_timeout(s, oom))
<1>0. s.d.offered \in Address
  BY DEF Base, State, Client, Address
<1>1. CASE s.d.state \in {"BACKING_OFF", "SELECTING"}
  BY <1>1, Discovers DEF dhcp_timeout
<1>2. CASE s.d.state = "REQUESTING"
  <2> DEFINE r == dhcp_release(s, oom)
  <2>1. dhcp_timeout(s, oom) =
          IF s.d.tries <= RequestTries THEN Ask(s, "REQUESTING", s.d.offered, oom)
          ELSE dhcp_discover(r, oom)
    BY <1>2 DEF dhcp_timeout, dhcp_select
  <2>2. Base(r) /\ r.d.pcb
    BY <1>2, Releases DEF Good, Base
  <2> HIDE DEF r
  <2>3. Good(dhcp_discover(r, oom))
    BY <2>2, Discovers
  <2>4. Good(Ask(s, "REQUESTING", s.d.offered, oom))
    BY <1>0, <1>2, Asks
  <2> QED
    BY <2>1, <2>3, <2>4
<1>3. CASE s.d.state = "CHECKING"
  <2>1. dhcp_timeout(s, oom) = IF s.d.tries <= 1 THEN dhcp_check(s) ELSE dhcp_bind(s)
    BY <1>3 DEF dhcp_timeout
  <2>2. s.d.offered \in s.asked /\ (Servers => s.d.lease = TheLease) /\ s.d.pcb
    BY <1>3 DEF AskedFor, Leased
  <2> QED
    BY <2>1, <2>2, Checks, Binds
<1>4. CASE s.d.state = "REBOOTING"
  <2>1. dhcp_timeout(s, oom) = IF s.d.tries < REBOOT_TRIES
                               THEN Ask(s, "REBOOTING", s.d.offered, oom)
                               ELSE dhcp_discover(s, oom)
    BY <1>4 DEF dhcp_timeout, dhcp_reboot
  <2> QED
    BY <1>0, <1>4, <2>1, Discovers, Asks
<1>5. CASE s.d.state \notin {"BACKING_OFF", "SELECTING", "REQUESTING", "CHECKING", "REBOOTING"}
  <2>1. dhcp_timeout(s, oom) = s
    BY <1>5 DEF dhcp_timeout
  <2> QED
    BY <1>5, <2>1 DEF Good, Timed, Negotiating
<1> QED
  BY <1>1, <1>2, <1>3, <1>4, <1>5

\* All is the same but the counts of the lease.
SameButCounts(s, t) ==
    /\ t \in State /\ SameRest(s, t) /\ t.asked = s.asked
    /\ t.d.state = s.d.state /\ t.d.armed = s.d.armed /\ t.d.offered = s.d.offered
    /\ t.d.lease = s.d.lease /\ t.d.t0 = s.d.t0 /\ t.d.t2 = s.d.t2 /\ t.d.pcb = s.d.pcb

\* The time used is counted.
LEMMA UsedSet ==
    ASSUME NEW s \in State, NEW n \in Nat
    PROVE  LET t == [s EXCEPT !.d.used = n]
           IN  /\ SameButCounts(s, t)
               /\ t.d.used = n /\ t.d.t1r = s.d.t1r /\ t.d.t2r = s.d.t2r
<1> DEFINE e == [s.d EXCEPT !.used = n]
           t == [s EXCEPT !.d = e]
<1>1. /\ e \in Client /\ e.state = s.d.state /\ e.armed = s.d.armed
      /\ e.offered = s.d.offered /\ e.lease = s.d.lease /\ e.t0 = s.d.t0 /\ e.t2 = s.d.t2
      /\ e.pcb = s.d.pcb /\ e.used = n /\ e.t1r = s.d.t1r /\ e.t2r = s.d.t2r
  BY DEF State, Client
<1>2. [s EXCEPT !.d.used = n] = t
  OBVIOUS
<1> HIDE DEF e
<1>3. t \in State /\ t.d = e /\ SameRest(s, t) /\ t.asked = s.asked
  BY <1>1 DEF State, SameRest
<1> HIDE DEF t
<1> QED
  BY <1>1, <1>2, <1>3 DEF SameButCounts

\* The count to T1 changes.
LEMMA T1Set ==
    ASSUME NEW s \in State, NEW n \in Nat
    PROVE  LET t == [s EXCEPT !.d.t1r = n]
           IN  /\ SameButCounts(s, t)
               /\ t.d.used = s.d.used /\ t.d.t1r = n /\ t.d.t2r = s.d.t2r
<1> DEFINE e == [s.d EXCEPT !.t1r = n]
           t == [s EXCEPT !.d = e]
<1>1. /\ e \in Client /\ e.state = s.d.state /\ e.armed = s.d.armed
      /\ e.offered = s.d.offered /\ e.lease = s.d.lease /\ e.t0 = s.d.t0 /\ e.t2 = s.d.t2
      /\ e.pcb = s.d.pcb /\ e.used = s.d.used /\ e.t1r = n /\ e.t2r = s.d.t2r
  BY DEF State, Client
<1>2. [s EXCEPT !.d.t1r = n] = t
  OBVIOUS
<1> HIDE DEF e
<1>3. t \in State /\ t.d = e /\ SameRest(s, t) /\ t.asked = s.asked
  BY <1>1 DEF State, SameRest
<1> HIDE DEF t
<1> QED
  BY <1>1, <1>2, <1>3 DEF SameButCounts

\* The count to T2 changes.
LEMMA T2Set ==
    ASSUME NEW s \in State, NEW n \in Nat
    PROVE  LET t == [s EXCEPT !.d.t2r = n]
           IN  /\ SameButCounts(s, t)
               /\ t.d.used = s.d.used /\ t.d.t1r = s.d.t1r /\ t.d.t2r = n
<1> DEFINE e == [s.d EXCEPT !.t2r = n]
           t == [s EXCEPT !.d = e]
<1>1. /\ e \in Client /\ e.state = s.d.state /\ e.armed = s.d.armed
      /\ e.offered = s.d.offered /\ e.lease = s.d.lease /\ e.t0 = s.d.t0 /\ e.t2 = s.d.t2
      /\ e.pcb = s.d.pcb /\ e.used = s.d.used /\ e.t1r = s.d.t1r /\ e.t2r = n
  BY DEF State, Client
<1>2. [s EXCEPT !.d.t2r = n] = t
  OBVIOUS
<1> HIDE DEF e
<1>3. t \in State /\ t.d = e /\ SameRest(s, t) /\ t.asked = s.asked
  BY <1>1 DEF State, SameRest
<1> HIDE DEF t
<1> QED
  BY <1>1, <1>2, <1>3 DEF SameButCounts

\* What it takes for a state with other counts to be good.
LEMMA CountsGood ==
    ASSUME NEW s, NEW t, SameButCounts(s, t), LinkLocalKept(s), Counted(t.d), Leased(t.d),
           AskedFor(s), Timed(s.d)
    PROVE  Good(t)
<1>1. LinkLocalKept(t)
  BY DEF SameButCounts, SameRest, LinkLocalKept
<1>2. AskedFor(t) /\ Timed(t.d)
  BY DEF SameButCounts, SameRest, AskedFor, Timed
<1> QED
  BY <1>1, <1>2 DEF Good, Base, SameButCounts

\* The first time of the lease has passed.
LEMMA T1Ends ==
    ASSUME NEW s, NEW oom, Base(s), s.d.pcb, s.d.t1r = 0,
           Servers => /\ s.d.t0 = LEASE /\ s.d.lease = TheLease
                      /\ s.d.t2r >= 1 /\ s.d.used + s.d.t2r = T2
    PROVE  Good([dhcp_renew(s, oom) EXCEPT
                   !.d.t1r = Half(dhcp_renew(s, oom).d.t2 - dhcp_renew(s, oom).d.used, @)])
<1> DEFINE r == dhcp_renew(s, oom)
           n == Half(r.d.t2 - r.d.used, r.d.t1r)
           t == [r EXCEPT !.d.t1r = n]
<1>1. Servers => s.d.t0 = LEASE /\ s.d.lease = TheLease /\ s.d.t2 = T2
  BY DEF Base, Counted, State, Client
<1>2. Good(r) /\ SameLease(s.d, r.d) /\ r.d.state = "RENEWING"
  <2>1. s.ip \in Address
    BY DEF Base, State
  <2>2. Good(Ask(s, "RENEWING", s.ip, oom)) /\ SameLease(s.d, Ask(s, "RENEWING", s.ip, oom).d)
        /\ Ask(s, "RENEWING", s.ip, oom).d.state = "RENEWING"
    BY <1>1, <2>1, Asks
  <2> QED
    BY <2>2 DEF dhcp_renew
<1> HIDE DEF r
<1>3. r \in State /\ r.d \in Client /\ r.d.t1r = 0 /\ r.d.t2r = s.d.t2r
      /\ r.d.used = s.d.used /\ (Servers => r.d.t2 = T2 /\ r.d.t0 = LEASE /\ r.d.lease = TheLease)
  BY <1>1, <1>2 DEF SameLease, Good, Base, State
<1>4. n \in Nat /\ (Servers => n < r.d.t2r)
  <2> DEFINE m == r.d.t2 - r.d.used
  <2>1. r.d.t2r \in Nat /\ r.d.used \in Nat /\ m \in Int /\ (Servers => m = r.d.t2r)
    BY <1>3, Constants DEF Client
  <2>2. n = Half(m, 0)
    BY <1>3
  <2> HIDE DEF m
  <2>3. m \div 2 >= 1 => m \div 2 \in Nat /\ m \div 2 < m
    BY <2>1
  <2>4. Servers => r.d.t2r >= 1
    BY <1>3
  <2> QED
    BY <2>1, <2>2, <2>3, <2>4 DEF Half
<1> HIDE DEF n
<1>5. SameButCounts(r, t) /\ t.d.used = r.d.used /\ t.d.t1r = n /\ t.d.t2r = r.d.t2r
  BY <1>3, <1>4, T1Set
<1> HIDE DEF t
<1>6. Counted(t.d)
  BY <1>2, <1>3, <1>4, <1>5 DEF Good, Base, Counted, SameButCounts
<1>7. Leased(t.d)
  BY <1>2, <1>3, <1>5 DEF Good, Leased, SameButCounts
<1>8. Good(t)
  BY <1>2, <1>5, <1>6, <1>7, CountsGood DEF Good, Base
<1> QED
  BY <1>8 DEF t, n, r

\* The second has.
LEMMA T2Ends ==
    ASSUME NEW s, NEW oom, Base(s), s.d.pcb,
           Servers => s.d.t0 = LEASE /\ s.d.lease = TheLease /\ s.d.t1r = 0
    PROVE  Good([dhcp_rebind(s, oom) EXCEPT
                   !.d.t2r = Half(dhcp_rebind(s, oom).d.t0 - dhcp_rebind(s, oom).d.used, @)])
<1> DEFINE r == dhcp_rebind(s, oom)
           n == Half(r.d.t0 - r.d.used, r.d.t2r)
           t == [r EXCEPT !.d.t2r = n]
<1>1. Good(r) /\ SameLease(s.d, r.d) /\ r.d.state = "REBINDING"
  <2>1. s.ip \in Address
    BY DEF Base, State
  <2>2. Good(Ask(s, "REBINDING", s.ip, oom)) /\ SameLease(s.d, Ask(s, "REBINDING", s.ip, oom).d)
        /\ Ask(s, "REBINDING", s.ip, oom).d.state = "REBINDING"
    BY <2>1, Asks
  <2> QED
    BY <2>2 DEF dhcp_rebind
<1> HIDE DEF r
<1>2. r \in State /\ r.d \in Client /\ (Servers => r.d.t1r = 0 /\ r.d.t0 = LEASE /\ r.d.lease = TheLease)
  BY <1>1 DEF SameLease, Good, Base, State
<1>3. n \in Nat
  <2>1. r.d.t2r \in Nat /\ r.d.used \in Nat /\ r.d.t0 - r.d.used \in Int
    BY <1>2 DEF Client
  <2> DEFINE m == r.d.t0 - r.d.used
  <2> HIDE DEF m
  <2>2. m \in Int /\ (m \div 2 >= 1 => m \div 2 \in Nat)
    BY <2>1 DEF m
  <2>3. n = Half(m, r.d.t2r)
    BY DEF m
  <2> QED
    BY <2>1, <2>2, <2>3 DEF Half
<1> HIDE DEF n
<1>4. SameButCounts(r, t) /\ t.d.used = r.d.used /\ t.d.t1r = r.d.t1r /\ t.d.t2r = n
  BY <1>2, <1>3, T2Set
<1> HIDE DEF t
<1>5. Counted(t.d)
  BY <1>1, <1>2, <1>4 DEF Good, Base, Counted, SameButCounts
<1>6. Leased(t.d)
  BY <1>1, <1>2, <1>4 DEF Good, Leased, SameButCounts
<1>7. Good(t)
  BY <1>1, <1>4, <1>5, <1>6, CountsGood DEF Good, Base
<1> QED
  BY <1>7 DEF t, n, r

\* One tick of the lease.
LEMMA Ticks ==
    ASSUME NEW s, NEW oom, Good(s), s.d.pcb
    PROVE  Good(CoarseTick(s, oom))
<1> DEFINE t == IF s.d.t0 = 0 THEN s ELSE [s EXCEPT !.d.used = s.d.used + 1]
           u == [t EXCEPT !.d.t2r = Dec(t.d.t2r)]
           v == [u EXCEPT !.d.t1r = Dec(u.d.t1r)]
<1>1. CoarseTick(s, oom) =
        IF t.d.t0 # 0 /\ t.d.used = t.d.t0 THEN dhcp_discover(dhcp_release(t, oom), oom)
        ELSE IF t.d.t2r = 1 THEN dhcp_t2_timeout(u, oom)
        ELSE IF u.d.t1r = 1 THEN dhcp_t1_timeout(v, oom)
        ELSE v
  BY DEF CoarseTick
<1>2. /\ s \in State /\ s.d \in Client /\ LinkLocalKept(s) /\ Counted(s.d) /\ Leased(s.d)
      /\ AskedFor(s) /\ Timed(s.d) /\ s.d.used \in Nat /\ s.d.t1r \in Nat /\ s.d.t2r \in Nat
  BY DEF Good, Base, State, Client
<1>3. \A n \in Nat : /\ Dec(n) \in Nat /\ (n # 0 => Dec(n) = n - 1) /\ (n = 0 => Dec(n) = 0)
  BY DEF Dec
<1>4. /\ SameButCounts(s, t) /\ t.d.t1r = s.d.t1r /\ t.d.t2r = s.d.t2r
      /\ t.d.used = IF s.d.t0 = 0 THEN s.d.used ELSE s.d.used + 1
  <2>1. CASE s.d.t0 = 0
    BY <1>2, <2>1 DEF SameButCounts, SameRest
  <2>2. CASE s.d.t0 # 0
    <3> DEFINE n == s.d.used + 1
    <3>1. n \in Nat /\ t = [s EXCEPT !.d.used = n]
      BY <1>2, <2>2
    <3> HIDE DEF n, t
    <3>2. SameButCounts(s, t) /\ t.d.used = n /\ t.d.t1r = s.d.t1r /\ t.d.t2r = s.d.t2r
      BY <1>2, <3>1, UsedSet
    <3> QED
      BY <2>2, <3>2 DEF n
  <2> QED
    BY <2>1, <2>2
<1> HIDE DEF t
<1>5. /\ SameButCounts(t, u) /\ u.d.t1r = t.d.t1r /\ u.d.t2r = Dec(t.d.t2r)
      /\ u.d.used = t.d.used
  <2> DEFINE n == Dec(t.d.t2r)
  <2>1. n \in Nat /\ t \in State /\ u = [t EXCEPT !.d.t2r = n]
    BY <1>2, <1>3, <1>4 DEF SameButCounts
  <2> HIDE DEF n, u
  <2>2. SameButCounts(t, u) /\ u.d.used = t.d.used /\ u.d.t1r = t.d.t1r /\ u.d.t2r = n
    BY <2>1, T2Set
  <2> QED
    BY <2>2 DEF n
<1> HIDE DEF u
<1>6. /\ SameButCounts(u, v) /\ v.d.t1r = Dec(u.d.t1r) /\ v.d.t2r = u.d.t2r
      /\ v.d.used = u.d.used
  <2> DEFINE n == Dec(u.d.t1r)
  <2>1. n \in Nat /\ u \in State /\ v = [u EXCEPT !.d.t1r = n]
    BY <1>2, <1>3, <1>4, <1>5 DEF SameButCounts
  <2> HIDE DEF n, v
  <2>2. SameButCounts(u, v) /\ v.d.used = u.d.used /\ v.d.t1r = n /\ v.d.t2r = u.d.t2r
    BY <2>1, T1Set
  <2> QED
    BY <2>2 DEF n
<1> HIDE DEF v
<1>7. SameButCounts(s, u) /\ SameButCounts(s, v)
  BY <1>4, <1>5, <1>6 DEF SameButCounts, SameRest
<1>8. LinkLocalKept(t) /\ LinkLocalKept(u) /\ LinkLocalKept(v)
  BY <1>2, <1>4, <1>7 DEF SameButCounts, SameRest, LinkLocalKept
<1>9. /\ t.d.t0 = s.d.t0 /\ t.d.pcb /\ u.d.pcb /\ v.d.pcb /\ t \in State /\ u \in State
      /\ v \in State
  BY <1>4, <1>7 DEF SameButCounts
<1>10. CASE t.d.t0 # 0 /\ t.d.used = t.d.t0
  <2>1. Base(dhcp_release(t, oom)) /\ dhcp_release(t, oom).d.pcb
    BY <1>8, <1>9, Releases DEF Good
  <2> QED
    BY <1>1, <1>10, <2>1, Discovers
<1>11. ASSUME ~(t.d.t0 # 0 /\ t.d.used = t.d.t0)
       PROVE  Servers /\ s.d.t0 = LEASE => t.d.used = s.d.used + 1 /\ t.d.used < LEASE
  BY <1>2, <1>4, <1>9, <1>11, Constants DEF Counted
<1>12. CASE ~(t.d.t0 # 0 /\ t.d.used = t.d.t0) /\ t.d.t2r = 1
  <2>1. Servers => /\ s.d.t0 = LEASE /\ s.d.lease = TheLease /\ s.d.t1r = 0 /\ u.d.t1r = 0
                   /\ u.d.t2r = 0 /\ u.d.used < LEASE /\ s.d.t2 = T2
    BY <1>2, <1>3, <1>4, <1>5, <1>11, <1>12 DEF Counted
  <2>2. /\ Servers => u.d.t0 = LEASE /\ u.d.lease = TheLease /\ u.d.t2 = T2
        /\ u.d.state = s.d.state
    BY <1>7, <2>1 DEF SameButCounts
  <2>3. Counted(u.d)
    BY <2>1, <2>2 DEF Counted
  <2>4. Base(u)
    BY <1>8, <1>9, <2>3 DEF Base
  <2>5. CASE u.d.state \in {"REQUESTING", "BOUND", "RENEWING", "REBINDING"}
    BY <1>1, <1>9, <1>12, <2>1, <2>2, <2>4, <2>5, T2Ends DEF dhcp_t2_timeout
  <2>6. CASE u.d.state \notin {"REQUESTING", "BOUND", "RENEWING", "REBINDING"}
    <3>1. CoarseTick(s, oom) = u
      BY <1>1, <1>12, <2>6 DEF dhcp_t2_timeout
    <3>2. Leased(u.d)
      BY <2>2, <2>6 DEF Leased
    <3> QED
      BY <1>2, <1>7, <2>3, <3>1, <3>2, CountsGood
  <2> QED
    BY <2>5, <2>6
<1>13. CASE ~(t.d.t0 # 0 /\ t.d.used = t.d.t0) /\ t.d.t2r # 1 /\ u.d.t1r = 1
  <2>1. /\ s.d.t1r = 1
        /\ Servers => /\ s.d.t0 = LEASE /\ s.d.lease = TheLease /\ s.d.t2 = T2
                      /\ s.d.t2r >= 2 /\ s.d.used + s.d.t2r = T2
    BY <1>2, <1>4, <1>5, <1>13 DEF Counted
  <2>2. /\ v.d.t1r = 0
        /\ Servers => v.d.t2r = s.d.t2r - 1 /\ v.d.used = s.d.used + 1 /\ v.d.used < LEASE
    BY <1>2, <1>3, <1>4, <1>5, <1>6, <1>11, <1>13, <2>1
  <2>3. /\ Servers => v.d.t0 = LEASE /\ v.d.lease = TheLease /\ v.d.t2 = T2
        /\ v.d.state = s.d.state
    BY <1>7, <2>1 DEF SameButCounts
  <2>4. Servers => v.d.t2r >= 1 /\ v.d.used + v.d.t2r = T2
    BY <1>2, <2>1, <2>2, Constants
  <2>5. Counted(v.d)
    BY <2>2, <2>3 DEF Counted
  <2>6. Base(v)
    BY <1>8, <1>9, <2>5 DEF Base
  <2>7. CASE v.d.state \in {"REQUESTING", "BOUND", "RENEWING"}
    BY <1>1, <1>9, <1>13, <2>2, <2>3, <2>4, <2>6, <2>7, T1Ends DEF dhcp_t1_timeout
  <2>8. CASE v.d.state \notin {"REQUESTING", "BOUND", "RENEWING"}
    <3>1. CoarseTick(s, oom) = v
      BY <1>1, <1>13, <2>8 DEF dhcp_t1_timeout
    <3>2. Leased(v.d)
      BY <1>2, <2>3, <2>8 DEF Leased
    <3> QED
      BY <1>2, <1>7, <2>5, <3>1, <3>2, CountsGood
  <2> QED
    BY <2>7, <2>8
<1>14. CASE ~(t.d.t0 # 0 /\ t.d.used = t.d.t0) /\ t.d.t2r # 1 /\ u.d.t1r # 1
  <2>1. CoarseTick(s, oom) = v
    BY <1>1, <1>14
  <2>2. /\ v.d.t0 = s.d.t0 /\ v.d.lease = s.d.lease /\ v.d.t2 = s.d.t2 /\ v.d.state = s.d.state
        /\ s.d.t1r # 1 /\ s.d.t2r # 1 /\ v.d.t1r = Dec(s.d.t1r) /\ v.d.t2r = Dec(s.d.t2r)
    BY <1>4, <1>5, <1>6, <1>7, <1>14 DEF SameButCounts
  <2>3. Servers /\ s.d.t0 = LEASE => v.d.used = s.d.used + 1 /\ v.d.used < LEASE
    BY <1>5, <1>6, <1>11, <1>14
  <2>4. Counted(v.d)
    BY <1>2, <1>3, <2>2, <2>3, Constants DEF Counted
  <2>5. Leased(v.d)
    BY <1>2, <1>3, <2>2, <2>3, Constants DEF Counted, Leased
  <2> QED
    BY <1>2, <1>7, <2>1, <2>4, <2>5, CountsGood
<1> QED
  BY <1>10, <1>12, <1>13, <1>14

-----------------------------------------------------------------------------
(* The address on the link                                                 *)

\* A state that differs in AutoIP's conflict and count.
LEMMA SameAutoGood ==
    ASSUME NEW s, NEW a \in Autoip, Good(s), Watching(a) <=> Watching(s.a), a.tried = s.a.tried
    PROVE  Good([s EXCEPT !.a = a])
<1> DEFINE t == [s EXCEPT !.a = a]
<1>1. t \in State /\ t.d = s.d /\ t.a = a /\ t.ip = s.ip /\ t.asked = s.asked /\ t.ok = s.ok
      /\ t.refs = s.refs
  BY DEF Good, Base, State
<1> HIDE DEF t
<1>2. Good(t)
  BY <1>1 DEF Good, Base, LinkLocalKept, AskedFor
<1> QED
  BY <1>2 DEF t

\* AutoIP tries the next address.
LEMMA TriesNext ==
    ASSUME NEW s, Good(s)
    PROVE  Good(autoip_restart(s))
<1> DEFINE a == [s.a EXCEPT !.tried = (s.a.tried + 1) % LinkLocals]
           r1 == [s EXCEPT !.a = a, !.ip = Any]
           r2 == [r1 EXCEPT !.a.conflict = FALSE]
           t == [r2 EXCEPT !.a.state = "PROBING", !.a.sent = 0]
<1>1. autoip_restart(s) = t
  <2>1. [[s EXCEPT !.a.tried = (@ + 1) % LinkLocals] EXCEPT !.ip = Any] = r1
    OBVIOUS
  <2> HIDE DEF r1
  <2> QED
    BY <2>1 DEF autoip_restart, autoip_start, autoip_start_probing
<1>2. a \in Autoip
  <2>1. s.a \in Autoip /\ (s.a.tried + 1) % LinkLocals \in LinkLocal
    BY Constants DEF Good, Base, State, Autoip
  <2> QED
    BY <2>1 DEF Autoip
<1> HIDE DEF a
<1>3. r1 \in State /\ r1.d = s.d /\ r1.asked = s.asked /\ r1.ip = Any /\ r1.ok = s.ok
      /\ r1.refs = s.refs
  BY <1>2 DEF Good, Base, State, Address
<1> HIDE DEF r1
<1>4. r2 \in State /\ r2.d = s.d /\ r2.asked = s.asked /\ r2.ip = Any /\ r2.ok = s.ok
      /\ r2.refs = s.refs
  BY <1>3 DEF State, Autoip
<1> HIDE DEF r2
<1>5. t \in State /\ t.d = s.d /\ t.asked = s.asked /\ t.ip = Any /\ t.ok = s.ok
      /\ t.refs = s.refs /\ t.a.state = "PROBING"
  BY <1>4 DEF State, Autoip, autoip_state_enum
<1> HIDE DEF t
<1> QED
  BY <1>1, <1>5, Constants DEF Good, Base, LinkLocalKept, AskedFor, Watching

\* The timer of AutoIP: probes, then the address, then announcements.
LEMMA AutoipTicks ==
    ASSUME Good(Now), autoip_tmr
    PROVE  \E t : Becomes(t) /\ Good(t)
<1> DEFINE s == Now
           sent == s.a.sent + 1
<1>1. s \in State /\ s.a \in Autoip /\ autoip = s.a /\ s.a.sent \in Nat
  BY DEF Good, Base, State, Autoip, Now
<1>2. sent \in Nat
  BY <1>1
<1> HIDE DEF sent
<1>3. CASE /\ autoip.state = "PROBING" /\ autoip.sent < PROBE_NUM
           /\ Becomes([s EXCEPT !.a.sent = sent])
  <2> DEFINE a == [s.a EXCEPT !.sent = sent]
  <2>1. a \in Autoip /\ a.state = s.a.state /\ a.tried = s.a.tried
    BY <1>1, <1>2 DEF Autoip
  <2> HIDE DEF a, s
  <2>2. Good([s EXCEPT !.a = a])
    BY <2>1, SameAutoGood DEF Watching, s
  <2>3. Becomes([s EXCEPT !.a = a])
    BY <1>3 DEF a
  <2> QED
    BY <2>2, <2>3
<1>4. CASE /\ autoip.state = "PROBING" /\ autoip.sent >= PROBE_NUM
           /\ Becomes([s EXCEPT !.a.state = "ANNOUNCING", !.a.sent = 1, !.ip = autoip.tried])
  <2> DEFINE ip == s.a.tried
             a == [s.a EXCEPT !.state = "ANNOUNCING", !.sent = 1]
             t == [s EXCEPT !.a = a, !.ip = ip]
  <2>1. a \in Autoip /\ a.state = "ANNOUNCING" /\ a.tried = ip
    BY <1>1 DEF Autoip, autoip_state_enum
  <2>2. ip \in Address
    BY <1>1 DEF Autoip, Address
  <2>3. Becomes(t)
    BY <1>1, <1>4
  <2> HIDE DEF a, ip, s
  <2>4. t \in State /\ t.d = s.d /\ t.a = a /\ t.ip = ip /\ t.asked = s.asked /\ t.ok = s.ok
        /\ t.refs = s.refs
    BY <1>1, <2>1, <2>2 DEF State
  <2> HIDE DEF t
  <2>5. Good(s)
    BY DEF s
  <2>6. Good(t)
    BY <2>1, <2>4, <2>5 DEF Good, Base, LinkLocalKept, AskedFor, Watching
  <2> QED
    BY <2>3, <2>6
<1>5. CASE /\ autoip.state = "ANNOUNCING"
           /\ Becomes(IF sent < ANNOUNCE_NUM THEN [s EXCEPT !.a.sent = sent]
                      ELSE [s EXCEPT !.a.state = "BOUND", !.a.sent = 0])
  <2> DEFINE a == IF sent < ANNOUNCE_NUM THEN [s.a EXCEPT !.sent = sent]
                  ELSE [s.a EXCEPT !.state = "BOUND", !.sent = 0]
  <2>1. a \in Autoip /\ (Watching(a) <=> Watching(s.a)) /\ a.tried = s.a.tried
    BY <1>1, <1>2, <1>5 DEF Autoip, autoip_state_enum, Watching
  <2>2. Becomes([s EXCEPT !.a = a])
    <3>1. CASE sent < ANNOUNCE_NUM
      BY <1>5, <3>1
    <3>2. CASE ~(sent < ANNOUNCE_NUM)
      BY <1>5, <3>2
    <3> QED
      BY <3>1, <3>2
  <2> HIDE DEF a, s
  <2>3. Good([s EXCEPT !.a = a])
    BY <2>1, SameAutoGood DEF s
  <2> QED
    BY <2>2, <2>3
<1>6. CASE autoip.conflict /\ Becomes([s EXCEPT !.a.conflict = FALSE])
  <2> DEFINE a == [s.a EXCEPT !.conflict = FALSE]
  <2>1. a \in Autoip /\ a.state = s.a.state /\ a.tried = s.a.tried
    BY <1>1 DEF Autoip
  <2> HIDE DEF a, s
  <2>2. Good([s EXCEPT !.a = a])
    BY <2>1, SameAutoGood DEF Watching, s
  <2>3. Becomes([s EXCEPT !.a = a])
    BY <1>6 DEF a
  <2> QED
    BY <2>2, <2>3
<1>7. \/ /\ autoip.state = "PROBING" /\ autoip.sent < PROBE_NUM
         /\ Becomes([s EXCEPT !.a.sent = sent])
      \/ /\ autoip.state = "PROBING" /\ autoip.sent >= PROBE_NUM
         /\ Becomes([s EXCEPT !.a.state = "ANNOUNCING", !.a.sent = 1, !.ip = autoip.tried])
      \/ /\ autoip.state = "ANNOUNCING"
         /\ Becomes(IF sent < ANNOUNCE_NUM THEN [s EXCEPT !.a.sent = sent]
                    ELSE [s EXCEPT !.a.state = "BOUND", !.a.sent = 0])
      \/ autoip.conflict /\ Becomes([s EXCEPT !.a.conflict = FALSE])
  <2> USE DEF sent
  <2> QED
    BY DEF autoip_tmr
<1> QED
  BY <1>3, <1>4, <1>5, <1>6, <1>7

\* Another host has the address.
LEMMA Defends ==
    ASSUME Good(Now), autoip_arp_reply
    PROVE  \E t : Becomes(t) /\ Good(t)
<1> DEFINE s == Now
           a == [s.a EXCEPT !.conflict = TRUE]
<1>1. Good(autoip_restart(s))
  BY TriesNext
<1>2. Good([s EXCEPT !.a = a])
  <2>1. s.a \in Autoip
    BY DEF Good, Base, State
  <2> HIDE DEF s
  <2>2. a \in Autoip /\ a.state = s.a.state /\ a.tried = s.a.tried
    BY <2>1 DEF Autoip
  <2> HIDE DEF a
  <2> QED
    BY <2>2, SameAutoGood DEF Watching, s
<1>3. Becomes(autoip_restart(s)) \/ Becomes([s EXCEPT !.a = a])
  BY DEF autoip_arp_reply
<1> HIDE DEF a, s
<1> QED
  BY <1>1, <1>2, <1>3

-----------------------------------------------------------------------------
(* The specification                                                       *)

\* The state after is the one the handler makes.
LEMMA Made ==
    ASSUME NEW t \in State, Becomes(t)
    PROVE  Now' = t
<1>1. /\ dhcp' = t.d /\ autoip' = t.a /\ ip_addr' = t.ip /\ moved' = t.moved
      /\ dhcp_pcb_refcount' = t.refs /\ asked' = t.asked /\ asserted' = t.ok
  BY DEF Becomes
<1> QED
  BY <1>1 DEF Now, State

\* Every handler keeps the invariant.
LEMMA Handled ==
    ASSUME Good(Now), DhcpNext
    PROVE  \E t : Becomes(t) /\ Good(t)
<1> DEFINE s == Now
<1>0. /\ Base(s) /\ dhcp = s.d /\ ip_addr = s.ip /\ asked = s.asked
      /\ s.d.state # "OFF" => s.d.pcb
  BY DEF Good, Timed, Now
<1> HIDE DEF s
<1>1. CASE Start
  BY <1>0, <1>1, Starts DEF Start, s
<1>2. CASE Stop
  BY <1>0, <1>2, Stops DEF Stop, s
<1>3. CASE Release
  BY <1>0, <1>3, Releases DEF Release, Base, s
<1>4. CASE Renew
  <2>1. PICK oom \in Oom : Becomes(Ask(s, "RENEWING", s.ip, oom))
    BY <1>4 DEF Renew, dhcp_renew, s
  <2>2. s.d.state \in {"BOUND", "RENEWING"} /\ s.d.pcb /\ s.ip \in Address
    BY <1>0, <1>4 DEF Renew, Base, State
  <2>3. Good(s)
    BY DEF s
  <2>4. /\ Servers => s.d.t0 = LEASE /\ s.d.lease = TheLease
        /\ s.d.t1r \in Nat /\ s.d.t2r \in Nat /\ s.d.used \in Nat
    BY <2>2, <2>3 DEF Good, Leased, Base, State, Client
  <2>5. Servers => s.d.t2r >= 1 /\ s.d.used + s.d.t2r = T2
    BY <2>2, <2>3, <2>4 DEF Good, Leased, Base, Counted
  <2>6. Good(Ask(s, "RENEWING", s.ip, oom))
    BY <1>0, <2>2, <2>4, <2>5, Asks
  <2> QED
    BY <2>1, <2>6
<1>5. CASE dhcp_inform
  <2>1. PICK oom \in {FALSE, TRUE} : Becomes([s EXCEPT !.moved = @ \/ ~oom])
    BY <1>5 DEF dhcp_inform, s
  <2> DEFINE m == s.moved \/ ~oom
             t == [s EXCEPT !.moved = m]
  <2>2. m \in BOOLEAN /\ Becomes(t)
    BY <2>1
  <2> HIDE DEF m
  <2>3. /\ t \in State /\ t.d = s.d /\ t.a = s.a /\ t.ip = s.ip /\ t.asked = s.asked
        /\ t.ok = s.ok /\ t.refs = s.refs
    BY <1>0, <2>2 DEF Base, State
  <2> HIDE DEF t
  <2>4. Good(t)
    BY <2>3 DEF Good, Base, LinkLocalKept, AskedFor, s
  <2> QED
    BY <2>2, <2>4
<1>6. CASE dhcp_recv
  <2>1. PICK r \in Reply, oom \in Oom : dhcp.pcb /\ Answers(r) /\ Becomes(Answered(s, r, oom))
    BY <1>6 DEF dhcp_recv, s
  <2>2. r.type = "ACK" => r.ip \in s.asked
    BY <1>0, <2>1 DEF Answers
  <2>3. Good(Answered(s, r, oom))
    BY <1>0, <2>1, <2>2, AnswerTaken DEF s
  <2> QED
    BY <2>1, <2>3
<1>7. CASE dhcp_fine_tmr
  <2> DEFINE t == [s EXCEPT !.d.armed = FALSE]
  <2>1. PICK oom \in Oom : Becomes(dhcp_timeout(t, oom))
    BY <1>7 DEF dhcp_fine_tmr, s
  <2>2. Base(t) /\ Leased(t.d) /\ AskedFor(t) /\ (t.d.state # "OFF" => t.d.pcb)
    BY Disarmed DEF s
  <2> HIDE DEF t
  <2>3. Good(dhcp_timeout(t, oom))
    BY <2>2, TimesOut
  <2> QED
    BY <2>1, <2>3
<1>8. CASE dhcp_coarse_tmr
  <2>1. PICK oom \in Oom : s.d.state # "OFF" /\ Becomes(CoarseTick(s, oom))
    BY <1>0, <1>8 DEF dhcp_coarse_tmr, s
  <2>2. Good(CoarseTick(s, oom))
    BY <1>0, <2>1, Ticks DEF s
  <2> QED
    BY <2>1, <2>2
<1>9. CASE dhcp_arp_reply
  <2>1. PICK oom \in Oom : s.d.state = "CHECKING" /\ Becomes(dhcp_decline(s, oom))
    BY <1>0, <1>9 DEF dhcp_arp_reply, s
  <2>2. Good(dhcp_decline(s, oom))
    BY <1>0, <2>1, Declines
  <2> QED
    BY <2>1, <2>2
<1>10. CASE LinkUp
  <2>1. PICK oom \in Oom : Becomes(autoip_network_changed(dhcp_network_changed(s, oom)))
    BY <1>10 DEF LinkUp, s
  <2>2. Good(dhcp_network_changed(s, oom))
    BY NetworkChanged DEF s
  <2>3. Good(autoip_network_changed(dhcp_network_changed(s, oom)))
    BY <2>2, ProbesAgain
  <2> QED
    BY <2>1, <2>3
<1>11. CASE autoip_tmr
  BY <1>11, AutoipTicks
<1>12. CASE autoip_arp_reply
  BY <1>12, Defends
<1> QED
  BY <1>1, <1>2, <1>3, <1>4, <1>5, <1>6, <1>7, <1>8, <1>9, <1>10, <1>11, <1>12 DEF DhcpNext

\* The first state is good.
LEMMA InitGood ==
    ASSUME DhcpInit
    PROVE  DhcpInv
<1>1. /\ Now.d = NoDhcp /\ Now.ip = Any /\ Now.refs = 0 /\ Now.ok = TRUE
      /\ Now.a = [state |-> "NULL", tried |-> 0, sent |-> 0, conflict |-> FALSE]
  BY DEF DhcpInit, Now
<1>2. NoDhcp \in Client /\ ~NoDhcp.pcb /\ NoDhcp.state = "OFF" /\ Counted(NoDhcp)
  <2>0. NoLease \in Times
    BY DEF NoLease, Times
  <2>1. "OFF" \in dhcp_state_enum /\ 0 \in 0..TriesMax
    BY Constants DEF dhcp_state_enum
  <2>2. NoDhcp \in Client
    BY <2>0, <2>1 DEF NoDhcp, Client
  <2>3. Counted(NoDhcp)
    BY Constants DEF NoDhcp, Counted
  <2> QED
    BY <2>2, <2>3 DEF NoDhcp
<1>3. Now \in State
  <2>1. dhcp \in Client
    BY <1>2 DEF DhcpInit
  <2>2. autoip \in Autoip
    BY Constants DEF DhcpInit, Autoip, autoip_state_enum
  <2> QED
    BY <2>1, <2>2 DEF DhcpInit, Now, State, Address
<1>4. Base(Now)
  BY <1>1, <1>2, <1>3, Constants DEF Base, LinkLocalKept
<1> QED
  BY <1>1, <1>2, <1>4 DEF DhcpInv, Good, Leased, AskedFor, Timed, Negotiating

\* The invariant holds throughout.
LEMMA AlwaysGood == DhcpSpec => []DhcpInv
<1>1. DhcpInit => DhcpInv
  BY InitGood
<1>2. DhcpInv /\ [DhcpNext]_dhcpVars => DhcpInv'
  <2> SUFFICES ASSUME DhcpInv, [DhcpNext]_dhcpVars PROVE DhcpInv'
    OBVIOUS
  <2>1. CASE DhcpNext
    <3>1. PICK t : Becomes(t) /\ Good(t)
      BY <2>1, Handled DEF DhcpInv
    <3>2. Now' = t
      BY <3>1, Made DEF Good, Base
    <3> QED
      BY <3>1, <3>2 DEF DhcpInv
  <2>2. CASE UNCHANGED dhcpVars
    <3>1. Now' = Now
      BY <2>2 DEF dhcpVars, Now
    <3> QED
      BY <3>1 DEF DhcpInv
  <2> QED
    BY <2>1, <2>2
<1> QED
  BY <1>1, <1>2, PTL DEF DhcpSpec

\* The type of the configuration: states of the client and AutoIP, addresses, counts.
THEOREM TypeHolds == DhcpSpec => []DhcpTypeOK
<1>1. DhcpInv => DhcpTypeOK
  <2> SUFFICES ASSUME Good(Now) PROVE DhcpTypeOK
    BY DEF DhcpInv
  <2>1. dhcp \in Client /\ autoip \in Autoip /\ ip_addr \in Address /\ asked \subseteq Address
        /\ dhcp_pcb_refcount \in Nat
    BY DEF Good, Base, State, Now
  <2> QED
    BY <2>1 DEF DhcpTypeOK, Client, Autoip, Address
<1> QED
  BY <1>1, AlwaysGood, PTL

\* dhcp.c and autoip.c: whatever messages, conflicts, timers and failures come, a bound
\* interface whose AutoIP does not run has the address that was asked for in the
\* client's own transaction, a link-local address is on the interface only while AutoIP
\* watches over it, and the client's pcb is counted once.
THEOREM AddressIsOwned == DhcpSpec => []AddressOwned
<1>1. DhcpInv => AddressOwned
  <2> SUFFICES ASSUME Good(Now) PROVE AddressOwned
    BY DEF DhcpInv
  <2>1. /\ dhcp = Now.d /\ autoip = Now.a /\ ip_addr = Now.ip /\ asked = Now.asked
        /\ dhcp_pcb_refcount = Now.refs /\ asserted = Now.ok
    BY DEF Now
  <2>2. BoundAsAsked
    BY <2>1 DEF Good, AskedFor, Watching, BoundAsAsked
  <2>3. LinkLocalOwned
    BY <2>1 DEF Good, Base, Timed, LinkLocalKept, Watching, LinkLocalOwned
  <2> QED
    BY <2>2, <2>3 DEF AddressOwned
<1> QED
  BY <1>1, AlwaysGood, PTL

\* dhcp.c: the client never waits for an answer without the timer that gives up, and it
\* has asked for its lease again when T1 has passed, of any server when T2 has, and
\* given it up when it ends.
THEOREM LeaseIsWatched ==
    ASSUME Servers
    PROVE  DhcpSpec => []LeaseWatched
<1>1. DhcpInv => LeaseWatched
  <2> SUFFICES ASSUME Good(Now) PROVE LeaseWatched
    BY DEF DhcpInv
  <2>1. dhcp = Now.d /\ dhcp \in Client
    BY DEF Good, Base, State, Now
  <2>2. NegotiationTimed
    BY <2>1 DEF Good, Timed, Negotiating, NegotiationTimed
  <2>3. /\ Leased(dhcp) /\ Counted(dhcp) /\ dhcp.used \in Nat /\ dhcp.t1r \in Nat
        /\ dhcp.t2r \in Nat
    BY <2>1 DEF Good, Base, Client
  <2>4. /\ TheLease.t0 = LEASE /\ TheLease.t1 = T1 /\ TheLease.t2 = T2
    BY DEF TheLease
  <2>5. LeaseTimed
    BY <2>3, <2>4, Constants DEF Leased, Counted, LeaseTimed
  <2> QED
    BY <2>2, <2>5 DEF LeaseWatched
<1> QED
  BY <1>1, AlwaysGood, PTL
=============================================================================
