--------------------------- MODULE Neighbours_proofs ---------------------------
(***************************************************************************)
(* What ARP and IPv6 neighbour discovery promise, for every set of         *)
(* addresses and every size of the tables: a packet goes to the address    *)
(* its next hop last spoke from, the tables have one entry for an address, *)
(* and no queued packet is lost or kept twice.                             *)
(***************************************************************************)
EXTENDS MCNeighbours, DataInduction, FiniteSetTheorems

-----------------------------------------------------------------------------
(* ARP: the table.                                                         *)

ArpEntry ==
    [state : E!etharp_state, ipaddr : ArpLink \cup {E!NoAddr}, ethaddr : HwAddrs \cup {E!None},
     ctime : Nat, q : ArpLink \cup ArpRemote \cup {E!None}]

\* The hardware address each neighbour last spoke from.
Heard == [ArpLink -> HwAddrs \cup {E!None}]

\* A frame with a packet goes where its next hop last spoke.
ArpFrames(known) ==
    {f \in [type : {"IP", "REQUEST", "REPLY"}, dst : ArpLink \cup ArpRemote,
            hw : HwAddrs \cup {E!None, E!Broadcast}] :
        f.type = "IP" => f.hw = known[E!Hop(f.dst)]}

ArpStates(known) ==
    [table : [E!Slots -> ArpEntry], cached : E!Slots, frames : Seq(ArpFrames(known)),
     copies : Int, ok : BOOLEAN]

\* An empty entry has no address, a resolved one that of its owner, and a packet
\* waits only for the owner's answer.
ArpEntryOK(e, known) ==
    /\ e.state = "EMPTY" => e.ipaddr = E!NoAddr
    /\ e.state # "EMPTY" => e.ipaddr \in ArpLink
    /\ e.state \in E!Stable => e.ethaddr = known[e.ipaddr]
    /\ e.q # E!None => e.state = "PENDING" /\ E!Hop(e.q) = e.ipaddr

ArpWaiting(t) == {i \in E!Slots : t[i].q # E!None}

\* What holds of the table before and after each step of a handler.
ArpOK(s, known) ==
    /\ s \in ArpStates(known) /\ s.ok
    /\ \A i \in E!Slots : ArpEntryOK(s.table[i], known)
    /\ \A i, j \in E!Slots :
          i # j /\ s.table[i].state # "EMPTY" => s.table[i].ipaddr # s.table[j].ipaddr
    /\ s.copies = Cardinality(ArpWaiting(s.table))

\* The same of all entries but k, the only one that ip may have.
ArpBut(s, k, ip, known) ==
    /\ s \in ArpStates(known) /\ s.ok
    /\ \A i \in E!Slots \ {k} : ArpEntryOK(s.table[i], known) /\ s.table[i].ipaddr # ip
    /\ \A i, j \in E!Slots \ {k} :
          i # j /\ s.table[i].state # "EMPTY" => s.table[i].ipaddr # s.table[j].ipaddr
    /\ s.copies = Cardinality(ArpWaiting(s.table))

ArpOne(q) == IF q = E!None THEN 0 ELSE 1

LEMMA ArpConstants ==
    /\ E!NoAddr \notin ArpLink /\ E!None \notin ArpLink \cup ArpRemote
    /\ Gateway \in ArpLink \cup {E!NoAddr}
    /\ ARP_TABLE_SIZE \in Nat /\ ARP_TABLE_SIZE > 0
    /\ E!Slots \subseteq Nat /\ E!Slots = 0..(ARP_TABLE_SIZE - 1)
    /\ \A i \in E!Slots : i <= ARP_TABLE_SIZE
    /\ 0 \in E!Slots /\ IsFiniteSet(E!Slots)
    /\ ARP_MAXAGE \in Nat /\ ARP_MAXAGE > 0 /\ ARP_MAXPENDING \in Nat /\ ARP_MAXPENDING > 0
    /\ ARP_AGE_REREQUEST_USED_UNICAST \in Nat /\ ARP_AGE_REREQUEST_USED_BROADCAST \in Nat
<1>1. /\ ARP_TABLE_SIZE \in Nat \ {0} /\ ARP_MAXPENDING \in Nat \ {0} /\ ARP_MAXAGE \in Nat \ {0}
      /\ ARP_AGE_REREQUEST_USED_UNICAST \in Nat /\ ARP_AGE_REREQUEST_USED_BROADCAST \in Nat
  BY ArpAssumption DEF E!EtharpAssumption
<1>2. /\ E!NoAddr \notin ArpLink /\ E!None \notin ArpLink \cup ArpRemote
      /\ Gateway \in ArpLink \cup {E!NoAddr}
  BY ArpAssumption DEF E!EtharpAssumption
<1>3. IsFiniteSet(0..(ARP_TABLE_SIZE - 1))
  BY <1>1, FS_Interval
<1> QED
  BY <1>1, <1>2, <1>3 DEF E!Slots

\* How the count changes with what waits in one entry.
LEMMA ArpCount ==
    ASSUME NEW t \in [E!Slots -> ArpEntry], NEW k \in E!Slots, NEW e \in ArpEntry
    PROVE  Cardinality(ArpWaiting([t EXCEPT ![k] = e]))
               = Cardinality(ArpWaiting(t)) + ArpOne(e.q) - ArpOne(t[k].q)
<1> DEFINE u == [t EXCEPT ![k] = e]
           W == ArpWaiting(t)
<1>1. IsFiniteSet(W)
  BY ArpConstants, FS_Subset DEF ArpWaiting
<1>2. ArpWaiting(u) = IF e.q = E!None THEN W \ {k} ELSE W \cup {k}
  BY DEF ArpWaiting
<1>3. k \in W <=> t[k].q # E!None
  BY DEF ArpWaiting
<1>4. Cardinality(W) \in Nat
  BY <1>1, FS_CardinalityType
<1> HIDE DEF W
<1>5. /\ Cardinality(W \cup {k}) = IF k \in W THEN Cardinality(W) ELSE Cardinality(W) + 1
      /\ Cardinality(W \ {k}) = IF k \in W THEN Cardinality(W) - 1 ELSE Cardinality(W)
  BY <1>1, FS_AddElement, FS_RemoveElement
<1> QED
  BY <1>2, <1>3, <1>4, <1>5 DEF ArpOne, W

\* The entry that was left out is filled.
LEMMA ArpFilled ==
    ASSUME NEW known \in Heard, NEW s, NEW k \in E!Slots, NEW ip \in ArpLink,
           ArpBut(s, k, ip, known), NEW e \in ArpEntry, ArpEntryOK(e, known),
           e.ipaddr = ip, NEW t \in ArpStates(known), t.ok,
           t.table = [s.table EXCEPT ![k] = e],
           t.copies = s.copies + ArpOne(e.q) - ArpOne(s.table[k].q)
    PROVE  ArpOK(t, known)
<1>1. s \in ArpStates(known) /\ s.table \in [E!Slots -> ArpEntry]
  BY DEF ArpBut, ArpStates
<1>2. /\ t.table[k] = e
      /\ \A i \in E!Slots \ {k} : t.table[i] = s.table[i]
  BY <1>1
<1>3. t.copies = Cardinality(ArpWaiting(t.table))
  BY <1>1, ArpCount DEF ArpBut
<1>4. \A i \in E!Slots : ArpEntryOK(t.table[i], known)
  BY <1>2 DEF ArpBut
<1>5. \A i, j \in E!Slots :
          i # j /\ t.table[i].state # "EMPTY" => t.table[i].ipaddr # t.table[j].ipaddr
  BY <1>2 DEF ArpBut
<1> QED
  BY <1>3, <1>4, <1>5 DEF ArpOK

\* An entry with an address can be changed in place.
LEMMA ArpAround ==
    ASSUME NEW known \in Heard, NEW s, ArpOK(s, known), NEW k \in E!Slots,
           s.table[k].state # "EMPTY"
    PROVE  ArpBut(s, k, s.table[k].ipaddr, known) /\ s.table[k].ipaddr \in ArpLink
BY DEF ArpOK, ArpBut, ArpEntryOK

\* An entry is emptied, and what waited in it is freed.
LEMMA ArpEmptied ==
    ASSUME NEW known \in Heard, NEW s, ArpOK(s, known), NEW k \in E!Slots,
           NEW t \in ArpStates(known), t.ok, t.table = [s.table EXCEPT ![k] = E!Empty],
           t.copies = s.copies - ArpOne(s.table[k].q)
    PROVE  ArpOK(t, known)
<1>1. s \in ArpStates(known) /\ s.table \in [E!Slots -> ArpEntry]
  BY DEF ArpOK, ArpStates
<1>2. E!Empty \in ArpEntry /\ E!Empty.q = E!None /\ ArpEntryOK(E!Empty, known)
      /\ E!Empty.ipaddr = E!NoAddr /\ E!Empty.state = "EMPTY"
  BY DEF E!Empty, ArpEntry, E!etharp_state, ArpEntryOK, E!Stable
<1>3. /\ t.table[k] = E!Empty
      /\ \A i \in E!Slots \ {k} : t.table[i] = s.table[i]
  BY <1>1
<1>4. t.copies = Cardinality(ArpWaiting(t.table))
  <2>1. Cardinality(ArpWaiting(t.table))
          = Cardinality(ArpWaiting(s.table)) + 0 - ArpOne(s.table[k].q)
    BY <1>1, <1>2, ArpCount DEF ArpOne
  <2>2. s.copies \in Int /\ s.copies = Cardinality(ArpWaiting(s.table))
    BY DEF ArpOK, ArpStates
  <2> QED
    BY <2>1, <2>2 DEF ArpOne
<1>5. \A i \in E!Slots : ArpEntryOK(t.table[i], known)
  BY <1>2, <1>3 DEF ArpOK
<1>6. \A i, j \in E!Slots :
          i # j /\ t.table[i].state # "EMPTY" => t.table[i].ipaddr # t.table[j].ipaddr
  <2> SUFFICES ASSUME NEW i \in E!Slots, NEW j \in E!Slots, i # j, t.table[i].state # "EMPTY"
               PROVE  t.table[i].ipaddr # t.table[j].ipaddr
    OBVIOUS
  <2>1. i # k /\ t.table[i] = s.table[i] /\ s.table[i].ipaddr \in ArpLink
    BY <1>2, <1>3 DEF ArpOK, ArpEntryOK
  <2>2. s.table[i].ipaddr # E!NoAddr
    BY <2>1, ArpConstants
  <2> QED
    BY <1>2, <1>3, <2>1, <2>2 DEF ArpOK
<1> QED
  BY <1>4, <1>5, <1>6 DEF ArpOK

LEMMA ArpFreed ==
    ASSUME NEW known \in Heard, NEW s, ArpOK(s, known), NEW k \in E!Slots
    PROVE  ArpOK(E!etharp_free_entry(s, k), known)
<1> DEFINE t == E!etharp_free_entry(s, k)
<1>1. s \in ArpStates(known) /\ s.copies \in Int /\ s.ok
  BY DEF ArpOK, ArpStates
<1>2. E!Empty \in ArpEntry
  BY DEF E!Empty, ArpEntry, E!etharp_state
<1>3. /\ t \in ArpStates(known) /\ t.ok /\ t.table = [s.table EXCEPT ![k] = E!Empty]
      /\ t.copies = s.copies - ArpOne(s.table[k].q)
  <2> DEFINE tb == [s.table EXCEPT ![k] = E!Empty]
             c == IF s.table[k].q = E!None THEN s.copies ELSE s.copies - 1
  <2>1. tb \in [E!Slots -> ArpEntry] /\ c \in Int /\ c = s.copies - ArpOne(s.table[k].q)
    BY <1>1, <1>2 DEF ArpStates, ArpOne
  <2>2. t = [s EXCEPT !.table = tb, !.copies = c]
    BY <1>1 DEF E!etharp_free_entry, ArpStates
  <2> HIDE DEF t, tb, c
  <2>3. t \in ArpStates(known) /\ t.ok /\ t.table = tb /\ t.copies = c
    BY <1>1, <2>1, <2>2 DEF ArpStates
  <2> QED
    BY <2>1, <2>3 DEF tb
<1> HIDE DEF t
<1>4. ArpOK(t, known)
  BY <1>3, ArpEmptied
<1> QED
  BY <1>4 DEF t

LEMMA ArpFreeChanges ==
    ASSUME NEW known \in Heard, NEW s \in ArpStates(known), NEW k \in E!Slots
    PROVE  LET t == E!etharp_free_entry(s, k)
           IN  /\ t.table = [s.table EXCEPT ![k] = E!Empty] /\ s.table \in [E!Slots -> ArpEntry]
               /\ t.frames = s.frames /\ t.cached = s.cached
BY DEF E!etharp_free_entry, ArpStates

\* The oldest of some entries is one of them.
LEMMA ArpOldest ==
    ASSUME NEW known \in Heard, NEW s \in ArpStates(known), NEW S, S \subseteq E!Slots, S # {}
    PROVE  E!Oldest(s, S) \in S
<1> DEFINE f == [i \in 0..(ARP_TABLE_SIZE - 1) |-> s.table[i].ctime]
           T == {i \in S : \A j \in S : s.table[j].ctime <= s.table[i].ctime}
<1>1. f \in [0..(ARP_TABLE_SIZE - 1) -> Nat]
  BY ArpConstants DEF ArpStates, ArpEntry
<1>2. S \subseteq 0..(ARP_TABLE_SIZE - 1)
  BY ArpConstants
<1>3. \A i \in S : f[i] = s.table[i].ctime
  BY <1>2
<1> HIDE DEF f
<1>4. \E i \in S : \A j \in S : f[j] <= f[i]
  BY <1>1, <1>2, ArpConstants, GreatestValue
<1>5. T # {} /\ T \subseteq S
  BY <1>3, <1>4
<1> HIDE DEF T
<1>6. T \subseteq Int /\ \A i \in T : i <= ARP_TABLE_SIZE
  BY <1>5, ArpConstants
<1>7. E!Max(T) \in T
  <2>0. ARP_TABLE_SIZE \in Int
    BY ArpConstants
  <2>1. Max(T) \in T
    BY <1>5, <1>6, <2>0, MaxIsGreatest
  <2> QED
    BY <2>1 DEF Max, E!Max
<1> QED
  BY <1>5, <1>7 DEF E!Oldest, T

\* An entry is made ready for ip: nothing waits in it, and no other has ip.
LEMMA ArpTaken ==
    ASSUME NEW known \in Heard, NEW s, ArpOK(s, known), NEW k \in E!Slots, NEW ip \in ArpLink,
           s.table[k].state = "EMPTY", \A i \in E!Slots : s.table[i].ipaddr # ip
    PROVE  LET t == E!Taken(s, k, ip)
           IN  /\ ArpBut(t, k, ip, known) /\ t.frames = s.frames /\ t.cached = s.cached
               /\ t.table[k] = [E!Empty EXCEPT !.ipaddr = ip]
<1> DEFINE e == [E!Empty EXCEPT !.ipaddr = ip]
           t == E!Taken(s, k, ip)
<1>1. s \in ArpStates(known) /\ s.table \in [E!Slots -> ArpEntry] /\ s.copies \in Int
  BY DEF ArpOK, ArpStates
<1>2. e \in ArpEntry /\ e.q = E!None /\ s.table[k].q = E!None
  BY DEF E!Empty, ArpEntry, E!etharp_state, ArpOK, ArpEntryOK
<1>3. /\ t \in ArpStates(known) /\ t.table = [s.table EXCEPT ![k] = e] /\ t.ok = s.ok
      /\ t.frames = s.frames /\ t.cached = s.cached /\ t.copies = s.copies
  <2>1. t = [s EXCEPT !.table = [s.table EXCEPT ![k] = e]]
    BY <1>1 DEF E!Taken, ArpStates
  <2>2. [s.table EXCEPT ![k] = e] \in [E!Slots -> ArpEntry]
    BY <1>1, <1>2
  <2> HIDE DEF e, t
  <2> QED
    BY <1>1, <2>1, <2>2 DEF ArpStates
<1>4. t.table[k] = e
  BY <1>1, <1>3
<1> HIDE DEF e, t
<1>5. \A i \in E!Slots \ {k} : t.table[i] = s.table[i]
  BY <1>1, <1>3
<1>6. t.copies = Cardinality(ArpWaiting(t.table))
  <2>1. Cardinality(ArpWaiting(t.table)) = Cardinality(ArpWaiting(s.table)) + 0 - 0
    BY <1>1, <1>2, <1>3, ArpCount DEF ArpOne
  <2> QED
    BY <1>1, <1>3, <2>1 DEF ArpOK
<1>7. ArpBut(t, k, ip, known)
  BY <1>3, <1>5, <1>6 DEF ArpOK, ArpBut
<1> QED
  BY <1>3, <1>4, <1>7 DEF e, t

\* Some entry can be recycled, and a resolved one has nothing waiting.
LEMMA ArpRecyclable ==
    ASSUME NEW known \in Heard, NEW s, ArpOK(s, known)
    PROVE  /\ E!Oldest(s, E!Recyclable(s)) \in E!Slots
           /\ s.table[E!Oldest(s, E!Recyclable(s))].state \in E!Stable
                 => s.table[E!Oldest(s, E!Recyclable(s))].q = E!None
<1>1. E!Recyclable(s) \subseteq E!Slots /\ E!Recyclable(s) # {}
  BY ArpConstants DEF E!Recyclable
<1>2. E!Oldest(s, E!Recyclable(s)) \in E!Slots
  BY <1>1, ArpOldest DEF ArpOK
<1> QED
  BY <1>2 DEF ArpOK, ArpEntryOK, E!Stable

\* etharp_find_entry: the entry of ip, or one that is made ready for it.
LEMMA ArpFind ==
    ASSUME NEW known \in Heard, NEW s, ArpOK(s, known), NEW ip \in ArpLink,
           NEW flags \in {"FIND_ONLY", "TRY_HARD"}, NEW r, r = E!etharp_find_entry(s, ip, flags)
    PROVE  \/ /\ r.i = -1 /\ r.s = s /\ flags = "FIND_ONLY"
              /\ \A i \in E!Slots : s.table[i].ipaddr # ip
           \/ /\ r.i \in E!Slots /\ r.i # -1 /\ ArpBut(r.s, r.i, ip, known)
              /\ r.s.frames = s.frames /\ r.s.cached = s.cached
              /\ \/ r.s = s /\ s.table[r.i].state # "EMPTY" /\ s.table[r.i].ipaddr = ip
                 \/ r.s.table[r.i] = [E!Empty EXCEPT !.ipaddr = ip]
<1>0. -1 \notin E!Slots /\ s \in ArpStates(known) /\ s.ok
  BY ArpConstants DEF ArpOK
<1>1. CASE E!Found(s, ip) # {}
  <2> DEFINE k == E!Min(E!Found(s, ip))
  <2>1. k \in E!Found(s, ip)
    BY <1>1, ArpConstants, MinIsLeast DEF Min, E!Min, E!Found
  <2>2. k \in E!Slots /\ s.table[k].state # "EMPTY" /\ s.table[k].ipaddr = ip
    BY <2>1 DEF E!Found
  <2>3. r.i = k /\ r.s = s
    BY <1>1 DEF E!etharp_find_entry
  <2> HIDE DEF k
  <2> QED
    BY <1>0, <2>2, <2>3, ArpAround
<1>2. CASE E!Found(s, ip) = {}
  <2>1. \A i \in E!Slots : s.table[i].ipaddr # ip
    BY <1>2, ArpConstants DEF E!Found, ArpOK, ArpEntryOK
  <2>2. CASE flags = "FIND_ONLY"
    <3>1. r.i = -1 /\ r.s = s
      BY <1>2, <2>2 DEF E!etharp_find_entry
    <3> QED
      BY <2>1, <2>2, <3>1
  <2>3. CASE flags = "TRY_HARD" /\ E!Free(s) # {}
    <3> DEFINE k == E!Min(E!Free(s))
    <3>1. k \in E!Free(s)
      BY <2>3, ArpConstants, MinIsLeast DEF Min, E!Min, E!Free
    <3>2. k \in E!Slots /\ s.table[k].state = "EMPTY"
      BY <3>1 DEF E!Free
    <3>3. r.i = k /\ r.s = E!Taken(s, k, ip)
      BY <1>2, <2>3 DEF E!etharp_find_entry
    <3> HIDE DEF k
    <3>4. /\ r.s.table[k] = [E!Empty EXCEPT !.ipaddr = ip]
          /\ ArpBut(r.s, k, ip, known) /\ r.s.frames = s.frames /\ r.s.cached = s.cached
      BY <2>1, <3>2, <3>3, ArpTaken
    <3> QED
      BY <1>0, <3>2, <3>3, <3>4
  <2>4. CASE flags = "TRY_HARD" /\ E!Free(s) = {}
    <3> DEFINE k == E!Oldest(s, E!Recyclable(s))
               c == [s EXCEPT !.ok = @ /\ (s.table[k].state \in E!Stable => s.table[k].q = E!None)]
               f == E!etharp_free_entry(c, k)
    <3>1. k \in E!Slots /\ (s.table[k].state \in E!Stable => s.table[k].q = E!None)
      BY ArpRecyclable
    <3>2. r.i = k /\ r.s = E!Taken(f, k, ip)
      BY <1>2, <2>4 DEF E!etharp_find_entry
    <3> HIDE DEF k
    <3>3. c = s
      BY <1>0, <3>1 DEF ArpStates
    <3> HIDE DEF c
    <3>4. ArpOK(f, known)
      BY <3>1, <3>3, ArpFreed
    <3>5. /\ f.table = [s.table EXCEPT ![k] = E!Empty] /\ s.table \in [E!Slots -> ArpEntry]
          /\ f.frames = s.frames /\ f.cached = s.cached
      BY <1>0, <3>1, <3>3, ArpFreeChanges
    <3>6. f.table[k].state = "EMPTY" /\ \A i \in E!Slots : f.table[i].ipaddr # ip
      BY <2>1, <3>1, <3>5, ArpConstants DEF E!Empty
    <3> HIDE DEF f
    <3>7. /\ ArpBut(r.s, k, ip, known) /\ r.s.frames = s.frames /\ r.s.cached = s.cached
          /\ r.s.table[k] = [E!Empty EXCEPT !.ipaddr = ip]
      BY <3>1, <3>2, <3>4, <3>5, <3>6, ArpTaken
    <3> QED
      BY <1>0, <3>1, <3>2, <3>7
  <2> QED
    BY <2>2, <2>3, <2>4
<1> QED
  BY <1>1, <1>2

-----------------------------------------------------------------------------
(* ARP: sending.                                                           *)

LEMMA ArpSame ==
    ASSUME NEW known \in Heard, NEW s, ArpOK(s, known), NEW t \in ArpStates(known), t.ok,
           t.table = s.table, t.copies = s.copies
    PROVE  ArpOK(t, known)
BY DEF ArpOK

LEMMA ArpEmit ==
    ASSUME NEW known \in Heard, NEW s, ArpOK(s, known), NEW f \in ArpFrames(known)
    PROVE  /\ ArpOK(E!Emit(s, f), known) /\ E!Emit(s, f).table = s.table
           /\ E!Emit(s, f).cached = s.cached
<1> DEFINE t == E!Emit(s, f)
<1>1. s \in ArpStates(known) /\ s.ok /\ s.frames \in Seq(ArpFrames(known))
  BY DEF ArpOK, ArpStates
<1>2. t = [s EXCEPT !.frames = Append(s.frames, f)]
  BY DEF E!Emit
<1>3. Append(s.frames, f) \in Seq(ArpFrames(known))
  BY <1>1, AppendProperties
<1> HIDE DEF t
<1>4. /\ t \in ArpStates(known) /\ t.ok /\ t.table = s.table /\ t.copies = s.copies
      /\ t.cached = s.cached
  BY <1>1, <1>2, <1>3 DEF ArpStates
<1>5. ArpOK(t, known)
  BY <1>4, ArpSame
<1> QED
  BY <1>4, <1>5 DEF t

LEMMA ArpPacket ==
    ASSUME NEW known \in Heard, NEW s, ArpOK(s, known), NEW dst \in ArpLink \cup ArpRemote,
           E!Hop(dst) \in ArpLink, NEW hw, hw = known[E!Hop(dst)]
    PROVE  /\ ArpOK(E!ethernet_output(s, dst, hw), known)
           /\ E!ethernet_output(s, dst, hw).table = s.table
           /\ E!ethernet_output(s, dst, hw).cached = s.cached
<1> DEFINE f == [type |-> "IP", dst |-> dst, hw |-> hw]
<1>1. hw \in HwAddrs \cup {E!None, E!Broadcast}
  BY DEF Heard
<1>2. f \in ArpFrames(known)
  BY <1>1 DEF ArpFrames
<1> HIDE DEF f
<1> QED
  BY <1>2, ArpEmit DEF E!ethernet_output, f

LEMMA ArpMessage ==
    ASSUME NEW known \in Heard, NEW s, ArpOK(s, known), NEW op \in {"REQUEST", "REPLY"},
           NEW ip \in ArpLink, NEW hw \in HwAddrs \cup {E!None, E!Broadcast}
    PROVE  /\ ArpOK(E!etharp_raw(s, op, ip, hw), known)
           /\ E!etharp_raw(s, op, ip, hw).table = s.table
           /\ E!etharp_raw(s, op, ip, hw).cached = s.cached
<1> DEFINE f == [type |-> op, dst |-> ip, hw |-> hw]
<1>1. f \in ArpFrames(known)
  BY DEF ArpFrames
<1> HIDE DEF f
<1> QED
  BY <1>1, ArpEmit DEF E!etharp_raw, f

\* A new state for an entry that has one already and stays resolved or pending.
LEMMA ArpRestated ==
    ASSUME NEW known \in Heard, NEW s, ArpOK(s, known), NEW k \in E!Slots,
           NEW e \in ArpEntry, s.table[k].state # "EMPTY", e.state # "EMPTY",
           e.ipaddr = s.table[k].ipaddr, ArpEntryOK(e, known),
           NEW t \in ArpStates(known), t.ok, t.table = [s.table EXCEPT ![k] = e],
           t.copies = s.copies + ArpOne(e.q) - ArpOne(s.table[k].q)
    PROVE  ArpOK(t, known)
BY ArpAround, ArpFilled

\* An entry that gets old is asked for again, and keeps its address.
LEMMA ArpRerequested ==
    ASSUME NEW known \in Heard, NEW s, ArpOK(s, known), NEW k \in E!Slots,
           NEW oom \in BOOLEAN
    PROVE  ArpOK(E!Rerequest(s, k, oom), known)
<1> DEFINE e == s.table[k]
           hw == IF e.ctime >= ARP_AGE_REREQUEST_USED_BROADCAST THEN E!Broadcast ELSE e.ethaddr
           r == E!etharp_raw(s, "REQUEST", e.ipaddr, hw)
           t == E!Rerequest(s, k, oom)
<1>1. s \in ArpStates(known) /\ e \in ArpEntry /\ ArpEntryOK(e, known)
  BY DEF ArpOK, ArpStates
<1>2. CASE t = s
  BY <1>2
<1>3. CASE e.state = "STABLE" /\ t = [r EXCEPT !.table[k].state = "STABLE_REREQUESTING_1"]
  <2>1. e.ipaddr \in ArpLink /\ hw \in HwAddrs \cup {E!None, E!Broadcast}
    BY <1>1, <1>3 DEF ArpEntryOK, ArpEntry
  <2> HIDE DEF hw
  <2>2. ArpOK(r, known) /\ r.table = s.table
    BY <2>1, ArpMessage
  <2> DEFINE f == [e EXCEPT !.state = "STABLE_REREQUESTING_1"]
             tb == [r.table EXCEPT ![k] = f]
  <2>3. /\ f \in ArpEntry /\ f.state # "EMPTY" /\ f.ipaddr = e.ipaddr
        /\ f.q = E!None /\ e.q = E!None /\ ArpEntryOK(f, known)
    BY <1>1, <1>3 DEF ArpEntry, ArpEntryOK, E!etharp_state, E!Stable
  <2> HIDE DEF r, t
  <2>4. r \in ArpStates(known) /\ r.ok /\ r.table \in [E!Slots -> ArpEntry] /\ r.copies \in Int
    BY <2>2 DEF ArpOK, ArpStates
  <2>5. t = [r EXCEPT !.table = tb]
    <3>1. r.table[k] = e
      BY <2>2
    <3> HIDE DEF e
    <3> QED
      BY <1>3, <2>4, <3>1 DEF ArpStates
  <2>6. tb \in [E!Slots -> ArpEntry]
    BY <2>3, <2>4
  <2> HIDE DEF tb, f
  <2>7. t \in ArpStates(known) /\ t.ok /\ t.table = tb /\ t.copies = r.copies
    BY <2>4, <2>5, <2>6 DEF ArpStates
  <2>8. t.copies = r.copies + ArpOne(f.q) - ArpOne(r.table[k].q)
    BY <2>2, <2>3, <2>4, <2>7 DEF ArpOne
  <2>9. r.table[k].state # "EMPTY" /\ r.table[k].ipaddr = f.ipaddr
    BY <1>3, <2>2, <2>3
  <2>10. ArpOK(t, known)
    BY <2>2, <2>3, <2>7, <2>8, <2>9, ArpRestated DEF tb
  <2> QED
    BY <2>10 DEF t
<1> QED
  BY <1>2, <1>3 DEF E!Rerequest

\* A packet is sent to the owner of a resolved entry.
LEMMA ArpOutputIndex ==
    ASSUME NEW known \in Heard, NEW s, ArpOK(s, known), NEW k \in E!Slots,
           NEW dst \in ArpLink \cup ArpRemote, NEW oom \in BOOLEAN,
           s.table[k].state \in E!Stable, s.table[k].ipaddr = E!Hop(dst)
    PROVE  ArpOK(E!etharp_output_to_arp_index(s, dst, k, oom), known)
<1> DEFINE r == E!Rerequest(s, k, oom)
           u == [r EXCEPT !.ok = @ /\ s.table[k].state \in E!Stable]
<1>1. ArpOK(r, known)
  BY ArpRerequested
<1> HIDE DEF r
<1>2. u = r
  BY <1>1 DEF ArpOK, ArpStates
<1>3. E!Hop(dst) \in ArpLink /\ s.table[k].ethaddr = known[E!Hop(dst)]
  BY DEF ArpOK, ArpEntryOK, E!Stable
<1> HIDE DEF u
<1>4. ArpOK(E!ethernet_output(u, dst, s.table[k].ethaddr), known)
  BY <1>1, <1>2, <1>3, ArpPacket
<1> QED
  BY <1>4 DEF E!etharp_output_to_arp_index, u, r

\* What is found for an address, with a new entry pending.
ArpPending(r) ==
    IF r.s.table[r.i].state = "EMPTY" THEN [r.s EXCEPT !.table[r.i].state = "PENDING"] ELSE r.s

\* The entry that is found for ip is pending if it is new.
LEMMA ArpReady ==
    ASSUME NEW known \in Heard, NEW s, ArpOK(s, known), NEW ip \in ArpLink,
           NEW r, r = E!etharp_find_entry(s, ip, "TRY_HARD"), NEW t, t = ArpPending(r)
    PROVE  /\ r.i \in E!Slots /\ ArpOK(t, known)
           /\ t.table[r.i].state # "EMPTY" /\ t.table[r.i].ipaddr = ip
<1>1. /\ r.i \in E!Slots /\ ArpBut(r.s, r.i, ip, known)
      /\ \/ r.s = s /\ s.table[r.i].state # "EMPTY" /\ s.table[r.i].ipaddr = ip
         \/ r.s.table[r.i] = [E!Empty EXCEPT !.ipaddr = ip]
  BY ArpFind
<1>2. CASE r.s = s /\ s.table[r.i].state # "EMPTY" /\ s.table[r.i].ipaddr = ip
  BY <1>1, <1>2 DEF ArpPending
<1>3. CASE r.s.table[r.i] = [E!Empty EXCEPT !.ipaddr = ip]
  <2> DEFINE k == r.i
             u == r.s
             e == [[E!Empty EXCEPT !.ipaddr = ip] EXCEPT !.state = "PENDING"]
             tb == [u.table EXCEPT ![k] = e]
  <2>0. k \in E!Slots /\ ArpBut(u, k, ip, known) /\ u.table[k] = [E!Empty EXCEPT !.ipaddr = ip]
        /\ t = IF u.table[k].state = "EMPTY" THEN [u EXCEPT !.table[k].state = "PENDING"] ELSE u
    BY <1>1, <1>3 DEF ArpPending
  <2> HIDE DEF k, u
  <2>1. u.table[k].state = "EMPTY" /\ u.table[k].q = E!None
    BY <2>0 DEF E!Empty
  <2>2. /\ e \in ArpEntry /\ e.state = "PENDING" /\ e.ipaddr = ip /\ e.q = E!None
        /\ ArpEntryOK(e, known)
    BY DEF E!Empty, ArpEntry, E!etharp_state, ArpEntryOK, E!Stable
  <2>3. /\ u \in ArpStates(known) /\ u.ok /\ u.table \in [E!Slots -> ArpEntry]
        /\ u.copies \in Int
    BY <2>0 DEF ArpBut, ArpStates
  <2>4. t = [u EXCEPT !.table = tb]
    BY <2>0, <2>1, <2>3 DEF ArpStates
  <2>5. tb \in [E!Slots -> ArpEntry] /\ tb[k] = e
    BY <2>0, <2>2, <2>3
  <2> HIDE DEF e, tb
  <2>6. t \in ArpStates(known) /\ t.ok /\ t.table = tb /\ t.copies = u.copies
    BY <2>3, <2>4, <2>5 DEF ArpStates
  <2>7. t.copies = u.copies + ArpOne(e.q) - ArpOne(u.table[k].q)
    BY <2>1, <2>2, <2>3, <2>6 DEF ArpOne
  <2>8. ArpOK(t, known)
    BY <2>0, <2>2, <2>6, <2>7, ArpFilled DEF tb
  <2>9. t.table[k].state # "EMPTY" /\ t.table[k].ipaddr = ip
    BY <2>2, <2>5, <2>6
  <2> QED
    BY <2>0, <2>8, <2>9 DEF k
<1> QED
  BY <1>1, <1>2, <1>3

\* A packet waits for the owner of a pending entry.
LEMMA ArpEnqueue ==
    ASSUME NEW known \in Heard, NEW s, ArpOK(s, known), NEW k \in E!Slots,
           NEW dst \in ArpLink \cup ArpRemote, NEW oom \in BOOLEAN,
           s.table[k].state = "PENDING", s.table[k].ipaddr = E!Hop(dst)
    PROVE  ArpOK(E!Enqueue(s, k, dst, oom), known)
<1> DEFINE e == [s.table[k] EXCEPT !.q = dst]
           tb == [s.table EXCEPT ![k] = e]
           c == IF s.table[k].q = E!None THEN s.copies + 1 ELSE s.copies
           t == E!Enqueue(s, k, dst, oom)
<1>1. /\ s \in ArpStates(known) /\ s.ok /\ s.table \in [E!Slots -> ArpEntry]
      /\ s.copies \in Int /\ s.table[k] \in ArpEntry /\ ArpEntryOK(s.table[k], known)
  BY DEF ArpOK, ArpStates
<1>2. CASE oom
  BY <1>2 DEF E!Enqueue
<1>3. CASE ~oom
  <2>1. t = [s EXCEPT !.table = tb, !.copies = c]
    BY <1>1, <1>3 DEF E!Enqueue, ArpStates
  <2>2. /\ e \in ArpEntry /\ e.state = "PENDING" /\ e.ipaddr = E!Hop(dst) /\ e.q = dst
        /\ ArpEntryOK(e, known)
    BY <1>1 DEF ArpEntry, ArpEntryOK, E!etharp_state, E!Stable
  <2>3. tb \in [E!Slots -> ArpEntry] /\ c \in Int
    BY <1>1, <2>2
  <2>4. c = s.copies + ArpOne(e.q) - ArpOne(s.table[k].q)
    BY <1>1, <2>2, ArpConstants DEF ArpOne
  <2> HIDE DEF e, tb, c, t
  <2>5. t \in ArpStates(known) /\ t.ok /\ t.table = tb /\ t.copies = c
    BY <1>1, <2>1, <2>3 DEF ArpStates
  <2>6. ArpOK(t, known)
    BY <2>2, <2>4, <2>5, ArpRestated DEF tb
  <2> QED
    BY <2>6 DEF t
<1> QED
  BY <1>2, <1>3

LEMMA ArpQuery ==
    ASSUME NEW known \in Heard, NEW s, ArpOK(s, known), NEW dst \in ArpLink \cup ArpRemote,
           NEW ip \in ArpLink, ip = E!Hop(dst), NEW oom \in BOOLEAN
    PROVE  ArpOK(E!etharp_query(s, ip, dst, oom), known)
<1> DEFINE r == E!etharp_find_entry(s, ip, "TRY_HARD")
           k == r.i
           new == r.s.table[k].state = "EMPTY"
           u == IF new THEN [r.s EXCEPT !.table[k].state = "PENDING"] ELSE r.s
           v == IF new /\ ~oom THEN E!etharp_request(u, ip) ELSE u
           w == [v EXCEPT !.cached = k]
           t == E!etharp_query(s, ip, dst, oom)
<1>1. t = IF v.table[k].state \in E!Stable
          THEN E!ethernet_output(w, dst, v.table[k].ethaddr) ELSE E!Enqueue(v, k, dst, oom)
  BY DEF E!etharp_query
<1> HIDE DEF t
<1>2. k \in E!Slots /\ ArpOK(u, known) /\ u.table[k].state # "EMPTY" /\ u.table[k].ipaddr = ip
  <2>1. r = E!etharp_find_entry(s, ip, "TRY_HARD")
    OBVIOUS
  <2> HIDE DEF r
  <2>2. u = ArpPending(r)
    BY DEF ArpPending
  <2> HIDE DEF u
  <2> QED
    BY <2>1, <2>2, ArpReady
<1> HIDE DEF r
<1> HIDE DEF u, new, k
<1>3. ArpOK(v, known) /\ v.table = u.table
  BY <1>2, ArpMessage DEF E!etharp_request
<1> HIDE DEF v
<1>4. CASE v.table[k].state \in E!Stable
  <2>1. v \in ArpStates(known) /\ v.ok
    BY <1>3 DEF ArpOK
  <2>2. w \in ArpStates(known) /\ w.ok /\ w.table = v.table /\ w.copies = v.copies
    BY <1>2, <2>1 DEF ArpStates
  <2> HIDE DEF w
  <2>3. ArpOK(w, known)
    BY <1>3, <2>2, ArpSame
  <2>4. v.table[k].ethaddr = known[ip]
    BY <1>2, <1>3, <1>4 DEF ArpOK, ArpEntryOK
  <2>5. ArpOK(E!ethernet_output(w, dst, v.table[k].ethaddr), known)
    BY <2>3, <2>4, ArpPacket
  <2> QED
    BY <1>1, <1>4, <2>5 DEF t
<1>5. CASE v.table[k].state \notin E!Stable
  <2>1. v.table[k].state = "PENDING"
    BY <1>2, <1>3, <1>5 DEF ArpOK, ArpStates, ArpEntry, E!etharp_state
  <2>2. ArpOK(E!Enqueue(v, k, dst, oom), known)
    BY <1>2, <1>3, <2>1, ArpEnqueue
  <2> QED
    BY <1>1, <1>5, <2>2 DEF t
<1> QED
  BY <1>4, <1>5

LEMMA ArpOutput ==
    ASSUME NEW known \in Heard, NEW s, ArpOK(s, known), NEW dst \in ArpLink \cup ArpRemote,
           NEW oom \in BOOLEAN
    PROVE  ArpOK(E!etharp_output(s, dst, oom), known)
<1> DEFINE ip == E!Hop(dst)
           stable == {i \in E!Found(s, ip) : s.table[i].state \in E!Stable}
           k == E!Min(stable)
           u == [s EXCEPT !.cached = k]
           t == E!etharp_output(s, dst, oom)
<1>1. t = IF ip = E!NoAddr THEN s
          ELSE IF E!Cached(s, ip) THEN E!etharp_output_to_arp_index(s, dst, s.cached, oom)
          ELSE IF stable # {} THEN E!etharp_output_to_arp_index(u, dst, k, oom)
          ELSE E!etharp_query(s, ip, dst, oom)
  BY DEF E!etharp_output
<1>0. s \in ArpStates(known) /\ s.ok /\ s.cached \in E!Slots
  BY DEF ArpOK, ArpStates
<1>2. ip \in ArpLink \cup {E!NoAddr}
  BY ArpConstants DEF E!Hop
<1>3. CASE ip = E!NoAddr
  BY <1>1, <1>3
<1>4. CASE ip # E!NoAddr /\ E!Cached(s, ip)
  BY <1>0, <1>1, <1>4, ArpOutputIndex DEF E!Cached
<1>5. CASE ip # E!NoAddr /\ ~E!Cached(s, ip) /\ stable # {}
  <2>1. k \in stable
    <3>1. stable \subseteq Nat
      BY ArpConstants DEF E!Found
    <3> HIDE DEF stable
    <3> QED
      BY <1>5, <3>1, MinIsLeast DEF Min, E!Min
  <2>2. k \in E!Slots /\ s.table[k].state \in E!Stable /\ s.table[k].ipaddr = ip
    BY <2>1 DEF E!Found
  <2> HIDE DEF k
  <2>3. u \in ArpStates(known) /\ u.ok /\ u.table = s.table /\ u.copies = s.copies
    BY <1>0, <2>2 DEF ArpStates
  <2> HIDE DEF u
  <2>4. ArpOK(u, known)
    BY <2>3, ArpSame
  <2>5. ArpOK(E!etharp_output_to_arp_index(u, dst, k, oom), known)
    BY <2>2, <2>3, <2>4, ArpOutputIndex
  <2>6. t = E!etharp_output_to_arp_index(u, dst, k, oom)
    BY <1>1, <1>5
  <2> QED
    BY <2>5, <2>6
<1>6. CASE ip # E!NoAddr /\ ~E!Cached(s, ip) /\ stable = {}
  <2>1. ArpOK(E!etharp_query(s, ip, dst, oom), known)
    BY <1>2, <1>6, ArpQuery
  <2>2. t = E!etharp_query(s, ip, dst, oom)
    BY <1>1, <1>6
  <2> QED
    BY <2>1, <2>2
<1> QED
  BY <1>3, <1>4, <1>5, <1>6

-----------------------------------------------------------------------------
(* ARP: receiving, the timer and the interface.                            *)

\* Only the entry that was left out has the address of which something new was heard.
LEMMA ArpHeard ==
    ASSUME NEW known \in Heard, NEW s, NEW k \in E!Slots, NEW ip \in ArpLink,
           NEW hw \in HwAddrs, ArpBut(s, k, ip, known), s.frames = <<>>
    PROVE  ArpBut(s, k, ip, [known EXCEPT ![ip] = hw])
<1> DEFINE new == [known EXCEPT ![ip] = hw]
<1>1. s \in ArpStates(known) /\ s.frames \in Seq(ArpFrames(new))
  BY DEF ArpBut
<1>2. s \in ArpStates(new)
  BY <1>1 DEF ArpStates
<1>3. \A i \in E!Slots \ {k} : ArpEntryOK(s.table[i], new) /\ s.table[i].ipaddr # ip
  <2> SUFFICES ASSUME NEW i \in E!Slots \ {k}
               PROVE  ArpEntryOK(s.table[i], new) /\ s.table[i].ipaddr # ip
    OBVIOUS
  <2>1. ArpEntryOK(s.table[i], known) /\ s.table[i].ipaddr # ip
    BY DEF ArpBut
  <2>2. s.table[i].state \in E!Stable => s.table[i].ipaddr \in ArpLink
    BY <2>1 DEF ArpEntryOK, E!Stable
  <2> QED
    BY <2>1, <2>2 DEF ArpEntryOK, Heard
<1> HIDE DEF new
<1>4. ArpBut(s, k, ip, new)
  BY <1>2, <1>3 DEF ArpBut
<1> QED
  BY <1>4 DEF new

\* Of an address that has no entry something new can be heard.
LEMMA ArpUnheard ==
    ASSUME NEW known \in Heard, NEW s, NEW ip \in ArpLink, NEW hw \in HwAddrs,
           ArpOK(s, known), s.frames = <<>>, \A i \in E!Slots : s.table[i].ipaddr # ip
    PROVE  ArpOK(s, [known EXCEPT ![ip] = hw])
<1> DEFINE new == [known EXCEPT ![ip] = hw]
<1>1. s \in ArpStates(known) /\ s.frames \in Seq(ArpFrames(new))
  BY DEF ArpOK
<1>2. s \in ArpStates(new)
  BY <1>1 DEF ArpStates
<1>3. \A i \in E!Slots : ArpEntryOK(s.table[i], new)
  <2> SUFFICES ASSUME NEW i \in E!Slots PROVE ArpEntryOK(s.table[i], new)
    OBVIOUS
  <2>1. ArpEntryOK(s.table[i], known) /\ s.table[i].ipaddr # ip
    BY DEF ArpOK
  <2>2. s.table[i].state \in E!Stable => s.table[i].ipaddr \in ArpLink
    BY <2>1 DEF ArpEntryOK, E!Stable
  <2> QED
    BY <2>1, <2>2 DEF ArpEntryOK, Heard
<1> HIDE DEF new
<1>4. ArpOK(s, new)
  BY <1>2, <1>3 DEF ArpOK
<1> QED
  BY <1>4 DEF new

LEMMA ArpUpdated ==
    ASSUME NEW known \in Heard, NEW s, ArpOK(s, known), s.frames = <<>>, NEW ip \in ArpLink,
           NEW hw \in HwAddrs, NEW flags \in {"FIND_ONLY", "TRY_HARD"}
    PROVE  ArpOK(E!etharp_update_arp_entry(s, ip, hw, flags), [known EXCEPT ![ip] = hw])
<1> DEFINE r == E!etharp_find_entry(s, ip, flags)
           k == r.i
           u == r.s
           q == u.table[k].q
           e == [state |-> "STABLE", ipaddr |-> ip, ethaddr |-> hw, ctime |-> 0, q |-> E!None]
           t == [u EXCEPT !.table[k] = e]
           sent == E!ethernet_output(t, q, hw)
           x == E!etharp_update_arp_entry(s, ip, hw, flags)
           new == [known EXCEPT ![ip] = hw]
<1>0. new \in Heard /\ new[ip] = hw
  BY DEF Heard
<1>1. x = IF k = -1 THEN u ELSE IF q = E!None THEN t ELSE [sent EXCEPT !.copies = @ - 1]
  BY DEF E!etharp_update_arp_entry
<1>2. \/ k = -1 /\ u = s /\ \A i \in E!Slots : s.table[i].ipaddr # ip
      \/ /\ k \in E!Slots /\ k # -1 /\ ArpBut(u, k, ip, known) /\ u.frames = <<>>
         /\ \/ u = s /\ s.table[k].ipaddr = ip
            \/ u.table[k] = [E!Empty EXCEPT !.ipaddr = ip]
  <2>1. r = E!etharp_find_entry(s, ip, flags)
    OBVIOUS
  <2> HIDE DEF r
  <2> QED
    BY <2>1, ArpFind
<1> HIDE DEF x, u, k, r
<1>3. CASE k = -1 /\ u = s /\ \A i \in E!Slots : s.table[i].ipaddr # ip
  <2>1. ArpOK(u, new)
    BY <1>3, ArpUnheard
  <2> QED
    BY <1>1, <1>3, <2>1 DEF x
<1>4. CASE /\ k \in E!Slots /\ k # -1 /\ ArpBut(u, k, ip, known) /\ u.frames = <<>>
           /\ \/ u = s /\ s.table[k].ipaddr = ip
              \/ u.table[k] = [E!Empty EXCEPT !.ipaddr = ip]
  <2>1. ArpBut(u, k, ip, new)
    BY <1>4, ArpHeard
  <2>2. q # E!None => E!Hop(q) = ip /\ q \in ArpLink \cup ArpRemote
    <3>1. CASE u = s /\ s.table[k].ipaddr = ip
      BY <1>4, <3>1 DEF ArpOK, ArpEntryOK, ArpStates, ArpEntry
    <3>2. CASE u.table[k] = [E!Empty EXCEPT !.ipaddr = ip]
      BY <3>2 DEF E!Empty
    <3> QED
      BY <1>4, <3>1, <3>2
  <2>3. /\ e \in ArpEntry /\ e.ipaddr = ip /\ e.q = E!None /\ ArpEntryOK(e, new)
    BY <1>0 DEF ArpEntry, ArpEntryOK, E!etharp_state, E!Stable
  <2> DEFINE tb == [u.table EXCEPT ![k] = e]
             c == u.copies - ArpOne(q)
             v == [u EXCEPT !.table = tb, !.copies = c]
  <2>4. u \in ArpStates(new) /\ u.ok /\ u.table \in [E!Slots -> ArpEntry] /\ u.copies \in Int
    BY <2>1 DEF ArpBut, ArpStates
  <2>5. t = [u EXCEPT !.table = tb]
    OBVIOUS
  <2>6. tb \in [E!Slots -> ArpEntry] /\ c \in Int
    BY <1>4, <2>3, <2>4 DEF ArpOne
  <2>7. c = u.copies + ArpOne(e.q) - ArpOne(u.table[k].q)
    BY <2>3, <2>4 DEF ArpOne
  <2> HIDE DEF e, t, tb, q
  <2>8. v \in ArpStates(new) /\ v.ok /\ v.table = tb /\ v.copies = c
    BY <2>4, <2>6 DEF ArpStates
  <2> HIDE DEF c
  <2>9. ArpOK(v, new)
    <3> HIDE DEF v, new
    <3> QED
      BY <1>0, <1>4, <2>1, <2>3, <2>7, <2>8, ArpFilled DEF tb
  <2>10. CASE q = E!None
    <3>1. c = u.copies
      BY <2>4, <2>10 DEF ArpOne, c
    <3>2. v = t
      BY <2>4, <2>5, <3>1 DEF ArpStates
    <3> QED
      BY <1>1, <1>4, <2>9, <2>10, <3>2 DEF x
  <2>11. CASE q # E!None
    <3> DEFINE f == [type |-> "IP", dst |-> q, hw |-> hw]
               y == E!ethernet_output(v, q, hw)
    <3>1. ArpOK(y, new)
      <4> HIDE DEF v, new
      <4> QED
        BY <1>0, <2>2, <2>9, <2>11, ArpPacket
    <3>2. c = u.copies - 1
      BY <2>4, <2>11 DEF ArpOne, c
    <3>3. sent = [t EXCEPT !.frames = Append(t.frames, f)]
      BY DEF E!ethernet_output, E!Emit
    <3>4. y = [v EXCEPT !.frames = Append(v.frames, f)]
      BY DEF E!ethernet_output, E!Emit
    <3> HIDE DEF f, sent, y
    <3>5. [sent EXCEPT !.copies = @ - 1] = y
      BY <2>4, <2>5, <3>2, <3>3, <3>4 DEF ArpStates
    <3> QED
      BY <1>1, <1>4, <2>11, <3>1, <3>5 DEF x
  <2> QED
    BY <2>10, <2>11
<1> QED
  BY <1>2, <1>3, <1>4

LEMMA ArpAged ==
    ASSUME NEW known \in Heard, NEW s, ArpOK(s, known), NEW k \in E!Slots
    PROVE  ArpOK(E!Aged(s, k), known)
<1> DEFINE e == [s.table[k] EXCEPT !.ctime = @ + 1]
           tb == [s.table EXCEPT ![k] = e]
           t == [s EXCEPT !.table[k] = e]
           x == E!Aged(s, k)
           over == e.ctime >= (IF e.state = "PENDING" THEN ARP_MAXPENDING ELSE ARP_MAXAGE)
           One == [t EXCEPT !.table[k].state = "STABLE_REREQUESTING_2"]
           Two == [t EXCEPT !.table[k].state = "STABLE"]
<1>1. /\ s \in ArpStates(known) /\ s.ok /\ s.table \in [E!Slots -> ArpEntry]
      /\ s.copies \in Int /\ s.table[k] \in ArpEntry /\ ArpEntryOK(s.table[k], known)
  BY DEF ArpOK, ArpStates
<1>2. \/ x = s
      \/ e.state # "EMPTY" /\ x = E!etharp_free_entry(t, k)
      \/ e.state = "STABLE_REREQUESTING_1" /\ x = One
      \/ e.state = "STABLE_REREQUESTING_2" /\ x = Two
      \/ e.state = "PENDING" /\ x = E!etharp_request(t, e.ipaddr)
      \/ e.state # "EMPTY" /\ x = t
  <2>1. x = IF e.state = "EMPTY" THEN s ELSE IF over THEN E!etharp_free_entry(t, k)
            ELSE CASE e.state = "STABLE_REREQUESTING_1" -> One
                   [] e.state = "STABLE_REREQUESTING_2" -> Two
                   [] e.state = "PENDING" -> E!etharp_request(t, e.ipaddr)
                   [] OTHER -> t
    BY DEF E!Aged
  <2> HIDE DEF e, t, One, Two, over, x
  <2> QED
    BY <2>1
<1>3. /\ e \in ArpEntry /\ ArpEntryOK(e, known) /\ e.state = s.table[k].state
      /\ e.ipaddr = s.table[k].ipaddr /\ e.q = s.table[k].q
  BY <1>1 DEF ArpEntry, ArpEntryOK
<1>4. t = [s EXCEPT !.table = tb] /\ tb \in [E!Slots -> ArpEntry] /\ tb[k] = e
  BY <1>1, <1>3
<1> HIDE DEF x
<1>5. CASE e.state = "EMPTY"
  <2>1. x = s
    BY <1>5 DEF x, E!Aged
  <2> QED
    BY <2>1 DEF x
<1>6. CASE e.state # "EMPTY"
  <2>1. t \in ArpStates(known) /\ t.ok /\ t.table = tb /\ t.copies = s.copies
    <3> HIDE DEF e, tb, t
    <3> QED
      BY <1>1, <1>3, <1>4 DEF ArpStates
  <2>2. t.copies = s.copies + ArpOne(e.q) - ArpOne(s.table[k].q)
    <3> HIDE DEF e, tb, t
    <3> QED
      BY <1>1, <1>3, <2>1 DEF ArpOne
  <2>3. ArpOK(t, known)
    <3> HIDE DEF e, t
    <3> QED
      BY <1>3, <1>6, <2>1, <2>2, ArpRestated DEF tb
  <2>4. ASSUME NEW X \in {"STABLE", "STABLE_REREQUESTING_2"}, e.state \in E!Stable
        PROVE  ArpOK([t EXCEPT !.table[k].state = X], known)
    <3> DEFINE f == [e EXCEPT !.state = X]
               tc == [t.table EXCEPT ![k] = f]
               y == [t EXCEPT !.table[k].state = X]
    <3> HIDE DEF t, e, tb
    <3>1. f \in ArpEntry /\ ArpEntryOK(f, known) /\ f.state # "EMPTY" /\ f.ipaddr = e.ipaddr
          /\ f.q = E!None /\ e.q = E!None
      BY <1>3, <2>4 DEF ArpEntry, ArpEntryOK, E!etharp_state, E!Stable
    <3>2. t.table[k] = e /\ t.table \in [E!Slots -> ArpEntry] /\ t.copies \in Int
      BY <1>1, <1>4, <2>1
    <3>3. y = [t EXCEPT !.table = tc]
      BY <3>2
    <3>4. tc \in [E!Slots -> ArpEntry]
      BY <3>1, <3>2
    <3> HIDE DEF f, y
    <3>5. y \in ArpStates(known) /\ y.ok /\ y.table = tc /\ y.copies = t.copies
      <4> HIDE DEF tc
      <4> QED
        BY <2>1, <3>3, <3>4 DEF ArpStates
    <3>6. y.copies = t.copies + ArpOne(f.q) - ArpOne(t.table[k].q)
      BY <3>1, <3>2, <3>5 DEF ArpOne
    <3>7. ArpOK(y, known)
      <4>1. t.table[k].state # "EMPTY" /\ f.ipaddr = t.table[k].ipaddr
        BY <1>6, <3>1, <3>2
      <4> QED
        BY <2>3, <3>1, <3>5, <3>6, <4>1, ArpRestated DEF tc
    <3> QED
      BY <3>7 DEF y
  <2>5. ArpOK(E!etharp_free_entry(t, k), known)
    BY <2>3, ArpFreed
  <2>6. ArpOK(E!etharp_request(t, e.ipaddr), known)
    <3>1. e.ipaddr \in ArpLink
      BY <1>3, <1>6 DEF ArpEntryOK
    <3> HIDE DEF t, e
    <3> QED
      BY <2>3, <3>1, ArpMessage DEF E!etharp_request
  <2>7. CASE e.state = "STABLE_REREQUESTING_1" /\ x = One
    BY <2>4, <2>7 DEF E!Stable, x
  <2>8. CASE e.state = "STABLE_REREQUESTING_2" /\ x = Two
    BY <2>4, <2>8 DEF E!Stable, x
  <2>9. CASE x = s
    BY <2>9 DEF x
  <2>10. CASE x = t
    BY <2>3, <2>10 DEF x
  <2>11. CASE x = E!etharp_free_entry(t, k)
    BY <2>5, <2>11 DEF x
  <2>12. CASE x = E!etharp_request(t, e.ipaddr)
    BY <2>6, <2>12 DEF x
  <2> HIDE DEF e, t, One, Two
  <2> QED
    BY <1>2, <2>7, <2>8, <2>9, <2>10, <2>11, <2>12 DEF x
<1> QED
  BY <1>5, <1>6

\* etharp_tmr goes over all entries.
ArpRun(f, s) ==
    f = [n \in 0..ARP_TABLE_SIZE |-> IF n = 0 THEN s ELSE E!Aged(f[n - 1], n - 1)]

LEMMA ArpRunExists ==
    ASSUME NEW known \in Heard, NEW s, ArpOK(s, known)
    PROVE  \E f : ArpRun(f, s)
<1> DEFINE N == ARP_TABLE_SIZE
           T == {t \in ArpStates(known) : ArpOK(t, known)}
           F == [n \in 1..N |-> [t \in T |-> E!Aged(t, n - 1)]]
<1>0. N \in Nat /\ s \in T
  BY ArpConstants DEF ArpOK
<1>1. \A n \in 1..N, t \in T : E!Aged(t, n - 1) \in T
  <2> SUFFICES ASSUME NEW n \in 1..N, NEW t \in T
               PROVE  E!Aged(t, n - 1) \in T
    OBVIOUS
  <2>1. n - 1 \in E!Slots
    BY ArpConstants
  <2>2. ArpOK(E!Aged(t, n - 1), known)
    BY <2>1, ArpAged
  <2> QED
    BY <2>2 DEF ArpOK
<1> HIDE DEF T, N
<1>2. F \in [1..N -> [T -> T]]
  BY <1>1
<1>3. \A n \in 1..N, t \in T : F[n][t] = E!Aged(t, n - 1)
  OBVIOUS
<1> HIDE DEF F
<1>4. PICK g : Walk(g, N, T, s, F)
  BY <1>0, <1>2, Repeated
<1>5. \A n \in 0..N : g[n] = IF n = 0 THEN s ELSE E!Aged(g[n - 1], n - 1)
  <2> SUFFICES ASSUME NEW n \in 0..N, n # 0
               PROVE  g[n] = E!Aged(g[n - 1], n - 1)
    BY <1>4 DEF Walk
  <2>1. n \in 1..N /\ n - 1 \in 0..N
    BY <1>0
  <2> QED
    BY <1>3, <1>4, <2>1 DEF Walk
<1>6. ArpRun(g, s)
  <2>1. g = [n \in 0..N |-> g[n]]
    BY <1>4 DEF Walk
  <2> QED
    BY <1>5, <2>1 DEF ArpRun, N
<1> QED
  BY <1>6

LEMMA ArpRunOK ==
    ASSUME NEW known \in Heard, NEW s, ArpOK(s, known), NEW f, ArpRun(f, s)
    PROVE  ArpOK(f[ARP_TABLE_SIZE], known)
<1> DEFINE N == ARP_TABLE_SIZE
           U == {n \in 0..N : ArpOK(f[n], known)}
<1>1. N \in Nat /\ \A n \in 0..N : f[n] = IF n = 0 THEN s ELSE E!Aged(f[n - 1], n - 1)
  BY ArpConstants DEF ArpRun
<1> HIDE DEF N
<1>2. 0 \in U
  BY <1>1
<1>3. ASSUME NEW n \in 0..(N - 1), n \in U
      PROVE  n + 1 \in U
  <2>1. n + 1 \in 0..N /\ (n + 1) - 1 = n /\ n + 1 # 0 /\ n \in E!Slots
    BY <1>1, ArpConstants DEF N
  <2>2. f[n + 1] = E!Aged(f[n], n)
    BY <1>1, <2>1
  <2>3. ArpOK(E!Aged(f[n], n), known)
    BY <1>3, <2>1, ArpAged
  <2> QED
    BY <2>1, <2>2, <2>3
<1> HIDE DEF U
<1>4. 0..N \subseteq U
  BY <1>1, <1>2, <1>3, IntervalInduction
<1> QED
  BY <1>1, <1>4 DEF U, N
\* etharp_cleanup_netif frees all entries.
ArpCleaned(t, k) == IF t.table[k].state = "EMPTY" THEN t ELSE E!etharp_free_entry(t, k)
ArpClean(f, s) ==
    f = [n \in 0..ARP_TABLE_SIZE |-> IF n = 0 THEN s ELSE ArpCleaned(f[n - 1], n - 1)]

LEMMA ArpCleanedOK ==
    ASSUME NEW known \in Heard, NEW s, ArpOK(s, known), NEW k \in E!Slots
    PROVE  ArpOK(ArpCleaned(s, k), known)
BY ArpFreed DEF ArpCleaned

LEMMA ArpCleanExists ==
    ASSUME NEW known \in Heard, NEW s, ArpOK(s, known)
    PROVE  \E f : ArpClean(f, s)
<1> DEFINE N == ARP_TABLE_SIZE
           T == {t \in ArpStates(known) : ArpOK(t, known)}
           F == [n \in 1..N |-> [t \in T |-> ArpCleaned(t, n - 1)]]
<1>0. N \in Nat /\ s \in T
  BY ArpConstants DEF ArpOK
<1>1. \A n \in 1..N, t \in T : ArpCleaned(t, n - 1) \in T
  <2> SUFFICES ASSUME NEW n \in 1..N, NEW t \in T
               PROVE  ArpCleaned(t, n - 1) \in T
    OBVIOUS
  <2>1. n - 1 \in E!Slots
    BY ArpConstants
  <2>2. ArpOK(ArpCleaned(t, n - 1), known)
    BY <2>1, ArpCleanedOK
  <2> QED
    BY <2>2 DEF ArpOK
<1> HIDE DEF T, N
<1>2. F \in [1..N -> [T -> T]]
  BY <1>1
<1>3. \A n \in 1..N, t \in T : F[n][t] = ArpCleaned(t, n - 1)
  OBVIOUS
<1> HIDE DEF F
<1>4. PICK g : Walk(g, N, T, s, F)
  BY <1>0, <1>2, Repeated
<1>5. \A n \in 0..N : g[n] = IF n = 0 THEN s ELSE ArpCleaned(g[n - 1], n - 1)
  <2> SUFFICES ASSUME NEW n \in 0..N, n # 0
               PROVE  g[n] = ArpCleaned(g[n - 1], n - 1)
    BY <1>4 DEF Walk
  <2>1. n \in 1..N /\ n - 1 \in 0..N
    BY <1>0
  <2> QED
    BY <1>3, <1>4, <2>1 DEF Walk
<1>6. ArpClean(g, s)
  <2>1. g = [n \in 0..N |-> g[n]]
    BY <1>4 DEF Walk
  <2> QED
    BY <1>5, <2>1 DEF ArpClean, N
<1> QED
  BY <1>6

LEMMA ArpCleanOK ==
    ASSUME NEW known \in Heard, NEW s, ArpOK(s, known), NEW f, ArpClean(f, s)
    PROVE  ArpOK(f[ARP_TABLE_SIZE], known)
<1> DEFINE N == ARP_TABLE_SIZE
           U == {n \in 0..N : ArpOK(f[n], known)}
<1>1. N \in Nat /\ \A n \in 0..N : f[n] = IF n = 0 THEN s ELSE ArpCleaned(f[n - 1], n - 1)
  BY ArpConstants DEF ArpClean
<1> HIDE DEF N
<1>2. 0 \in U
  BY <1>1
<1>3. ASSUME NEW n \in 0..(N - 1), n \in U
      PROVE  n + 1 \in U
  <2>1. n + 1 \in 0..N /\ (n + 1) - 1 = n /\ n + 1 # 0 /\ n \in E!Slots
    BY <1>1, ArpConstants DEF N
  <2>2. f[n + 1] = ArpCleaned(f[n], n)
    BY <1>1, <2>1
  <2>3. ArpOK(ArpCleaned(f[n], n), known)
    BY <1>3, <2>1, ArpCleanedOK
  <2> QED
    BY <2>1, <2>2, <2>3
<1> HIDE DEF U
<1>4. 0..N \subseteq U
  BY <1>1, <1>2, <1>3, IntervalInduction
<1> QED
  BY <1>1, <1>4 DEF U, N

-----------------------------------------------------------------------------
(* ARP: the invariant.                                                     *)

ArpInv == heard \in Heard /\ arpRight /\ ArpOK(E!Now, heard)

LEMMA ArpNow ==
    /\ E!Now.table = arp_table /\ E!Now.cached = etharp_cached_entry /\ E!Now.frames = <<>>
    /\ E!Now.copies = arpCopies /\ E!Now.ok = asserted
BY DEF E!Now

\* What a handler leaves behind.
LEMMA ArpLeft ==
    ASSUME NEW known \in Heard, NEW s, ArpOK(s, known), arpRight, E!Becomes(s, known)
    PROVE  ArpInv'
<1>1. /\ arp_table' = s.table /\ etharp_cached_entry' = s.cached /\ arpCopies' = s.copies
      /\ asserted' = s.ok /\ heard' = known
  BY DEF E!Becomes
<1>2. /\ s \in ArpStates(known) /\ s.ok /\ s.frames \in Seq(ArpFrames(known))
      /\ s.table \in [E!Slots -> ArpEntry] /\ s.cached \in E!Slots /\ s.copies \in Int
  BY DEF ArpOK, ArpStates
<1>3. arpRight'
  <2>1. \A k \in DOMAIN s.frames : s.frames[k] \in ArpFrames(known)
    BY <1>2, ElementOfSeq
  <2>2. \A k \in DOMAIN s.frames :
            s.frames[k].type = "IP" => s.frames[k].hw = known[E!Hop(s.frames[k].dst)]
    BY <2>1 DEF ArpFrames
  <2> QED
    BY <2>2, Zenon DEF E!Becomes
<1> DEFINE t == [table |-> s.table, cached |-> s.cached, frames |-> <<>>,
                 copies |-> s.copies, ok |-> s.ok]
<1>4. t \in ArpStates(known)
  BY <1>2 DEF ArpStates
<1>5. E!Now' = t
  BY <1>1 DEF E!Now
<1>6. t.ok /\ t.table = s.table /\ t.copies = s.copies
  BY <1>2
<1> HIDE DEF t
<1>7. ArpOK(t, known)
  BY <1>4, <1>6, ArpSame
<1>8. ArpOK(E!Now, heard)'
  BY <1>1, <1>5, <1>7 DEF ArpOK, ArpStates, ArpEntryOK, ArpWaiting, ArpFrames
<1> QED
  BY <1>1, <1>3, <1>8 DEF ArpInv

LEMMA ArpStarts ==
    ASSUME E!Init
    PROVE  ArpInv
<1> DEFINE s == E!Now
<1>1. /\ s.table = [i \in E!Slots |-> E!Empty] /\ s.cached = 0 /\ s.frames = <<>>
      /\ s.copies = 0 /\ s.ok = TRUE
  BY ArpNow DEF E!Init
<1>2. /\ E!Empty \in ArpEntry /\ E!Empty.q = E!None /\ ArpEntryOK(E!Empty, heard)
      /\ E!Empty.state = "EMPTY"
  BY DEF E!Empty, ArpEntry, E!etharp_state, ArpEntryOK, E!Stable
<1>3. heard \in Heard /\ arpRight
  BY DEF E!Init, Heard
<1>4. s \in ArpStates(heard)
  <2>1. s = [table |-> s.table, cached |-> s.cached, frames |-> s.frames,
             copies |-> s.copies, ok |-> s.ok]
    BY DEF E!Now
  <2> HIDE DEF s
  <2>2. /\ s.table \in [E!Slots -> ArpEntry] /\ s.cached \in E!Slots
        /\ s.frames \in Seq(ArpFrames(heard)) /\ s.copies \in Int /\ s.ok \in BOOLEAN
    <3>1. 0 \in E!Slots
      BY ArpConstants
    <3> QED
      BY <1>1, <1>2, <3>1
  <2> QED
    BY <2>1, <2>2 DEF ArpStates
<1> HIDE DEF s
<1>5. \A i \in E!Slots : s.table[i] = E!Empty
  BY <1>1
<1>6. ArpWaiting(s.table) = {}
  BY <1>2, <1>5 DEF ArpWaiting
<1>7. s.copies = Cardinality(ArpWaiting(s.table))
  BY <1>1, <1>6, FS_EmptySet
<1>8. ArpOK(s, heard)
  BY <1>1, <1>2, <1>4, <1>5, <1>7 DEF ArpOK
<1> QED
  BY <1>3, <1>8 DEF ArpInv, s

LEMMA ArpInput ==
    ASSUME ArpInv, E!etharp_input
    PROVE  ArpInv'
<1>1. PICK ip \in ArpLink, hw \in HwAddrs, for_us \in BOOLEAN, request \in BOOLEAN :
          \E s \in {E!etharp_update_arp_entry(E!Now, ip, hw,
                                             IF for_us THEN "TRY_HARD" ELSE "FIND_ONLY")} :
              E!Becomes(IF for_us /\ request THEN E!etharp_raw(s, "REPLY", ip, hw) ELSE s,
                        [heard EXCEPT ![ip] = hw])
  BY DEF E!etharp_input
<1> DEFINE flags == IF for_us THEN "TRY_HARD" ELSE "FIND_ONLY"
           new == [heard EXCEPT ![ip] = hw]
           s == E!etharp_update_arp_entry(E!Now, ip, hw, flags)
           t == IF for_us /\ request THEN E!etharp_raw(s, "REPLY", ip, hw) ELSE s
<1>2. E!Becomes(t, new)
  BY <1>1
<1>3. heard \in Heard /\ new \in Heard /\ flags \in {"FIND_ONLY", "TRY_HARD"}
  BY DEF ArpInv, Heard
<1> HIDE DEF flags
<1>4. ArpOK(s, new)
  BY <1>3, ArpNow, ArpUpdated DEF ArpInv
<1> HIDE DEF s, new
<1>5. ArpOK(t, new)
  BY <1>3, <1>4, ArpMessage
<1> HIDE DEF t
<1> QED
  BY <1>2, <1>3, <1>5, ArpLeft DEF ArpInv

LEMMA ArpSends ==
    ASSUME ArpInv, E!Output
    PROVE  ArpInv'
<1>1. PICK dst \in ArpLink \cup ArpRemote, oom \in BOOLEAN :
          E!Becomes(E!etharp_output(E!Now, dst, oom), heard)
  BY DEF E!Output
<1>2. ArpOK(E!etharp_output(E!Now, dst, oom), heard)
  BY ArpOutput DEF ArpInv
<1> QED
  BY <1>1, <1>2, ArpLeft DEF ArpInv

LEMMA ArpAsks ==
    ASSUME ArpInv, E!Query
    PROVE  ArpInv'
<1>1. PICK ip \in ArpLink :
          \E found \in {E!etharp_find_entry(E!Now, ip, "TRY_HARD")} :
              E!Becomes(E!etharp_request(
                  IF found.s.table[found.i].state = "EMPTY"
                  THEN [found.s EXCEPT !.table[found.i].state = "PENDING"]
                  ELSE found.s, ip), heard)
  BY DEF E!Query
<1> DEFINE r == E!etharp_find_entry(E!Now, ip, "TRY_HARD")
           t == ArpPending(r)
<1>2. E!Becomes(E!etharp_request(t, ip), heard)
  BY <1>1 DEF ArpPending
<1>3. r = E!etharp_find_entry(E!Now, ip, "TRY_HARD")
  OBVIOUS
<1> HIDE DEF r
<1>4. ArpOK(t, heard)
  BY <1>3, ArpReady DEF ArpInv
<1> HIDE DEF t
<1>5. ArpOK(E!etharp_request(t, ip), heard)
  BY <1>4, ArpMessage DEF E!etharp_request, ArpInv
<1> QED
  BY <1>2, <1>5, ArpLeft DEF ArpInv

LEMMA ArpTimer ==
    ASSUME ArpInv, E!etharp_tmr
    PROVE  ArpInv'
<1> DEFINE f == CHOOSE f : ArpRun(f, E!Now)
<1>1. E!Becomes(f[ARP_TABLE_SIZE], heard)
  BY DEF E!etharp_tmr, ArpRun
<1>2. ArpRun(f, E!Now)
  <2>1. \E g : ArpRun(g, E!Now)
    BY ArpRunExists DEF ArpInv
  <2> QED
    BY <2>1, Zenon
<1> HIDE DEF f
<1>3. ArpOK(f[ARP_TABLE_SIZE], heard)
  BY <1>2, ArpRunOK DEF ArpInv
<1> QED
  BY <1>1, <1>3, ArpLeft DEF ArpInv

LEMMA ArpDown ==
    ASSUME ArpInv, E!etharp_cleanup_netif
    PROVE  ArpInv'
<1> DEFINE f == CHOOSE f : ArpClean(f, E!Now)
           g == CHOOSE g : g = [n \in 0..ARP_TABLE_SIZE |->
                  IF n = 0 THEN E!Now
                  ELSE IF g[n - 1].table[n - 1].state = "EMPTY" THEN g[n - 1]
                  ELSE E!etharp_free_entry(g[n - 1], n - 1)]
<1>1. E!Becomes(g[ARP_TABLE_SIZE], heard)
  BY DEF E!etharp_cleanup_netif
<1>2. f = g
  BY DEF ArpClean, ArpCleaned
<1> HIDE DEF f, g
<1>3. ArpClean(f, E!Now)
  <2>1. \E h : ArpClean(h, E!Now)
    BY ArpCleanExists DEF ArpInv
  <2> QED
    BY <2>1, Zenon DEF f
<1>4. ArpOK(f[ARP_TABLE_SIZE], heard)
  BY <1>3, ArpCleanOK DEF ArpInv
<1> QED
  BY <1>1, <1>2, <1>4, ArpLeft DEF ArpInv

LEMMA ArpUnchanged ==
    ASSUME ArpInv, UNCHANGED arpVars
    PROVE  ArpInv'
BY DEF ArpInv, arpVars, E!Now, ArpOK, ArpStates, ArpFrames, ArpEntryOK, ArpWaiting

LEMMA ArpAlways == MCSpec => []ArpInv
<1>1. MCInit => ArpInv
  BY ArpStarts DEF MCInit
<1>2. ArpInv /\ [MCNext]_<<part, vars, arpVars>> => ArpInv'
  <2> SUFFICES ASSUME ArpInv, [MCNext]_<<part, vars, arpVars>> PROVE ArpInv'
    OBVIOUS
  <2>1. CASE UNCHANGED arpVars
    BY <2>1, ArpUnchanged
  <2>2. CASE E!Next
    BY <2>2, ArpInput, ArpSends, ArpAsks, ArpTimer, ArpDown DEF E!Next
  <2> QED
    BY <2>1, <2>2 DEF MCNext
<1> QED
  BY <1>1, <1>2, PTL DEF MCSpec

\* etharp.c: whatever is heard, sent, lost for want of memory and recycled, a packet
\* goes to the address from which its next hop last spoke; no address has two entries,
\* and a packet is kept for every answer that is awaited with one, and no other.
THEOREM PacketsGoToLastHeard == MCSpec => []SentToLastHeard
<1>1. ArpInv => SentToLastHeard
  <2> SUFFICES ASSUME ArpInv PROVE SentToLastHeard
    OBVIOUS
  <2>1. /\ \A i \in E!Slots : ArpEntryOK(arp_table[i], heard)
        /\ \A i, j \in E!Slots :
              i # j /\ arp_table[i].state # "EMPTY" => arp_table[i].ipaddr # arp_table[j].ipaddr
        /\ asserted /\ arpRight
        /\ arpCopies = Cardinality(ArpWaiting(arp_table))
    BY ArpNow DEF ArpInv, ArpOK
  <2>2. E!SentToLastHeard
    BY <2>1 DEF E!SentToLastHeard, ArpEntryOK
  <2>3. \A i \in E!Slots : arp_table[i].q # E!None => arp_table[i].state = "PENDING"
    BY <2>1 DEF ArpEntryOK
  <2>4. ArpWaiting(arp_table) = {i \in E!Slots : arp_table[i].q # E!None}
    BY DEF ArpWaiting
  <2>5. E!TableSound
    <3>1. \A i, j \in E!Slots :
              /\ arp_table[i].q # E!None => arp_table[i].state = "PENDING"
              /\ i # j /\ arp_table[i].state # "EMPTY" => arp_table[i].ipaddr # arp_table[j].ipaddr
      BY <2>1, <2>3
    <3>2. \A S : E!Cardinality(S) = Cardinality(S)
      BY DEF E!Cardinality, Cardinality
    <3>3. asserted /\ arpCopies = E!Cardinality({i \in E!Slots : arp_table[i].q # E!None})
      BY <2>1, <2>4, <3>2
    <3> QED
      BY <3>1, <3>3 DEF E!TableSound
  <2> QED
    BY <2>2, <2>5 DEF SentToLastHeard
<1> QED
  BY <1>1, ArpAlways, PTL

-----------------------------------------------------------------------------
(* Neighbour discovery: the caches.                                        *)

NdNames == {"NO_ENTRY", "INCOMPLETE", "REACHABLE", "STALE", "DELAY", "PROBE"}

Destined == OnLink \cup Remote

NdEntry ==
    [state : NdNames, ip : OnLink \cup {NoAddr}, ll : OnLink \cup {Old}, isrouter : BOOLEAN,
     n : Nat, q : Seq(Destined)]

NdDestination ==
    [dest : Destined \cup {NoAddr}, hop : OnLink \cup {NoAddr}, aged : BOOLEAN]

NdRouter == [entry : Neighbors \cup {None}, life : Int]

NdStates ==
    [nc : [Neighbors -> NdEntry], dc : [Destinations -> NdDestination],
     rl : [RouterSlots -> NdRouter], pfx : BOOLEAN, at : [n : Neighbors, d : Destinations],
     copies : Int, right : BOOLEAN, sending : {"ok", "reused", "endless"}]

\* An entry without a state has no address, no packets and is not a router's.
NdEntryOK(e) ==
    /\ e.state = "NO_ENTRY" <=> e.ip = NoAddr
    /\ e.state = "NO_ENTRY" => ~e.isrouter /\ e.q = <<>>

\* What is resolved has the owner's address, and a queue does not wait for nothing.
NdEntryRight(e) ==
    /\ e.state \notin {"NO_ENTRY", "INCOMPLETE"} => e.ll = e.ip
    /\ e.q # <<>> => e.state # "STALE"

NdApart(nc) == \A i, j \in Neighbors : i # j /\ nc[i].ip = nc[j].ip => nc[i].ip = NoAddr

NdLinked(nc, rl) ==
    /\ \A k \in RouterSlots : rl[k].entry # None => nc[rl[k].entry].isrouter
    /\ \A k, l \in RouterSlots : k # l /\ rl[k].entry = rl[l].entry => rl[k].entry = None
    /\ \A i \in Neighbors : nc[i].isrouter => \E k \in RouterSlots : rl[k].entry = i

NdHops(dc) == \A k \in Destinations : dc[k].dest # NoAddr => dc[k].hop \in OnLink

NdBase(s) ==
    /\ s \in NdStates
    /\ \A i \in Neighbors : NdEntryOK(s.nc[i])
    /\ NdApart(s.nc) /\ NdLinked(s.nc, s.rl) /\ NdHops(s.dc)

\* x: the packets that are taken off a queue and not yet sent.
NdFull(s, x) ==
    /\ s.right
    /\ \A i \in Neighbors : NdEntryRight(s.nc[i])
    /\ s.copies = Queued(s.nc) + x

\* What holds before and after each step of a handler.
NdGood(s, x) == NdBase(s) /\ (s.sending = "ok" => NdFull(s, x))

LEMMA NdConstants ==
    /\ NoAddr \notin OnLink /\ NoAddr \notin Destined /\ OnLink \subseteq Destined
    /\ LWIP_ND6_NUM_NEIGHBORS \in Nat /\ LWIP_ND6_NUM_DESTINATIONS \in Nat
    /\ LWIP_ND6_NUM_ROUTERS \in Nat
    /\ LWIP_ND6_REACHABLE_TIME \in Nat /\ LWIP_ND6_DELAY_FIRST_PROBE_TIME \in Nat
    /\ LWIP_ND6_MAX_MULTICAST_SOLICIT \in Nat /\ MaxLifetime \in Nat /\ MEMP_NUM_ND6_QUEUE \in Nat
    /\ Neighbors = 0..(LWIP_ND6_NUM_NEIGHBORS - 1) /\ 0 \in Neighbors
    /\ Destinations = 0..(LWIP_ND6_NUM_DESTINATIONS - 1) /\ 0 \in Destinations
    /\ RouterSlots = 0..(LWIP_ND6_NUM_ROUTERS - 1) /\ 0 \in RouterSlots
    /\ None \notin Neighbors /\ None \notin RouterSlots /\ None \notin Destinations
    /\ Neighbors \subseteq Nat /\ Destinations \subseteq Nat /\ RouterSlots \subseteq Nat
<1>1. /\ LWIP_ND6_NUM_NEIGHBORS \in Nat \ {0} /\ LWIP_ND6_NUM_DESTINATIONS \in Nat \ {0}
      /\ LWIP_ND6_NUM_ROUTERS \in Nat \ {0} /\ LWIP_ND6_REACHABLE_TIME \in Nat
      /\ LWIP_ND6_DELAY_FIRST_PROBE_TIME \in Nat /\ LWIP_ND6_MAX_MULTICAST_SOLICIT \in Nat
      /\ MaxLifetime \in Nat /\ MEMP_NUM_ND6_QUEUE \in Nat
  BY Nd6Assumption
<1>2. NoAddr \notin OnLink /\ NoAddr \notin Destined /\ OnLink \subseteq Destined
  BY Nd6Assumption DEF OnLink, Destined
<1>3. /\ Neighbors = 0..(LWIP_ND6_NUM_NEIGHBORS - 1)
      /\ Destinations = 0..(LWIP_ND6_NUM_DESTINATIONS - 1)
      /\ RouterSlots = 0..(LWIP_ND6_NUM_ROUTERS - 1) /\ None = -1
  BY DEF Neighbors, Destinations, RouterSlots, None
<1> QED
  BY <1>1, <1>2, <1>3

\* How the number of the packets that wait changes with one entry.
LEMMA NdQueued ==
    ASSUME NEW nc \in [Neighbors -> NdEntry], NEW i \in Neighbors, NEW e \in NdEntry
    PROVE  /\ Queued(nc) \in Int /\ Len(e.q) \in Nat /\ Len(nc[i].q) \in Nat
           /\ Queued([nc EXCEPT ![i] = e]) = Queued(nc) - Len(nc[i].q) + Len(e.q)
<1> DEFINE N == LWIP_ND6_NUM_NEIGHBORS
           f == [j \in Neighbors |-> Len(nc[j].q)]
           h == [j \in Neighbors |-> Len([nc EXCEPT ![i] = e][j].q)]
<1>1. Queued(nc) = SumOf(f, N) /\ Queued([nc EXCEPT ![i] = e]) = SumOf(h, N)
  BY DEF Queued, SumOf
<1>2. \A d \in NdEntry : Len(d.q) \in Nat
  BY LenProperties DEF NdEntry
<1>3. /\ \A j \in Neighbors : f[j] = Len(nc[j].q) /\ f[j] \in Int
      /\ \A j \in Neighbors : h[j] = (IF j = i THEN Len(e.q) ELSE Len(nc[j].q)) /\ h[j] \in Int
  BY <1>2
<1>4. f \in [Neighbors -> Int] /\ h \in [Neighbors -> Int]
  BY <1>3
<1>5. N \in Nat /\ Neighbors = 0..(N - 1)
  BY NdConstants
<1> HIDE DEF f, h, N
<1>6. SumOf(h, N) = SumOf(f, N) - f[i] + Len(e.q) /\ SumOf(f, N) \in Int
  <2>1. /\ f \in [0..(N - 1) -> Int] /\ h \in [0..(N - 1) -> Int] /\ i \in 0..(N - 1)
        /\ \A j \in 0..(N - 1) : j # i => h[j] = f[j]
    BY <1>3, <1>4, <1>5
  <2>2. Len(e.q) \in Int /\ h[i] = Len(e.q)
    BY <1>2, <1>3
  <2> QED
    BY <1>5, <2>1, <2>2, SumChanged
<1> QED
  BY <1>1, <1>2, <1>3, <1>6

LEMMA NdParts ==
    ASSUME NEW s \in NdStates
    PROVE  /\ s.nc \in [Neighbors -> NdEntry] /\ s.dc \in [Destinations -> NdDestination]
           /\ s.rl \in [RouterSlots -> NdRouter] /\ s.pfx \in BOOLEAN
           /\ s.at \in [n : Neighbors, d : Destinations] /\ s.at.n \in Neighbors
           /\ s.at.d \in Destinations /\ s.copies \in Int /\ s.right \in BOOLEAN
           /\ s.sending \in {"ok", "reused", "endless"}
           /\ \A i \in Neighbors : s.nc[i] \in NdEntry
           /\ \A k \in Destinations : s.dc[k] \in NdDestination
           /\ \A k \in RouterSlots : s.rl[k] \in NdRouter /\ s.rl[k].entry \in Neighbors \cup {None}
BY DEF NdStates, NdRouter

\* The entries but i are as before.
NdElse(s, t, i) == \A j \in Neighbors \ {i} : t.nc[j] = s.nc[j]

\* One entry is changed; the list of routers points where it did.
LEMMA NdPut ==
    ASSUME NEW s, NEW x \in Int, NdGood(s, x), NEW i \in Neighbors, NEW t \in NdStates,
           NdElse(s, t, i), NdEntryOK(t.nc[i]), t.nc[i].isrouter <=> s.nc[i].isrouter,
           t.nc[i].ip = s.nc[i].ip \/ \A j \in Neighbors : s.nc[j].ip # t.nc[i].ip,
           NEW y \in Int, \A k \in RouterSlots : t.rl[k].entry = s.rl[k].entry, NdHops(t.dc),
           t.sending = "ok" => /\ s.sending = "ok" /\ t.right /\ NdEntryRight(t.nc[i])
                               /\ t.copies - y = s.copies - x + Len(t.nc[i].q) - Len(s.nc[i].q)
    PROVE  NdGood(t, y)
<1> DEFINE e == t.nc[i]
<1>1. /\ s.nc \in [Neighbors -> NdEntry] /\ s.copies \in Int /\ t.copies \in Int /\ e \in NdEntry
      /\ t.nc \in [Neighbors -> NdEntry]
  BY NdParts DEF NdGood, NdBase
<1>2. t.nc = [s.nc EXCEPT ![i] = e] /\ t.nc[i] = e /\ \A j \in Neighbors \ {i} : t.nc[j] = s.nc[j]
  BY <1>1 DEF NdElse
<1>0. /\ NdEntryOK(e) /\ e.isrouter <=> s.nc[i].isrouter
      /\ e.ip = s.nc[i].ip \/ \A j \in Neighbors : s.nc[j].ip # e.ip
      /\ t.sending = "ok" => /\ s.sending = "ok" /\ t.right /\ NdEntryRight(e)
                             /\ t.copies - y = s.copies - x + Len(e.q) - Len(s.nc[i].q)
  OBVIOUS
<1> HIDE DEF e
<1>3. \A j \in Neighbors : NdEntryOK(t.nc[j])
  BY <1>0, <1>2 DEF NdGood, NdBase
<1>4. NdApart(t.nc)
  BY <1>0, <1>2 DEF NdGood, NdBase, NdApart
<1>5. NdLinked(t.nc, t.rl)
  <2>1. \A j \in Neighbors : t.nc[j].isrouter <=> s.nc[j].isrouter
    BY <1>0, <1>2
  <2>2. \A k \in RouterSlots : s.rl[k].entry \in Neighbors \cup {None}
    BY NdParts DEF NdGood, NdBase
  <2>3. NdLinked(s.nc, s.rl)
    BY DEF NdGood, NdBase
  <2>4. \A k \in RouterSlots : t.rl[k].entry # None => t.nc[t.rl[k].entry].isrouter
    BY <2>1, <2>2, <2>3 DEF NdLinked
  <2>5. \A k, l \in RouterSlots : k # l /\ t.rl[k].entry = t.rl[l].entry => t.rl[k].entry = None
    BY <2>3 DEF NdLinked
  <2>6. \A j \in Neighbors : t.nc[j].isrouter => \E k \in RouterSlots : t.rl[k].entry = j
    BY <2>1, <2>3 DEF NdLinked
  <2> QED
    BY <2>4, <2>5, <2>6 DEF NdLinked
<1>6. ASSUME t.sending = "ok"
      PROVE  NdFull(t, y)
  <2>1. Queued(t.nc) = Queued(s.nc) - Len(s.nc[i].q) + Len(e.q) /\ Queued(s.nc) \in Int
        /\ Len(e.q) \in Nat /\ Len(s.nc[i].q) \in Nat
    <3>1. /\ Queued([s.nc EXCEPT ![i] = e]) = Queued(s.nc) - Len(s.nc[i].q) + Len(e.q)
          /\ Queued(s.nc) \in Int /\ Len(e.q) \in Nat /\ Len(s.nc[i].q) \in Nat
      BY <1>1, NdQueued
    <3> QED
      BY <1>2, <3>1
  <2>2. s.copies = Queued(s.nc) + x
    BY <1>6 DEF NdGood, NdFull
  <2>3. t.copies - y = s.copies - x + Len(e.q) - Len(s.nc[i].q)
    BY <1>0, <1>6
  <2>4. t.copies = Queued(t.nc) + y
    <3> DEFINE a == Len(e.q)
               b == Len(s.nc[i].q)
               c == Queued(s.nc)
               d == t.copies
               f == s.copies
    <3>1. a \in Int /\ b \in Int /\ c \in Int /\ d \in Int /\ f \in Int
      BY <1>1, <2>1
    <3>2. Queued(t.nc) = c - b + a
      BY <2>1
    <3>3. f = c + x
      BY <2>2
    <3>4. d - y = f - x + a - b
      BY <2>3
    <3> HIDE DEF a, b, c, d, f
    <3>5. d = c - b + a + y
      BY <3>1, <3>3, <3>4
    <3> QED
      BY <3>2, <3>5 DEF d
  <2>5. \A j \in Neighbors : NdEntryRight(t.nc[j])
    BY <1>0, <1>2, <1>6 DEF NdGood, NdFull
  <2> QED
    BY <1>0, <1>6, <2>4, <2>5 DEF NdFull
<1> QED
  BY <1>3, <1>4, <1>5, <1>6 DEF NdGood, NdBase

\* Neither the neighbours nor the routers change.
LEMMA NdSame ==
    ASSUME NEW s, NEW x \in Int, NdGood(s, x), NEW t \in NdStates, NEW y \in Int, t.nc = s.nc,
           \A k \in RouterSlots : t.rl[k].entry = s.rl[k].entry, NdHops(t.dc),
           t.sending = "ok" => s.sending = "ok" /\ t.right /\ t.copies - y = s.copies - x
    PROVE  NdGood(t, y)
<1>1. s.copies \in Int /\ t.copies \in Int /\ s.nc \in [Neighbors -> NdEntry]
  BY NdParts DEF NdGood, NdBase
<1>2. NdLinked(t.nc, t.rl)
  BY NdParts DEF NdGood, NdBase, NdLinked
<1>3. Queued(s.nc) \in Int
  BY <1>1, NdQueued, NdConstants
<1>4. t.sending = "ok" => NdFull(t, y)
  BY <1>1, <1>3 DEF NdGood, NdFull
<1> QED
  BY <1>2, <1>4 DEF NdGood, NdBase

-----------------------------------------------------------------------------
(* Neighbour discovery: an entry for an address.                           *)

LEMMA NdFirst ==
    ASSUME NEW S, S \subseteq Nat
    PROVE  (S = {} /\ First(S) = None) \/ (S # {} /\ First(S) \in S)
BY MinIsLeast DEF First

LEMMA NdFound ==
    ASSUME NEW s, NEW ip
    PROVE  LET i == nd6_find_neighbor_cache_entry(s, ip)
           IN  \/ i = None /\ \A j \in Neighbors : s.nc[j].ip # ip
               \/ i \in Neighbors /\ s.nc[i].ip = ip
<1> DEFINE S == {i \in Neighbors : s.nc[i].ip = ip}
<1>1. S \subseteq Nat
  BY NdConstants
<1>2. (S = {} /\ First(S) = None) \/ (S # {} /\ First(S) \in S)
  <2> HIDE DEF S
  <2> QED
    BY <1>1, NdFirst
<1> QED
  BY <1>2 DEF nd6_find_neighbor_cache_entry

LEMMA NdFirstOf ==
    ASSUME NEW S, S \subseteq Nat, NEW c \in [1..7 -> SUBSET S]
    PROVE  FirstOf(c) = None \/ FirstOf(c) \in S
<1> DEFINE used == {k \in DOMAIN c : c[k] # {}}
<1>1. CASE used = {}
  BY <1>1 DEF FirstOf
<1>2. CASE used # {}
  <2>1. used \subseteq Nat /\ used \subseteq 1..7
    OBVIOUS
  <2> DEFINE k == Min(used)
  <2>2. k \in used
    <3> HIDE DEF used
    <3> QED
      BY <1>2, <2>1, MinIsLeast
  <2>3. c[k] # {} /\ c[k] \subseteq S
    BY <2>1, <2>2
  <2> DEFINE T == c[k]
  <2>4. Min(T) \in T
    <3>1. T # {} /\ T \subseteq Nat
      BY <2>3
    <3> HIDE DEF T
    <3> QED
      BY <3>1, MinIsLeast
  <2>5. FirstOf(c) = Min(T)
    BY <1>2 DEF FirstOf
  <2> QED
    BY <2>3, <2>4, <2>5
<1> QED
  BY <1>1, <1>2

\* The entry that is taken for a new address is not a router's.
LEMMA NdVacated ==
    ASSUME NEW s, NEW r, r = nd6_new_neighbor_cache_entry(s)
    PROVE  /\ r.new
           /\ \/ r.i = None /\ r.s = s
              \/ /\ r.i \in Neighbors /\ ~s.nc[r.i].isrouter
                 /\ r.s = nd6_free_neighbor_cache_entry(s, r.i)
<1> DEFINE S == {i \in Neighbors : ~s.nc[i].isrouter}
           least(U) == {i \in U : \A j \in U : s.nc[i].n <= s.nc[j].n}
           last(U) == {i \in U : \A j \in U : s.nc[j].n < s.nc[i].n \/ (s.nc[j].n = s.nc[i].n /\ j <= i)}
           incomplete == HostsIn(s, "INCOMPLETE")
           c == <<HostsIn(s, "NO_ENTRY"), HostsIn(s, "STALE"), HostsIn(s, "PROBE"),
                  HostsIn(s, "DELAY"), least(HostsIn(s, "REACHABLE")),
                  last({i \in incomplete : s.nc[i].q = <<>>}), last(incomplete)>>
           k == FirstOf(c)
<1>1. r = Vacated(s, k)
  BY DEF nd6_new_neighbor_cache_entry
<1>2. \A z : HostsIn(s, z) \subseteq S
  BY DEF HostsIn
<1>3. /\ least(HostsIn(s, "REACHABLE")) \subseteq S /\ last(incomplete) \subseteq S
      /\ last({i \in incomplete : s.nc[i].q = <<>>}) \subseteq S
  BY <1>2
<1> HIDE DEF S, least, last, incomplete
<1>4. c \in [1..7 -> SUBSET S]
  BY <1>2, <1>3
<1>5. S \subseteq Nat
  BY NdConstants DEF S
<1> HIDE DEF c
<1>6. k = None \/ k \in S
  BY <1>4, <1>5, NdFirstOf
<1> HIDE DEF k
<1>7. CASE k = None
  BY <1>1, <1>7 DEF Vacated
<1>8. CASE k \in S
  <2>1. k \in Neighbors /\ ~s.nc[k].isrouter /\ k # None
    BY <1>8, NdConstants DEF S
  <2> QED
    BY <1>1, <2>1 DEF Vacated
<1> QED
  BY <1>6, <1>7, <1>8

\* What Entry finds or makes.
NdGot(s, e, ip) ==
    \/ e.i = None /\ e.s = s
    \/ e.i \in Neighbors /\ ~e.new /\ e.s = s /\ s.nc[e.i].ip = ip
    \/ /\ e.i \in Neighbors /\ e.new /\ ~s.nc[e.i].isrouter
       /\ e.s = nd6_free_neighbor_cache_entry(s, e.i) /\ \A j \in Neighbors : s.nc[j].ip # ip

LEMMA NdEntryGot ==
    ASSUME NEW s, NEW ip
    PROVE  NdGot(s, Entry(s, ip), ip)
<1>1. CASE \E i \in Neighbors : s.nc[i].ip = ip
  <2> DEFINE i == nd6_find_neighbor_cache_entry(s, ip)
  <2>1. i \in Neighbors /\ s.nc[i].ip = ip
    BY <1>1, NdFound
  <2>2. Entry(s, ip) = [i |-> i, new |-> FALSE, s |-> s]
    BY <1>1 DEF Entry
  <2> HIDE DEF i
  <2> QED
    BY <2>1, <2>2 DEF NdGot
<1>2. CASE ~\E i \in Neighbors : s.nc[i].ip = ip
  <2> DEFINE r == nd6_new_neighbor_cache_entry(s)
  <2>1. Entry(s, ip) = r
    BY <1>2 DEF Entry
  <2>2. r = nd6_new_neighbor_cache_entry(s)
    OBVIOUS
  <2> HIDE DEF r
  <2>3. /\ r.new
        /\ \/ r.i = None /\ r.s = s
           \/ /\ r.i \in Neighbors /\ ~s.nc[r.i].isrouter
              /\ r.s = nd6_free_neighbor_cache_entry(s, r.i)
    BY <2>2, NdVacated
  <2> QED
    BY <1>2, <2>1, <2>3 DEF NdGot
<1> QED
  BY <1>1, <1>2

\* Everything but the neighbours and the count is as before.
NdAside(s, t) ==
    /\ t.dc = s.dc /\ t.rl = s.rl /\ t.pfx = s.pfx /\ t.at = s.at /\ t.right = s.right
    /\ t.sending = s.sending

\* An entry is emptied: the state with nc[i] = e in it later.
LEMMA NdFreed ==
    ASSUME NEW s \in NdStates, NEW i \in Neighbors, ~s.nc[i].isrouter
    PROVE  LET t == nd6_free_neighbor_cache_entry(s, i)
           IN  /\ t \in NdStates /\ NdAside(s, t) /\ t.nc = [s.nc EXCEPT ![i] = Unused]
               /\ t.copies = s.copies - Len(s.nc[i].q) /\ t.nc[i] = Unused
<1> DEFINE tb == [s.nc EXCEPT ![i] = Unused]
           c == s.copies - Len(s.nc[i].q)
           t == nd6_free_neighbor_cache_entry(s, i)
<1>1. Unused \in NdEntry
  BY DEF Unused, NdEntry, NdNames
<1>2. s.nc \in [Neighbors -> NdEntry] /\ s.copies \in Int /\ Len(s.nc[i].q) \in Nat
  BY NdParts, NdQueued
<1>3. tb \in [Neighbors -> NdEntry] /\ c \in Int /\ tb[i] = Unused
  BY <1>1, <1>2
<1>4. t = [s EXCEPT !.nc = tb, !.copies = c]
  BY DEF nd6_free_neighbor_cache_entry
<1> HIDE DEF tb, c, t
<1>5. t \in NdStates /\ NdAside(s, t) /\ t.nc = tb /\ t.copies = c
  BY <1>3, <1>4 DEF NdStates, NdAside
<1> QED
  BY <1>3, <1>5 DEF tb, c, t

Fresh(ip) == [Unused EXCEPT !.state = "INCOMPLETE", !.ip = ip, !.n = 1]

LEMMA NdFresh ==
    ASSUME NEW ip \in OnLink
    PROVE  /\ Fresh(ip) \in NdEntry /\ NdEntryOK(Fresh(ip)) /\ NdEntryRight(Fresh(ip))
           /\ Fresh(ip).ip = ip /\ Fresh(ip).state = "INCOMPLETE" /\ Fresh(ip).q = <<>>
           /\ ~Fresh(ip).isrouter
<1>1. Unused.q = <<>> /\ Unused.isrouter = FALSE /\ Unused \in NdEntry
  BY DEF Unused, NdEntry, NdNames
<1>2. ip # NoAddr /\ "INCOMPLETE" \in NdNames
  BY NdConstants DEF NdNames
<1> HIDE DEF Unused
<1>3. /\ Fresh(ip) \in NdEntry /\ Fresh(ip).ip = ip /\ Fresh(ip).state = "INCOMPLETE"
      /\ Fresh(ip).q = <<>> /\ Fresh(ip).isrouter = FALSE
  <2>1. NdNames # {}
    BY <1>2
  <2> QED
    BY <1>1, <1>2 DEF Fresh, NdEntry
<1> QED
  BY <1>2, <1>3 DEF NdEntryOK, NdEntryRight

\* An entry that was not a router's is filled for an address no entry has.
LEMMA NdMade ==
    ASSUME NEW s, NEW x \in Int, NdGood(s, x), NEW i \in Neighbors, ~s.nc[i].isrouter,
           NEW t \in NdStates, NdAside(s, t), NdElse(s, t, i), NdEntryOK(t.nc[i]),
           NdEntryRight(t.nc[i]), ~t.nc[i].isrouter, t.nc[i].q = <<>>,
           \A j \in Neighbors : s.nc[j].ip # t.nc[i].ip,
           t.copies = s.copies - Len(s.nc[i].q)
    PROVE  NdGood(t, x)
<1>1. s \in NdStates /\ s.nc \in [Neighbors -> NdEntry] /\ s.copies \in Int
  BY NdParts DEF NdGood, NdBase
<1>2. /\ \A k \in RouterSlots : t.rl[k].entry = s.rl[k].entry
      /\ NdHops(t.dc)
      /\ t.sending = "ok" => s.sending = "ok" /\ t.right
  BY DEF NdAside, NdGood, NdBase, NdFull
<1>3. t.copies - x = s.copies - x + Len(t.nc[i].q) - Len(s.nc[i].q)
  <2>1. Len(t.nc[i].q) = 0
    OBVIOUS
  <2>2. Len(s.nc[i].q) \in Nat
    BY <1>1, NdQueued
  <2> DEFINE a == Len(s.nc[i].q)
             b == t.copies
             c == s.copies
  <2>4. a \in Int /\ c \in Int /\ b = c - a
    BY <1>1, <2>2
  <2> HIDE DEF a, b, c
  <2>5. b - x = c - x + 0 - a
    BY <2>4
  <2> QED
    BY <2>1, <2>5 DEF a, b, c
<1> QED
  BY <1>2, <1>3, NdPut

\* An entry for ip that has been vacated is filled with e.
LEMMA NdFilled ==
    ASSUME NEW s, NEW x \in Int, NdGood(s, x), NEW i \in Neighbors, ~s.nc[i].isrouter,
           NEW e \in NdEntry, NdEntryOK(e), NdEntryRight(e), ~e.isrouter, e.q = <<>>,
           \A j \in Neighbors : s.nc[j].ip # e.ip
    PROVE  LET v == nd6_free_neighbor_cache_entry(s, i)
               t == [v EXCEPT !.nc = [v.nc EXCEPT ![i] = e]]
           IN  NdGood(t, x) /\ NdAside(s, t) /\ NdElse(s, t, i) /\ t.nc[i] = e
<1> DEFINE v == nd6_free_neighbor_cache_entry(s, i)
           tb == [v.nc EXCEPT ![i] = e]
           t == [v EXCEPT !.nc = tb]
<1>0. s \in NdStates /\ s.nc \in [Neighbors -> NdEntry] /\ s.copies \in Int
  BY NdParts DEF NdGood, NdBase
<1>1. /\ v \in NdStates /\ NdAside(s, v) /\ v.nc = [s.nc EXCEPT ![i] = Unused]
      /\ v.copies = s.copies - Len(s.nc[i].q)
  BY <1>0, NdFreed
<1> HIDE DEF v
<1>2. tb \in [Neighbors -> NdEntry] /\ tb[i] = e /\ \A j \in Neighbors \ {i} : tb[j] = s.nc[j]
  BY <1>0, <1>1
<1> HIDE DEF tb
<1>3. t \in NdStates /\ NdAside(v, t) /\ t.nc = tb /\ t.copies = v.copies
  BY <1>1, <1>2 DEF NdStates, NdAside
<1> HIDE DEF t
<1>4. NdAside(s, t)
  BY <1>1, <1>3 DEF NdAside
<1>5. NdElse(s, t, i) /\ t.nc[i] = e /\ t.copies = s.copies - Len(s.nc[i].q)
  BY <1>1, <1>2, <1>3 DEF NdElse
<1>6. NdGood(t, x)
  BY <1>3, <1>4, <1>5, NdMade
<1> QED
  BY <1>4, <1>5, <1>6 DEF t, tb, v

LEMMA NdResolved ==
    ASSUME NEW s, NEW x \in Int, NdGood(s, x), NEW ip \in OnLink, NEW e, NdGot(s, e, ip),
           e.i # None
    PROVE  LET t == IF e.new THEN Resolving(e.s, e.i, ip) ELSE e.s
           IN  /\ NdGood(t, x) /\ NdAside(s, t) /\ e.i \in Neighbors
               /\ NdElse(s, t, e.i) /\ t.nc[e.i].ip = ip
               /\ \/ t = s
                  \/ /\ ~s.nc[e.i].isrouter /\ t.nc[e.i] = Fresh(ip)
                     /\ \A j \in Neighbors : s.nc[j].ip # ip
<1> DEFINE t == IF e.new THEN Resolving(e.s, e.i, ip) ELSE e.s
<1>1. CASE e.i \in Neighbors /\ ~e.new /\ e.s = s /\ s.nc[e.i].ip = ip
  BY <1>1 DEF NdAside, NdElse
<1>2. CASE /\ e.i \in Neighbors /\ e.new /\ ~s.nc[e.i].isrouter
           /\ e.s = nd6_free_neighbor_cache_entry(s, e.i) /\ \A j \in Neighbors : s.nc[j].ip # ip
  <2> DEFINE i == e.i
             f == Fresh(ip)
             v == nd6_free_neighbor_cache_entry(s, i)
             u == [v EXCEPT !.nc = [v.nc EXCEPT ![i] = f]]
  <2>1. t = u
    BY <1>2 DEF Resolving, Fresh
  <2>2. f \in NdEntry /\ NdEntryOK(f) /\ NdEntryRight(f) /\ f.ip = ip /\ ~f.isrouter /\ f.q = <<>>
    BY NdFresh
  <2> HIDE DEF f
  <2>3. NdGood(u, x) /\ NdAside(s, u) /\ NdElse(s, u, i) /\ u.nc[i] = f
    BY <1>2, <2>2, NdFilled
  <2> HIDE DEF u, v
  <2> QED
    BY <1>2, <2>1, <2>2, <2>3 DEF f
<1> QED
  BY <1>1, <1>2 DEF NdGot

-----------------------------------------------------------------------------
(* Neighbour discovery: the next hop.                                      *)

\* An entry with an address is in use, and a router's is.
LEMMA NdRouters ==
    ASSUME NEW s, NdBase(s)
    PROVE  \A k \in RouterSlots :
              s.rl[k].entry # None =>
              /\ s.rl[k].entry \in Neighbors /\ s.nc[s.rl[k].entry].isrouter
              /\ s.nc[s.rl[k].entry].ip \in OnLink
<1> TAKE k \in RouterSlots
<1> HAVE s.rl[k].entry # None
<1> DEFINE i == s.rl[k].entry
<1>1. i \in Neighbors
  BY NdParts DEF NdBase
<1>2. s.nc[i].isrouter
  BY DEF NdBase, NdLinked
<1>3. s.nc[i] \in NdEntry /\ NdEntryOK(s.nc[i])
  BY <1>1, NdParts DEF NdBase
<1> HIDE DEF i
<1>4. s.nc[i].ip \in OnLink
  BY <1>2, <1>3 DEF NdEntryOK, NdEntry
<1> QED
  BY <1>1, <1>2, <1>4 DEF i

LEMMA NdSelected ==
    ASSUME NEW s
    PROVE  LET r == nd6_select_router(s)
           IN  r = None \/ (r \in RouterSlots /\ s.rl[r].entry # None)
<1> DEFINE listed == {k \in RouterSlots : s.rl[k].entry # None}
           valid == {k \in listed : s.rl[k].life > 0}
           reachable == {k \in valid : s.nc[s.rl[k].entry].state = "REACHABLE"}
           S == IF reachable # {} THEN reachable ELSE IF valid # {} THEN valid ELSE listed
           r == nd6_select_router(s)
<1>1. r = First(S)
  BY DEF nd6_select_router
<1>2. S \subseteq listed
  OBVIOUS
<1>3. listed \subseteq RouterSlots /\ listed \subseteq Nat
  BY NdConstants
<1>4. \A k \in listed : s.rl[k].entry # None
  OBVIOUS
<1> HIDE DEF S, listed, valid, reachable
<1>5. S \subseteq Nat
  BY <1>2, <1>3
<1>6. (S = {} /\ First(S) = None) \/ (S # {} /\ First(S) \in S)
  BY <1>5, NdFirst
<1> QED
  BY <1>1, <1>2, <1>3, <1>4, <1>6

LEMMA NdFoundDestination ==
    ASSUME NEW s, NEW ip
    PROVE  LET k == nd6_find_destination_cache_entry(s, ip)
           IN  k = None \/ (k \in Destinations /\ s.dc[k].dest = ip)
<1> DEFINE S == {k \in Destinations : s.dc[k].dest = ip}
<1>1. S \subseteq Nat
  BY NdConstants
<1>2. (S = {} /\ First(S) = None) \/ (S # {} /\ First(S) \in S)
  <2> HIDE DEF S
  <2> QED
    BY <1>1, NdFirst
<1> QED
  BY <1>2 DEF nd6_find_destination_cache_entry

LEMMA NdNewDestination ==
    ASSUME NEW s
    PROVE  nd6_new_destination_cache_entry(s) \in Destinations
<1> DEFINE free == {k \in Destinations : s.dc[k].dest = NoAddr}
           aged == {k \in Destinations : s.dc[k].aged}
           n == LWIP_ND6_NUM_DESTINATIONS - 1
<1>1. n \in Nat /\ Destinations = 0..n /\ 0 \in Destinations /\ Destinations \subseteq Nat
  BY NdConstants
<1>2. \A S \in SUBSET Destinations : S # {} => Min(S) \in Destinations
  <2> TAKE S \in SUBSET Destinations
  <2> HAVE S # {}
  <2>1. S \subseteq Nat
    BY <1>1
  <2> QED
    BY <2>1, MinIsLeast
<1>3. \A S \in SUBSET Destinations : S # {} => Max(S) \in Destinations
  <2> TAKE S \in SUBSET Destinations
  <2> HAVE S # {}
  <2>1. S \subseteq Int /\ n \in Int /\ \A k \in S : k <= n
    BY <1>1
  <2>2. Max(S) \in S
    BY <2>1, MaxIsGreatest
  <2> QED
    BY <2>2
<1>4. free \in SUBSET Destinations /\ aged \in SUBSET Destinations
      /\ Destinations \in SUBSET Destinations /\ Destinations # {}
  BY <1>1
<1>5. nd6_new_destination_cache_entry(s)
          = IF free # {} THEN Min(free) ELSE IF aged # {} THEN Max(aged) ELSE Max(Destinations)
  BY DEF nd6_new_destination_cache_entry
<1> HIDE DEF free, aged
<1> QED
  BY <1>2, <1>3, <1>4, <1>5

\* Everything but the destinations and the index of the one used last is as before.
NdTold(s, t) ==
    /\ t.nc = s.nc /\ t.rl = s.rl /\ t.pfx = s.pfx /\ t.at.n = s.at.n /\ t.copies = s.copies
    /\ t.right = s.right /\ t.sending = s.sending

LEMMA NdDestinationSet ==
    ASSUME NEW s, NEW x \in Int, NdGood(s, x), NEW t \in NdStates, NdTold(s, t),
           NEW k \in Destinations, \A l \in Destinations \ {k} : t.dc[l] = s.dc[l],
           t.dc[k].dest # NoAddr => t.dc[k].hop \in OnLink
    PROVE  NdGood(t, x)
<1>1. NdHops(t.dc)
  BY DEF NdGood, NdBase, NdHops
<1>2. /\ t.nc = s.nc /\ \A l \in RouterSlots : t.rl[l].entry = s.rl[l].entry
      /\ t.sending = "ok" => s.sending = "ok" /\ t.right /\ t.copies - x = s.copies - x
  BY DEF NdTold, NdGood, NdFull
<1> QED
  BY <1>1, <1>2, NdSame

\* What setting the index of the destination used last does, and setting a destination.
LEMMA NdIndexed ==
    ASSUME NEW s \in NdStates, NEW k \in Destinations
    PROVE  LET t == [s EXCEPT !.at.d = k]
           IN  t \in NdStates /\ NdTold(s, t) /\ t.at.d = k /\ t.dc = s.dc
<1> DEFINE a == [s.at EXCEPT !.d = k]
           t == [s EXCEPT !.at.d = k]
<1>1. t = [s EXCEPT !.at = a]
  OBVIOUS
<1>2. a \in [n : Neighbors, d : Destinations] /\ a.d = k /\ a.n = s.at.n
  BY NdParts
<1> HIDE DEF a, t
<1>3. t \in NdStates /\ NdTold(s, t) /\ t.at = a /\ t.dc = s.dc
  BY <1>1, <1>2 DEF NdStates, NdTold
<1> QED
  BY <1>2, <1>3 DEF t

NdPointed(s, k, p, h) == [s EXCEPT !.dc[k].dest = p, !.dc[k].hop = h]

LEMMA NdDirected ==
    ASSUME NEW s \in NdStates, NEW k \in Destinations, NEW p \in Destined \cup {NoAddr},
           NEW h \in OnLink \cup {NoAddr}
    PROVE  LET t == NdPointed(s, k, p, h)
           IN  /\ t \in NdStates /\ NdTold(s, t) /\ t.at = s.at
               /\ t.dc[k].dest = p /\ t.dc[k].hop = h
               /\ \A l \in Destinations \ {k} : t.dc[l] = s.dc[l]
<1> DEFINE u == [s EXCEPT !.dc[k].dest = p]
           t == NdPointed(s, k, p, h)
           e == [s.dc[k] EXCEPT !.dest = p]
           f == [u.dc[k] EXCEPT !.hop = h]
           ub == [s.dc EXCEPT ![k] = e]
           tb == [u.dc EXCEPT ![k] = f]
<1>1. s.dc \in [Destinations -> NdDestination] /\ s.dc[k] \in NdDestination
  BY NdParts
<1>2. e \in NdDestination /\ e.dest = p
  BY <1>1 DEF NdDestination
<1>3. u = [s EXCEPT !.dc = ub]
  OBVIOUS
<1>4. t = [u EXCEPT !.dc = tb]
  BY DEF NdPointed
<1> HIDE DEF e
<1>5. /\ ub \in [Destinations -> NdDestination] /\ ub[k] = e
      /\ \A l \in Destinations \ {k} : ub[l] = s.dc[l]
  BY <1>1, <1>2
<1> HIDE DEF ub, u, t
<1>6. u \in NdStates /\ NdTold(s, u) /\ u.at = s.at /\ u.dc = ub
  BY <1>3, <1>5 DEF NdStates, NdTold
<1>7. f \in NdDestination /\ f.dest = p /\ f.hop = h
  BY <1>2, <1>5, <1>6 DEF NdDestination
<1> HIDE DEF f
<1>8. /\ tb \in [Destinations -> NdDestination] /\ tb[k] = f
      /\ \A l \in Destinations \ {k} : tb[l] = s.dc[l]
  BY <1>5, <1>6, <1>7
<1> HIDE DEF tb
<1>9. t \in NdStates /\ NdTold(u, t) /\ t.at = u.at /\ t.dc = tb
  BY <1>4, <1>6, <1>8 DEF NdStates, NdTold
<1>10. NdTold(s, t)
  BY <1>6, <1>9 DEF NdTold
<1> QED
  BY <1>6, <1>7, <1>8, <1>9, <1>10 DEF t

\* The destination that is found or made goes to a neighbour on the link.
LEMMA NdDestined ==
    ASSUME NEW s, NEW x \in Int, NdGood(s, x), NEW ip \in Destined
    PROVE  LET d == Destination(s, ip)
           IN  /\ NdGood(d.s, x) /\ NdTold(s, d.s)
               /\ d.ok => d.s.dc[d.s.at.d].dest = ip /\ d.s.dc[d.s.at.d].hop \in OnLink
<1> DEFINE old == nd6_find_destination_cache_entry(s, ip)
           k == IF old # None THEN old ELSE nd6_new_destination_cache_entry(s)
           direct == ip \in Routers \/ nd6_is_prefix_in_netif(s, ip)
           r == nd6_select_router(s)
           via == IF direct THEN ip ELSE s.nc[s.rl[r].entry].ip
           d == Destination(s, ip)
           t == [s EXCEPT !.at.d = k]
           put(p, h) == NdPointed(t, k, p, h)
<1>1. s \in NdStates /\ NdHops(s.dc) /\ NdBase(s) /\ s.at.d \in Destinations
  BY NdParts DEF NdGood, NdBase
<1>2. k \in Destinations /\ (old # None => s.dc[k].dest = ip)
  BY NdFoundDestination, NdNewDestination
<1>3. ip # NoAddr
  BY NdConstants
<1>4. NdTold(s, s)
  BY DEF NdTold
<1>5. /\ s.dc[s.at.d].dest = ip => d = [ok |-> TRUE, s |-> s]
      /\ s.dc[s.at.d].dest # ip /\ old # None => d = [ok |-> TRUE, s |-> t]
      /\ s.dc[s.at.d].dest # ip /\ old = None /\ (direct \/ r # None)
            => d = [ok |-> TRUE, s |-> put(ip, via)]
      /\ s.dc[s.at.d].dest # ip /\ old = None /\ ~direct /\ r = None
            => d = [ok |-> FALSE, s |-> put(NoAddr, NoAddr)]
  BY DEF Destination, NdPointed
<1>6. direct \/ r # None => via \in OnLink
  <2>1. direct => ip \in OnLink
    BY DEF nd6_is_prefix_in_netif, OnLink
  <2>2. r # None => r \in RouterSlots /\ s.rl[r].entry # None
    BY NdSelected
  <2>3. r # None => s.nc[s.rl[r].entry].ip \in OnLink
    BY <1>1, <2>2, NdRouters
  <2> QED
    BY <2>1, <2>3
<1>7. t \in NdStates /\ NdTold(s, t) /\ t.at.d = k /\ t.dc = s.dc
  <2> HIDE DEF k
  <2> QED
    BY <1>1, <1>2, NdIndexed
<1> HIDE DEF t, k, via, direct, old, r, d
<1>8. ASSUME NEW p \in Destined \cup {NoAddr}, NEW h \in OnLink \cup {NoAddr}
      PROVE  /\ put(p, h) \in NdStates /\ NdTold(t, put(p, h)) /\ put(p, h).at = t.at
             /\ put(p, h).dc[k].dest = p /\ put(p, h).dc[k].hop = h
             /\ \A l \in Destinations \ {k} : put(p, h).dc[l] = t.dc[l]
  BY <1>2, <1>7, NdDirected
<1> HIDE DEF put
<1>9. ASSUME NEW p \in Destined \cup {NoAddr}, NEW h \in OnLink \cup {NoAddr},
             p # NoAddr => h \in OnLink
      PROVE  /\ NdGood(put(p, h), x) /\ NdTold(s, put(p, h)) /\ put(p, h).at.d = k
             /\ put(p, h).dc[k].dest = p /\ put(p, h).dc[k].hop = h
  <2> DEFINE u == put(p, h)
  <2>1. /\ u \in NdStates /\ NdTold(t, u) /\ u.at.d = k
        /\ u.dc[k].dest = p /\ u.dc[k].hop = h
        /\ \A l \in Destinations \ {k} : u.dc[l] = s.dc[l]
    BY <1>7, <1>8
  <2> HIDE DEF u
  <2>2. NdTold(s, u)
    BY <1>7, <2>1 DEF NdTold
  <2>3. NdGood(u, x)
    BY <1>2, <1>9, <2>1, <2>2, NdDestinationSet
  <2> QED
    BY <2>1, <2>2, <2>3 DEF u
<1>10. CASE s.dc[s.at.d].dest = ip
  <2>1. s.dc[s.at.d].hop \in OnLink
    BY <1>1, <1>3, <1>10 DEF NdHops
  <2> QED
    BY <1>4, <1>5, <1>10, <2>1 DEF d
<1>11. CASE s.dc[s.at.d].dest # ip /\ old # None
  <2>1. d = [ok |-> TRUE, s |-> t]
    BY <1>5, <1>11
  <2>2. t.dc[k].dest = ip /\ t.dc[k].hop \in OnLink
    BY <1>1, <1>2, <1>3, <1>7, <1>11 DEF NdHops
  <2>3. NdGood(t, x)
    BY <1>1, <1>2, <1>7, <2>2, NdDestinationSet
  <2> QED
    BY <1>7, <2>1, <2>2, <2>3 DEF d
<1>12. CASE s.dc[s.at.d].dest # ip /\ old = None /\ (direct \/ r # None)
  <2>1. d = [ok |-> TRUE, s |-> put(ip, via)]
    BY <1>5, <1>12
  <2>2. via \in OnLink
    BY <1>6, <1>12
  <2>3. /\ NdGood(put(ip, via), x) /\ NdTold(s, put(ip, via)) /\ put(ip, via).at.d = k
        /\ put(ip, via).dc[k].dest = ip /\ put(ip, via).dc[k].hop = via
    BY <1>9, <2>2
  <2> QED
    BY <2>1, <2>2, <2>3 DEF d
<1>13. CASE s.dc[s.at.d].dest # ip /\ old = None /\ ~direct /\ r = None
  <2>1. d = [ok |-> FALSE, s |-> put(NoAddr, NoAddr)]
    BY <1>5, <1>13
  <2>2. NdGood(put(NoAddr, NoAddr), x) /\ NdTold(s, put(NoAddr, NoAddr))
    BY <1>9
  <2> QED
    BY <2>1, <2>2 DEF d
<1> QED
  BY <1>10, <1>11, <1>12, <1>13

\* The index of the neighbour used last is set, and the destination's age.
NdUsed(s, i, k) == [s EXCEPT !.at.n = i, !.dc[k].aged = FALSE]

LEMMA NdUsedLast ==
    ASSUME NEW s, NEW x \in Int, NdGood(s, x), NEW i \in Neighbors, NEW k \in Destinations
    PROVE  LET t == NdUsed(s, i, k)
           IN  /\ NdGood(t, x) /\ t.nc = s.nc /\ t.rl = s.rl /\ t.sending = s.sending
               /\ t.at.n = i /\ t.at.d = s.at.d
               /\ t.dc[k].dest = s.dc[k].dest /\ t.dc[k].hop = s.dc[k].hop
<1> DEFINE a == [s.at EXCEPT !.n = i]
           u == [s EXCEPT !.at = a]
           e == [s.dc[k] EXCEPT !.aged = FALSE]
           tb == [s.dc EXCEPT ![k] = e]
           t == NdUsed(s, i, k)
<1>1. /\ s \in NdStates /\ s.dc \in [Destinations -> NdDestination] /\ s.dc[k] \in NdDestination
      /\ s.at \in [n : Neighbors, d : Destinations] /\ NdHops(s.dc)
  BY NdParts DEF NdGood, NdBase
<1>2. a \in [n : Neighbors, d : Destinations] /\ a.n = i /\ a.d = s.at.d
  BY <1>1
<1>3. e \in NdDestination /\ e.dest = s.dc[k].dest /\ e.hop = s.dc[k].hop
  BY <1>1 DEF NdDestination
<1>4. t = [u EXCEPT !.dc = [u.dc EXCEPT ![k] = [u.dc[k] EXCEPT !.aged = FALSE]]]
  BY DEF NdUsed
<1> HIDE DEF a, e, t
<1>5. u \in NdStates /\ u.dc = s.dc /\ u.at = a /\ NdTold(s, [u EXCEPT !.at = s.at])
      /\ u.nc = s.nc /\ u.rl = s.rl /\ u.sending = s.sending /\ u.right = s.right
      /\ u.copies = s.copies
  BY <1>1, <1>2 DEF NdStates, NdTold
<1> HIDE DEF u
<1>6. t = [u EXCEPT !.dc = tb]
  BY <1>4, <1>5 DEF e
<1>7. tb \in [Destinations -> NdDestination] /\ tb[k] = e /\ NdHops(tb)
  BY <1>1, <1>3 DEF NdHops
<1> HIDE DEF tb
<1>8. /\ t \in NdStates /\ t.dc = tb /\ t.at = u.at /\ t.nc = u.nc /\ t.rl = u.rl
      /\ t.sending = u.sending /\ t.right = u.right /\ t.copies = u.copies
  BY <1>5, <1>6, <1>7 DEF NdStates
<1>9. NdGood(t, x)
  <2>1. /\ t.nc = s.nc /\ \A l \in RouterSlots : t.rl[l].entry = s.rl[l].entry
        /\ NdHops(t.dc)
        /\ t.sending = "ok" => s.sending = "ok" /\ t.right /\ t.copies - x = s.copies - x
    BY <1>5, <1>7, <1>8 DEF NdGood, NdFull
  <2> QED
    BY <1>8, <2>1, NdSame
<1> QED
  BY <1>2, <1>3, <1>5, <1>7, <1>8, <1>9 DEF t

\* The next hop h of a packet to ip: its entry is the one used last.
NdHopped(s, h, ip) ==
    LET k == h.s.at.d
    IN  /\ h.s.sending = s.sending /\ h.s.rl = s.rl
        /\ h.i = None => h.s.nc = s.nc
        /\ h.i # None =>
              /\ h.i \in Neighbors /\ h.s.at.n = h.i /\ NdElse(s, h.s, h.i)
              /\ h.s.dc[k].dest = ip /\ h.s.dc[k].hop \in OnLink
              /\ h.s.nc[h.i].ip = h.s.dc[k].hop
              /\ \/ h.s.nc[h.i] = s.nc[h.i]
                 \/ /\ ~s.nc[h.i].isrouter /\ h.s.nc[h.i] = Fresh(h.s.dc[k].hop)
                    /\ \A j \in Neighbors : s.nc[j].ip # h.s.dc[k].hop

LEMMA NdHop ==
    ASSUME NEW s, NEW x \in Int, NdGood(s, x), NEW ip \in Destined
    PROVE  LET h == nd6_get_next_hop_entry(s, ip)
           IN  NdGood(h.s, x) /\ NdHopped(s, h, ip)
<1> DEFINE d == Destination(s, ip)
           k == d.s.at.d
           hop == d.s.dc[k].hop
           e == IF IsCached(d.s) THEN [i |-> d.s.at.n, new |-> FALSE, s |-> d.s]
                ELSE Entry(d.s, hop)
           t == IF e.new THEN Resolving(e.s, e.i, hop) ELSE e.s
           h == nd6_get_next_hop_entry(s, ip)
<1>1. /\ NdGood(d.s, x) /\ NdTold(s, d.s)
      /\ d.ok => d.s.dc[k].dest = ip /\ hop \in OnLink
  BY NdDestined
<1>2. h = IF ~d.ok \/ e.i = None THEN [i |-> None, s |-> d.s]
          ELSE [i |-> e.i, s |-> NdUsed(t, e.i, k)]
  BY DEF nd6_get_next_hop_entry, HopOf, NextHop, NdUsed
<1>3. k \in Destinations /\ d.s.at.n \in Neighbors
  BY <1>1, NdParts DEF NdGood, NdBase
<1> HIDE DEF d, h
<1>4. NdGot(d.s, e, hop)
  <2>1. CASE IsCached(d.s)
    BY <1>3, <2>1 DEF IsCached, NdGot
  <2>2. CASE ~IsCached(d.s)
    BY <2>2, NdEntryGot
  <2> QED
    BY <2>1, <2>2
<1> HIDE DEF e, k, hop
<1>5. CASE ~d.ok \/ e.i = None
  <2>1. h = [i |-> None, s |-> d.s]
    BY <1>2, <1>5
  <2> QED
    BY <1>1, <2>1 DEF NdTold, NdHopped, h
<1>6. CASE d.ok /\ e.i # None
  <2>1. h.i = e.i /\ h.s = NdUsed(t, e.i, k)
    BY <1>2, <1>6
  <2>2. /\ NdGood(t, x) /\ NdAside(d.s, t) /\ e.i \in Neighbors
        /\ NdElse(d.s, t, e.i) /\ t.nc[e.i].ip = hop
        /\ \/ t = d.s
           \/ /\ ~d.s.nc[e.i].isrouter /\ t.nc[e.i] = Fresh(hop)
              /\ \A j \in Neighbors : d.s.nc[j].ip # hop
    BY <1>1, <1>4, <1>6, NdResolved
  <2> HIDE DEF t
  <2> DEFINE u == NdUsed(t, e.i, k)
  <2>3. /\ NdGood(u, x) /\ u.nc = t.nc /\ u.rl = t.rl /\ u.sending = t.sending
        /\ u.at.n = e.i /\ u.at.d = t.at.d
        /\ u.dc[k].dest = t.dc[k].dest /\ u.dc[k].hop = t.dc[k].hop
    BY <1>3, <2>2, NdUsedLast
  <2> HIDE DEF u
  <2>4. u.at.d = k /\ u.dc[k].dest = ip /\ u.dc[k].hop = hop /\ hop \in OnLink
    BY <1>1, <1>6, <2>2, <2>3 DEF NdAside, k, hop
  <2>5. u.rl = s.rl /\ u.sending = s.sending /\ d.s.nc = s.nc
    BY <1>1, <2>2, <2>3 DEF NdAside, NdTold
  <2>6. NdElse(s, u, e.i)
    BY <2>2, <2>3, <2>5 DEF NdElse
  <2>7. h.i # None /\ h.i = e.i /\ h.s = u
    BY <1>6, <2>1 DEF u
  <2>8. \/ u.nc[e.i] = s.nc[e.i]
        \/ /\ ~s.nc[e.i].isrouter /\ u.nc[e.i] = Fresh(hop)
           /\ \A j \in Neighbors : s.nc[j].ip # hop
    BY <2>2, <2>3, <2>5
  <2>9. u.nc[e.i].ip = hop
    BY <2>2, <2>3
  <2>10. NdHopped(s, h, ip)
    BY <2>2, <2>3, <2>4, <2>5, <2>6, <2>7, <2>8, <2>9 DEF NdHopped
  <2> QED
    BY <2>3, <2>7, <2>10 DEF h
<1> QED
  BY <1>5, <1>6

-----------------------------------------------------------------------------
(* Neighbour discovery: sending.                                           *)

\* Everything but the entry i, the count and the verdict is as before.
NdOnly(s, t, i) ==
    /\ t.dc = s.dc /\ t.rl = s.rl /\ t.pfx = s.pfx /\ t.at = s.at /\ t.sending = s.sending
    /\ NdElse(s, t, i)

\* An entry is written.
NdWith(s, i, e, c) == [s EXCEPT !.nc = [s.nc EXCEPT ![i] = e], !.copies = c]

LEMMA NdWritten ==
    ASSUME NEW s \in NdStates, NEW i \in Neighbors, NEW e \in NdEntry, NEW c \in Int
    PROVE  LET t == NdWith(s, i, e, c)
           IN  /\ t \in NdStates /\ NdOnly(s, t, i) /\ t.nc[i] = e /\ t.copies = c
               /\ t.right = s.right
<1> DEFINE tb == [s.nc EXCEPT ![i] = e]
<1>1. /\ tb \in [Neighbors -> NdEntry] /\ tb[i] = e
      /\ \A j \in Neighbors \ {i} : tb[j] = s.nc[j]
  BY NdParts
<1> HIDE DEF tb
<1> QED
  BY <1>1 DEF NdStates, NdOnly, NdElse, NdWith, tb

\* The entry i is written and has its address, and is a router's if it was.
LEMMA NdRewritten ==
    ASSUME NEW s, NEW x \in Int, NdGood(s, x), NEW i \in Neighbors, NEW t \in NdStates,
           NdOnly(s, t, i), NdEntryOK(t.nc[i]), t.nc[i].ip = s.nc[i].ip,
           t.nc[i].isrouter <=> s.nc[i].isrouter, NEW y \in Int,
           s.sending = "ok" => /\ t.right /\ NdEntryRight(t.nc[i])
                               /\ t.copies - y = s.copies - x + Len(t.nc[i].q) - Len(s.nc[i].q)
    PROVE  NdGood(t, y)
<1>1. /\ NdElse(s, t, i) /\ \A k \in RouterSlots : t.rl[k].entry = s.rl[k].entry
      /\ NdHops(t.dc)
      /\ t.sending = "ok" => /\ s.sending = "ok" /\ t.right /\ NdEntryRight(t.nc[i])
                             /\ t.copies - y = s.copies - x + Len(t.nc[i].q) - Len(s.nc[i].q)
  BY DEF NdOnly, NdGood, NdBase
<1>2. t.nc[i].ip = s.nc[i].ip \/ \A j \in Neighbors : s.nc[j].ip # t.nc[i].ip
  OBVIOUS
<1> QED
  BY <1>1, <1>2, NdPut

LEMMA NdQueuedPacket ==
    ASSUME NEW s, NEW x \in Int, NdGood(s, x), NEW i \in Neighbors, NEW dst \in Destined,
           s.nc[i].state = "INCOMPLETE"
    PROVE  LET t == nd6_queue_packet(s, i, dst)
           IN  /\ NdGood(t, x) /\ NdOnly(s, t, i)
               /\ t.nc[i].ip = s.nc[i].ip /\ t.nc[i].state = s.nc[i].state
               /\ t.nc[i].isrouter = s.nc[i].isrouter
               /\ s.nc[i].q = <<>> => t.nc[i].q \in {<<>>, <<dst>>}
<1> DEFINE q == s.nc[i].q
           put(p) == [s.nc[i] EXCEPT !.q = p]
           to(p, c) == NdWith(s, i, put(p), c)
           t == nd6_queue_packet(s, i, dst)
<1>1. s \in NdStates /\ s.nc[i] \in NdEntry /\ s.copies \in Int /\ q \in Seq(Destined)
  BY NdParts DEF NdGood, NdBase, NdEntry
<1>2. NdEntryOK(s.nc[i]) /\ (s.sending = "ok" => s.right)
  BY DEF NdGood, NdBase, NdFull
<1>3. ASSUME NEW p \in Seq(Destined), NEW c \in Int, c - x = s.copies - x + Len(p) - Len(q)
      PROVE  /\ NdGood(to(p, c), x) /\ NdOnly(s, to(p, c), i) /\ to(p, c).nc[i] = put(p)
             /\ put(p).q = p /\ put(p).ip = s.nc[i].ip /\ put(p).state = s.nc[i].state
             /\ put(p).isrouter = s.nc[i].isrouter
  <2> DEFINE e == put(p)
             u == to(p, c)
  <2>1. /\ e \in NdEntry /\ e.q = p /\ e.ip = s.nc[i].ip /\ e.state = s.nc[i].state
        /\ e.isrouter = s.nc[i].isrouter /\ e.ll = s.nc[i].ll
    BY <1>1 DEF NdEntry
  <2> HIDE DEF put
  <2>6. u = NdWith(s, i, e, c)
    OBVIOUS
  <2> HIDE DEF e, u, to
  <2>2. u \in NdStates /\ NdOnly(s, u, i) /\ u.nc[i] = e /\ u.copies = c /\ u.right = s.right
    <3> DEFINE w == NdWith(s, i, e, c)
    <3>1. w \in NdStates
      BY <1>1, <2>1, NdWritten
    <3>2. NdOnly(s, w, i)
      BY <1>1, <2>1, NdWritten
    <3>3. w.nc[i] = e /\ w.copies = c /\ w.right = s.right
      BY <1>1, <2>1, NdWritten
    <3> QED
      BY <2>6, <3>1, <3>2, <3>3
  <2>3. NdEntryOK(e) /\ NdEntryRight(e)
    BY <1>2, <2>1 DEF NdEntryOK, NdEntryRight
  <2>4. s.sending = "ok" => /\ u.right /\ NdEntryRight(u.nc[i])
                            /\ u.copies - x = s.copies - x + Len(u.nc[i].q) - Len(s.nc[i].q)
    BY <1>2, <1>3, <2>1, <2>2, <2>3
  <2>5. NdGood(u, x)
    BY <2>1, <2>2, <2>3, <2>4, NdRewritten
  <2> QED
    BY <2>1, <2>2, <2>5 DEF u, e
<1>4. CASE s.copies < MEMP_NUM_ND6_QUEUE
  <2>1. t = [[s EXCEPT !.nc = [s.nc EXCEPT ![i] = [s.nc[i] EXCEPT !.q = Append(q, dst)]]]
                EXCEPT !.copies = s.copies + 1]
    BY <1>4 DEF nd6_queue_packet
  <2>2. t = to(Append(q, dst), s.copies + 1)
    BY <2>1 DEF NdWith
  <2>3. Append(q, dst) \in Seq(Destined) /\ Len(Append(q, dst)) = Len(q) + 1 /\ Len(q) \in Nat
    BY <1>1
  <2>4. (s.copies + 1) - x = s.copies - x + Len(Append(q, dst)) - Len(q)
    BY <1>1, <2>3
  <2>5. q = <<>> => Append(q, dst) = <<dst>>
    BY <1>1
  <2> HIDE DEF to, put, t
  <2> DEFINE p == Append(q, dst)
             c == s.copies + 1
  <2>6. c \in Int
    BY <1>1
  <2> HIDE DEF p, c
  <2>7. /\ NdGood(to(p, c), x) /\ NdOnly(s, to(p, c), i) /\ to(p, c).nc[i] = put(p)
        /\ put(p).q = p /\ put(p).ip = s.nc[i].ip /\ put(p).state = s.nc[i].state
        /\ put(p).isrouter = s.nc[i].isrouter
    BY <1>3, <2>3, <2>4, <2>6 DEF p, c
  <2> QED
    BY <2>2, <2>5, <2>7 DEF p, c, t
<1>5. CASE ~(s.copies < MEMP_NUM_ND6_QUEUE) /\ q # <<>>
  <2>1. t = [s EXCEPT !.nc = [s.nc EXCEPT ![i] = [s.nc[i] EXCEPT !.q = Append(Tail(q), dst)]]]
    BY <1>5 DEF nd6_queue_packet
  <2>2. t = to(Append(Tail(q), dst), s.copies)
    BY <1>1, <2>1 DEF NdStates, NdWith
  <2>3. /\ Append(Tail(q), dst) \in Seq(Destined) /\ Len(Append(Tail(q), dst)) = Len(q)
        /\ Len(q) \in Nat
    BY <1>1, <1>5
  <2>4. s.copies - x = s.copies - x + Len(Append(Tail(q), dst)) - Len(q)
    BY <1>1, <2>3
  <2> HIDE DEF to, put, t
  <2> DEFINE p == Append(Tail(q), dst)
             c == s.copies
  <2>6. c \in Int
    BY <1>1
  <2> HIDE DEF p, c
  <2>7. /\ NdGood(to(p, c), x) /\ NdOnly(s, to(p, c), i) /\ to(p, c).nc[i] = put(p)
        /\ put(p).q = p /\ put(p).ip = s.nc[i].ip /\ put(p).state = s.nc[i].state
        /\ put(p).isrouter = s.nc[i].isrouter
    BY <1>3, <2>3, <2>4, <2>6 DEF p, c
  <2> QED
    BY <1>5, <2>2, <2>7 DEF p, c, t
<1>6. CASE ~(s.copies < MEMP_NUM_ND6_QUEUE) /\ q = <<>>
  BY <1>6 DEF nd6_queue_packet, NdOnly, NdElse
<1> QED
  BY <1>4, <1>5, <1>6

\* A packet goes to the neighbour i.
NdGone(s, i, hop) ==
    [(IF s.nc[i].state # "STALE" THEN s
      ELSE [s EXCEPT !.nc[i].state = "DELAY", !.nc[i].n = LWIP_ND6_DELAY_FIRST_PROBE_TIME])
     EXCEPT !.right = @ /\ s.nc[i].ll = hop]

LEMMA NdSentNow ==
    ASSUME NEW s, NEW x \in Int, NdGood(s, x), NEW i \in Neighbors,
           s.nc[i].state \notin {"NO_ENTRY", "INCOMPLETE"},
           NEW hop, hop = s.nc[i].ip
    PROVE  LET t == NdGone(s, i, hop)
           IN  /\ NdGood(t, x) /\ NdOnly(s, t, i)
               /\ t.nc[i].ip = s.nc[i].ip /\ t.nc[i].isrouter = s.nc[i].isrouter
               /\ t.nc[i].q = s.nc[i].q
               /\ \/ t.nc[i].state = s.nc[i].state
                  \/ s.nc[i].state = "STALE" /\ t.nc[i].state = "DELAY"
<1> DEFINE e == [s.nc[i] EXCEPT !.state = "DELAY", !.n = LWIP_ND6_DELAY_FIRST_PROBE_TIME]
           f == IF s.nc[i].state # "STALE" THEN s.nc[i] ELSE e
           u == IF s.nc[i].state # "STALE" THEN s
                ELSE [s EXCEPT !.nc[i].state = "DELAY", !.nc[i].n = LWIP_ND6_DELAY_FIRST_PROBE_TIME]
           t == NdGone(s, i, hop)
           w == NdWith(s, i, f, s.copies)
<1>1. s \in NdStates /\ s.nc[i] \in NdEntry /\ s.copies \in Int /\ s.nc \in [Neighbors -> NdEntry]
  BY NdParts DEF NdGood, NdBase
<1>2. NdEntryOK(s.nc[i]) /\ (s.sending = "ok" => s.right /\ NdEntryRight(s.nc[i]))
  BY DEF NdGood, NdBase, NdFull
<1>3. /\ f \in NdEntry /\ f.q = s.nc[i].q /\ f.ip = s.nc[i].ip /\ f.ll = s.nc[i].ll
      /\ f.isrouter = s.nc[i].isrouter
      /\ \/ f.state = s.nc[i].state
         \/ s.nc[i].state = "STALE" /\ f.state = "DELAY"
  <2>1. LWIP_ND6_DELAY_FIRST_PROBE_TIME \in Nat
    BY NdConstants
  <2> QED
    BY <1>1, <2>1 DEF NdEntry, NdNames
<1>4. NdEntryOK(f) /\ (s.sending = "ok" => NdEntryRight(f) /\ s.nc[i].ll = hop)
  BY <1>2, <1>3 DEF NdEntryOK, NdEntryRight
<1>5. u = w
  <2>1. CASE s.nc[i].state # "STALE"
    <3>1. [s.nc EXCEPT ![i] = s.nc[i]] = s.nc
      BY <1>1
    <3>2. s = [s EXCEPT !.nc = s.nc, !.copies = s.copies]
      BY <1>1 DEF NdStates
    <3>3. f = s.nc[i] /\ u = s
      BY <2>1
    <3> HIDE DEF f, u
    <3> QED
      BY <3>1, <3>2, <3>3 DEF NdWith
  <2>2. CASE s.nc[i].state = "STALE"
    <3>1. u = [s EXCEPT !.nc = [[s.nc EXCEPT ![i] = [s.nc[i] EXCEPT !.state = "DELAY"]]
                    EXCEPT ![i] = [[s.nc EXCEPT ![i] = [s.nc[i] EXCEPT !.state = "DELAY"]][i]
                        EXCEPT !.n = LWIP_ND6_DELAY_FIRST_PROBE_TIME]]]
      BY <2>2
    <3>2. [s.nc EXCEPT ![i] = [s.nc[i] EXCEPT !.state = "DELAY"]][i]
              = [s.nc[i] EXCEPT !.state = "DELAY"]
      BY <1>1
    <3>3. [[s.nc EXCEPT ![i] = [s.nc[i] EXCEPT !.state = "DELAY"]] EXCEPT ![i] = e]
              = [s.nc EXCEPT ![i] = e]
      BY <1>1
    <3>4. u = [s EXCEPT !.nc = [s.nc EXCEPT ![i] = e]]
      BY <3>1, <3>2, <3>3
    <3>5. [s EXCEPT !.nc = [s.nc EXCEPT ![i] = e]] = [s EXCEPT !.nc = [s.nc EXCEPT ![i] = e], !.copies = s.copies]
      BY <1>1 DEF NdStates
    <3>6. f = e
      BY <2>2
    <3> HIDE DEF f, u, e
    <3> QED
      BY <3>4, <3>5, <3>6 DEF NdWith
  <2> QED
    BY <2>1, <2>2
<1>12. t = [u EXCEPT !.right = @ /\ s.nc[i].ll = hop]
  BY DEF NdGone
<1> HIDE DEF f, u, w, e, t
<1>6. w \in NdStates /\ w.right \in BOOLEAN
  <2>1. w \in NdStates
    BY <1>1, <1>3, NdWritten DEF w
  <2> QED
    BY <2>1, NdParts
<1>7. NdOnly(s, w, i)
  BY <1>1, <1>3, NdWritten DEF w
<1>8. w.nc[i] = f /\ w.copies = s.copies /\ w.right = s.right
  BY <1>1, <1>3, NdWritten DEF w
<1>9. /\ t \in NdStates /\ t.right = (w.right /\ s.nc[i].ll = hop) /\ t.nc = w.nc
      /\ t.dc = w.dc /\ t.rl = w.rl /\ t.pfx = w.pfx /\ t.at = w.at /\ t.sending = w.sending
      /\ t.copies = w.copies
  BY <1>5, <1>6, <1>12 DEF NdStates
<1>10. NdOnly(s, t, i) /\ t.nc[i] = f
  BY <1>7, <1>8, <1>9 DEF NdOnly, NdElse
<1>11. NdGood(t, x)
  <2>1. s.sending = "ok" => /\ t.right /\ NdEntryRight(t.nc[i])
                            /\ t.copies - x = s.copies - x + Len(t.nc[i].q) - Len(s.nc[i].q)
    <3>1. t.copies = s.copies /\ Len(s.nc[i].q) \in Nat
      BY <1>1, <1>8, <1>9, NdQueued
    <3>2. t.nc[i].q = s.nc[i].q
      BY <1>3, <1>10
    <3>3. t.copies - x = s.copies - x + Len(t.nc[i].q) - Len(s.nc[i].q)
      BY <1>1, <3>1, <3>2
    <3> QED
      BY <1>2, <1>4, <1>8, <1>9, <1>10, <3>3
  <2>2. /\ NdEntryOK(t.nc[i]) /\ t.nc[i].ip = s.nc[i].ip
        /\ t.nc[i].isrouter <=> s.nc[i].isrouter
    BY <1>3, <1>4, <1>10
  <2> QED
    BY <1>9, <1>10, <2>1, <2>2, NdRewritten
<1> QED
  BY <1>3, <1>10, <1>11 DEF t

\* The entry i waits with nothing, or with the packet to dst alone; it is the next hop of
\* dst, and both are what was used last.
NdWaits(t, i, dst) ==
    \/ t.nc[i].q = <<>>
    \/ /\ t.nc[i].q = <<dst>> /\ t.at.n = i
       /\ t.dc[t.at.d].dest = dst /\ t.dc[t.at.d].hop = t.nc[i].ip

\* An entry keeps its address: its packets go only if it is resolved.
NdStays(e, f) ==
    /\ f.ip = e.ip /\ f.isrouter = e.isrouter
    /\ f.state = e.state \/ (e.state = "STALE" /\ f.state = "DELAY")
    /\ e.state # "INCOMPLETE" => f.q = e.q

\* What the output of a packet to dst does to the neighbours.
NdMoved(s, t, dst) ==
    /\ t.sending = s.sending /\ t.rl = s.rl
    /\ \A j \in Neighbors :
          \/ NdStays(s.nc[j], t.nc[j])
          \/ /\ ~s.nc[j].isrouter /\ ~t.nc[j].isrouter /\ t.nc[j].state = "INCOMPLETE"
             /\ t.nc[j].ip # s.nc[j].ip /\ NdWaits(t, j, dst)

LEMMA NdStaysSame ==
    \A e : NdStays(e, e)
BY DEF NdStays

LEMMA NdSentTo ==
    ASSUME NEW s, NEW x \in Int, NEW dst \in Destined, NEW h, NdGood(h.s, x), NdHopped(s, h, dst)
    PROVE  NdGood(SendTo(h, dst), x) /\ NdMoved(s, SendTo(h, dst), dst)
<1> DEFINE i == h.i
           t == h.s
           k == t.at.d
           u == IF t.nc[i].state # "STALE" THEN t
                ELSE [t EXCEPT !.nc[i].state = "DELAY", !.nc[i].n = LWIP_ND6_DELAY_FIRST_PROBE_TIME]
           v == [u EXCEPT !.right = @ /\ t.nc[i].ll = t.dc[k].hop]
           r == SendTo(h, dst)
<1>1. r = IF i = None THEN t
          ELSE IF t.nc[i].state = "INCOMPLETE" THEN nd6_queue_packet(t, i, dst) ELSE v
  BY DEF SendTo
<1>2. CASE i = None
  <2>1. r = t /\ t.nc = s.nc /\ t.sending = s.sending /\ t.rl = s.rl
    BY <1>1, <1>2 DEF NdHopped
  <2> HIDE DEF r, t
  <2>2. NdMoved(s, r, dst)
    BY <2>1, NdStaysSame DEF NdMoved
  <2> QED
    BY <2>1, <2>2 DEF r, t
<1>3. CASE i # None
  <2>1. /\ i \in Neighbors /\ t.at.n = i /\ NdElse(s, t, i) /\ t.sending = s.sending
        /\ t.rl = s.rl /\ t.dc[k].dest = dst /\ t.dc[k].hop \in OnLink
        /\ t.nc[i].ip = t.dc[k].hop
        /\ \/ t.nc[i] = s.nc[i]
           \/ /\ ~s.nc[i].isrouter /\ t.nc[i] = Fresh(t.dc[k].hop)
              /\ \A j \in Neighbors : s.nc[j].ip # t.dc[k].hop
    BY <1>3 DEF NdHopped
  <2>2. t \in NdStates /\ NdEntryOK(t.nc[i]) /\ t.nc[i] \in NdEntry
    BY <2>1, NdParts DEF NdGood, NdBase
  <2>3. t.nc[i].state # "NO_ENTRY"
    BY <2>1, <2>2, NdConstants DEF NdEntryOK
  <2> HIDE DEF i, t, k, u, v, r
  \* Both ways of sending: the packet waits, or it goes.
  <2>4. /\ NdGood(r, x) /\ NdOnly(t, r, i)
        /\ r.nc[i].ip = t.nc[i].ip /\ r.nc[i].isrouter = t.nc[i].isrouter
        /\ r.nc[i].state = t.nc[i].state \/ (t.nc[i].state = "STALE" /\ r.nc[i].state = "DELAY")
        /\ t.nc[i].state # "INCOMPLETE" => r.nc[i].q = t.nc[i].q
        /\ t.nc[i].state = "INCOMPLETE" /\ t.nc[i].q = <<>> => r.nc[i].q \in {<<>>, <<dst>>}
    <3>1. CASE t.nc[i].state = "INCOMPLETE"
      <4>1. r = nd6_queue_packet(t, i, dst)
        BY <1>1, <1>3, <3>1 DEF t
      <4>2. /\ NdGood(r, x) /\ NdOnly(t, r, i)
            /\ r.nc[i].ip = t.nc[i].ip /\ r.nc[i].state = t.nc[i].state
            /\ r.nc[i].isrouter = t.nc[i].isrouter
            /\ t.nc[i].q = <<>> => r.nc[i].q \in {<<>>, <<dst>>}
        BY <2>1, <3>1, <4>1, NdQueuedPacket DEF t
      <4> QED
        BY <3>1, <4>2
    <3>2. CASE t.nc[i].state # "INCOMPLETE"
      <4>1. r = v
        BY <1>1, <1>3, <3>2
      <4> DEFINE hop == t.dc[k].hop
      <4>2. hop = t.nc[i].ip
        BY <2>1
      <4>3. v = NdGone(t, i, hop)
        BY DEF v, u, NdGone
      <4> HIDE DEF hop
      <4>4. t.nc[i].state \notin {"NO_ENTRY", "INCOMPLETE"} /\ NdGood(t, x)
        BY <2>3, <3>2 DEF t
      <4>5. NdGood(v, x) /\ NdOnly(t, v, i)
        BY <2>1, <4>2, <4>3, <4>4, NdSentNow
      <4>6. v.nc[i].ip = t.nc[i].ip /\ v.nc[i].isrouter = t.nc[i].isrouter /\ v.nc[i].q = t.nc[i].q
        BY <2>1, <4>2, <4>3, <4>4, NdSentNow
      <4>7. v.nc[i].state = t.nc[i].state \/ (t.nc[i].state = "STALE" /\ v.nc[i].state = "DELAY")
        BY <2>1, <4>2, <4>3, <4>4, NdSentNow
      <4> QED
        BY <3>2, <4>1, <4>5, <4>6, <4>7
    <3> QED
      BY <3>1, <3>2
  <2>5. \A j \in Neighbors \ {i} : r.nc[j] = s.nc[j]
    BY <2>1, <2>4 DEF NdOnly, NdElse
  <2>6. r.sending = s.sending /\ r.rl = s.rl /\ r.at = t.at /\ r.dc = t.dc
    BY <2>1, <2>4 DEF NdOnly
  <2>7. CASE t.nc[i] = s.nc[i]
    <3>1. NdStays(s.nc[i], r.nc[i])
      BY <2>4, <2>7 DEF NdStays
    <3> QED
      BY <2>4, <2>5, <2>6, <3>1, NdStaysSame DEF NdMoved, r
  <2>8. CASE /\ ~s.nc[i].isrouter /\ t.nc[i] = Fresh(t.dc[k].hop)
             /\ \A j \in Neighbors : s.nc[j].ip # t.dc[k].hop
    <3>1. t.nc[i].state = "INCOMPLETE" /\ t.nc[i].q = <<>> /\ ~t.nc[i].isrouter
      BY <2>1, <2>8, NdFresh
    <3>2. /\ r.nc[i].state = "INCOMPLETE" /\ r.nc[i].ip # s.nc[i].ip /\ ~r.nc[i].isrouter
          /\ r.nc[i].q \in {<<>>, <<dst>>}
      BY <2>1, <2>4, <2>8, <3>1
    <3>3. NdWaits(r, i, dst)
      BY <2>1, <2>4, <2>6, <3>2 DEF NdWaits, k
    <3> QED
      BY <2>1, <2>4, <2>5, <2>6, <2>8, <3>2, <3>3, NdStaysSame DEF NdMoved, r
  <2> QED
    BY <2>1, <2>7, <2>8
<1> QED
  BY <1>2, <1>3

LEMMA NdOutput ==
    ASSUME NEW s, NEW x \in Int, NdGood(s, x), NEW dst \in Destined
    PROVE  NdGood(ethip6_output(s, dst), x) /\ NdMoved(s, ethip6_output(s, dst), dst)
<1> DEFINE h == nd6_get_next_hop_entry(s, dst)
<1>1. NdGood(h.s, x) /\ NdHopped(s, h, dst)
  BY NdHop
<1> HIDE DEF h
<1>2. NdGood(SendTo(h, dst), x) /\ NdMoved(s, SendTo(h, dst), dst)
  BY <1>1, NdSentTo
<1> QED
  BY <1>2 DEF h, ethip6_output

\* The packet that alone waited for an entry that is used for another address is put on
\* the same queue again.
LEMMA NdAgain ==
    ASSUME NEW s, NEW x \in Int, NdGood(s, x), NEW dst \in Destined, NEW i \in Neighbors,
           s.nc[i].state = "INCOMPLETE", s.nc[i].q = <<>>, s.at.n = i,
           s.dc[s.at.d].dest = dst, s.dc[s.at.d].hop = s.nc[i].ip
    PROVE  LET r == ethip6_output(s, dst)
           IN  /\ r.nc[i].ip = s.nc[i].ip /\ r.nc[i].state = "INCOMPLETE" /\ NdWaits(r, i, dst)
<1> DEFINE d == Destination(s, dst)
           h == nd6_get_next_hop_entry(s, dst)
           t == NdUsed(s, i, s.at.d)
           r == ethip6_output(s, dst)
<1>1. s \in NdStates /\ s.at.d \in Destinations
  BY NdParts DEF NdGood, NdBase
<1>2. d = [ok |-> TRUE, s |-> s]
  BY DEF Destination
<1>3. IsCached(s)
  BY DEF IsCached
<1>4. i # None
  BY NdConstants
<1>5. h = [i |-> i, s |-> t]
  <2>1. HopOf([ok |-> TRUE, s |-> s]) = NextHop([ok |-> TRUE, s |-> s], [i |-> i, new |-> FALSE, s |-> s])
    BY <1>3 DEF HopOf
  <2>2. NextHop([ok |-> TRUE, s |-> s], [i |-> i, new |-> FALSE, s |-> s]) = [i |-> i, s |-> t]
    BY <1>4 DEF NextHop, NdUsed
  <2> HIDE DEF d, t
  <2>3. HopOf(d) = [i |-> i, s |-> t]
    BY <1>2, <2>1, <2>2
  <2> QED
    BY <2>3 DEF d, nd6_get_next_hop_entry
<1>6. NdGood(t, x) /\ t.nc = s.nc /\ t.at.n = i /\ t.at.d = s.at.d
  BY <1>1, NdUsedLast
<1>7. t.dc[s.at.d].dest = dst /\ t.dc[s.at.d].hop = s.nc[i].ip
  BY <1>1, NdUsedLast
<1>8. r = nd6_queue_packet(t, i, dst)
  <2> HIDE DEF h, t
  <2>1. SendTo(h, dst) = nd6_queue_packet(t, i, dst)
    BY <1>4, <1>5, <1>6 DEF SendTo
  <2> QED
    BY <2>1 DEF ethip6_output, h
<1> HIDE DEF r, t, h, d
<1>9. /\ NdOnly(t, r, i)
      /\ r.nc[i].ip = t.nc[i].ip /\ r.nc[i].state = t.nc[i].state
      /\ t.nc[i].q = <<>> => r.nc[i].q \in {<<>>, <<dst>>}
  BY <1>6, <1>8, NdQueuedPacket
<1>10. NdWaits(r, i, dst)
  BY <1>6, <1>7, <1>9 DEF NdWaits, NdOnly
<1> QED
  BY <1>6, <1>9, <1>10 DEF r

\* A router's entry stays one, and stays its.
NdKept(s, t) == \A j \in Neighbors : s.nc[j].isrouter => t.nc[j].isrouter /\ t.nc[j].ip = s.nc[j].ip

LEMMA NdKeptOn ==
    /\ \A s, t, u : NdKept(s, t) /\ NdKept(t, u) => NdKept(s, u)
    /\ \A s, t : t.nc = s.nc => NdKept(s, t)
    /\ \A s, t, dst : NdMoved(s, t, dst) => NdKept(s, t)
<1>1. \A s, t, u : NdKept(s, t) /\ NdKept(t, u) => NdKept(s, u)
  BY DEF NdKept
<1>2. \A s, t : t.nc = s.nc => NdKept(s, t)
  BY DEF NdKept
<1>3. \A s, t, dst : NdMoved(s, t, dst) => NdKept(s, t)
  BY DEF NdKept, NdMoved, NdStays
<1> QED
  BY <1>1, <1>2, <1>3

\* While the queue of i, the entry of A, is sent: it is still that, or it waits for another
\* address, with the last packet at most.
NdHeld(A, t, i) ==
    \/ t.nc[i].ip = A /\ t.nc[i].state = "REACHABLE"
    \/ /\ t.nc[i].ip # A /\ t.nc[i].state = "INCOMPLETE"
       /\ \E d \in Destined : NdWaits(t, i, d)

LEMMA NdTurned ==
    ASSUME NEW t, NdGood(t, 0), NEW i \in Neighbors, NEW A, NdHeld(A, t, i)
    PROVE  LET r == Turn(t, i)
           IN  /\ NdGood(r, 0) /\ NdHeld(A, r, i) /\ NdKept(t, r)
               /\ r.sending = t.sending /\ r.rl = t.rl
<1> DEFINE q == t.nc[i].q
           e == [t.nc[i] EXCEPT !.q = Tail(q)]
           u == NdWith(t, i, e, t.copies)
           dst == Head(q)
           v == ethip6_output(u, dst)
           r == Turn(t, i)
<1>1. /\ t \in NdStates /\ t.nc[i] \in NdEntry /\ t.copies \in Int /\ NdEntryOK(t.nc[i])
      /\ q \in Seq(Destined) /\ t.nc \in [Neighbors -> NdEntry]
  BY NdParts DEF NdGood, NdBase, NdEntry
<1>2. CASE q = <<>>
  <2>1. r = t
    BY <1>2 DEF Turn
  <2> HIDE DEF r
  <2> QED
    BY <2>1, NdKeptOn DEF r
<1>3. CASE q # <<>>
  <2>1. dst \in Destined /\ Tail(q) \in Seq(Destined) /\ Len(Tail(q)) = Len(q) - 1 /\ Len(q) \in Nat
    BY <1>1, <1>3
  <2>2. /\ e \in NdEntry /\ e.q = Tail(q) /\ e.ip = t.nc[i].ip /\ e.state = t.nc[i].state
        /\ e.isrouter = t.nc[i].isrouter /\ e.ll = t.nc[i].ll
    BY <1>1, <2>1 DEF NdEntry
  <2>3. [t EXCEPT !.nc[i].q = Tail(@)] = u
    BY <1>1 DEF NdStates, NdWith
  <2>4. r = [v EXCEPT !.copies = v.copies - 1]
    <3>1. r = [ethip6_output([t EXCEPT !.nc[i].q = Tail(@)], dst) EXCEPT !.copies = @ - 1]
      BY <1>3 DEF Turn
    <3> HIDE DEF u, dst
    <3> QED
      BY <2>3, <3>1
  <2> HIDE DEF e, dst, r
  <2>5. u \in NdStates
    BY <1>1, <2>2, NdWritten
  <2>6. NdOnly(t, u, i)
    BY <1>1, <2>2, NdWritten
  <2>7. u.nc[i] = e /\ u.copies = t.copies /\ u.right = t.right
    BY <1>1, <2>2, NdWritten
  <2> HIDE DEF u
  <2>8. NdGood(u, 1)
    <3>1. t.sending = "ok" => /\ u.right /\ NdEntryRight(u.nc[i])
                              /\ u.copies - 1 = t.copies - 0 + Len(u.nc[i].q) - Len(t.nc[i].q)
      <4>1. t.sending = "ok" => t.right /\ NdEntryRight(t.nc[i])
        BY DEF NdGood, NdFull
      <4>2. t.sending = "ok" => NdEntryRight(e)
        BY <1>3, <2>2, <4>1 DEF NdEntryRight
      <4>3. u.copies - 1 = t.copies - 0 + Len(u.nc[i].q) - Len(t.nc[i].q)
        <5> DEFINE a == Len(q)
                   c == t.copies
        <5>1. a \in Int /\ c \in Int
          BY <1>1, <2>1
        <5>2. Len(u.nc[i].q) = a - 1 /\ u.copies = c /\ Len(t.nc[i].q) = a
          BY <2>1, <2>2, <2>7
        <5> HIDE DEF a, c
        <5>3. c - 1 = c - 0 + (a - 1) - a
          BY <5>1
        <5> QED
          BY <5>2, <5>3 DEF c
      <4> QED
        BY <2>7, <4>1, <4>2, <4>3
    <3>2. /\ NdEntryOK(u.nc[i]) /\ u.nc[i].ip = t.nc[i].ip
          /\ u.nc[i].isrouter <=> t.nc[i].isrouter
      BY <1>1, <1>3, <2>2, <2>7 DEF NdEntryOK
    <3>3. 0 \in Int /\ 1 \in Int
      OBVIOUS
    <3> QED
      BY <2>5, <2>6, <3>1, <3>2, <3>3, NdRewritten
  <2>9. NdGood(v, 1) /\ NdMoved(u, v, dst)
    BY <2>1, <2>8, NdOutput
  <2>10. v \in NdStates /\ v.copies \in Int
    BY <2>9, NdParts DEF NdGood, NdBase
  <2> HIDE DEF v
  <2>11. /\ r \in NdStates /\ r.nc = v.nc /\ r.dc = v.dc /\ r.rl = v.rl /\ r.at = v.at
         /\ r.sending = v.sending /\ r.right = v.right /\ r.copies = v.copies - 1
    BY <2>4, <2>10 DEF NdStates
  <2>12. NdGood(r, 0)
    <3>1. /\ \A l \in RouterSlots : r.rl[l].entry = v.rl[l].entry
          /\ NdHops(r.dc)
          /\ r.sending = "ok" => v.sending = "ok" /\ r.right /\ r.copies - 0 = v.copies - 1
      BY <2>9, <2>10, <2>11 DEF NdGood, NdBase, NdFull
    <3>2. 0 \in Int /\ 1 \in Int
      OBVIOUS
    <3> QED
      BY <2>9, <2>11, <3>1, <3>2, NdSame
  <2>13. NdKept(t, r)
    <3>1. NdKept(t, u)
      BY <2>2, <2>6, <2>7 DEF NdKept, NdOnly, NdElse
    <3>2. NdKept(u, v) /\ NdKept(v, r)
      BY <2>9, <2>11, NdKeptOn
    <3> QED
      BY <3>1, <3>2, NdKeptOn
  <2>14. r.sending = t.sending /\ r.rl = t.rl
    BY <2>6, <2>9, <2>11 DEF NdOnly, NdMoved
  <2>15. NdHeld(A, r, i)
    <3>1. ASSUME NdWaits(v, i, dst)
          PROVE  \E d \in Destined : NdWaits(r, i, d)
      <4>1. NdWaits(r, i, dst)
        BY <2>11, <3>1 DEF NdWaits
      <4> QED
        BY <2>1, <4>1
    <3>2. CASE t.nc[i].ip = A /\ t.nc[i].state = "REACHABLE"
      <4>1. u.nc[i].ip = A /\ u.nc[i].state = "REACHABLE"
        BY <2>2, <2>7, <3>2
      <4>2. CASE NdStays(u.nc[i], v.nc[i])
        BY <2>11, <4>1, <4>2 DEF NdStays, NdHeld
      <4>3. CASE v.nc[i].state = "INCOMPLETE" /\ v.nc[i].ip # u.nc[i].ip /\ NdWaits(v, i, dst)
        BY <2>11, <3>1, <4>1, <4>3 DEF NdHeld
      <4> QED
        BY <2>9, <4>2, <4>3 DEF NdMoved
    <3>3. CASE /\ t.nc[i].ip # A /\ t.nc[i].state = "INCOMPLETE"
               /\ \E d \in Destined : NdWaits(t, i, d)
      <4>1. PICK d \in Destined : NdWaits(t, i, d)
        BY <3>3
      <4>2. /\ q = <<d>> /\ t.at.n = i /\ t.dc[t.at.d].dest = d
            /\ t.dc[t.at.d].hop = t.nc[i].ip
        BY <1>3, <4>1 DEF NdWaits
      <4>3. dst = d /\ Tail(q) = <<>>
        BY <4>2 DEF dst
      <4>4. /\ u.nc[i].state = "INCOMPLETE" /\ u.nc[i].q = <<>> /\ u.at.n = i
            /\ u.dc[u.at.d].dest = dst /\ u.dc[u.at.d].hop = u.nc[i].ip
            /\ u.nc[i].ip = t.nc[i].ip
        BY <2>2, <2>6, <2>7, <3>3, <4>2, <4>3 DEF NdOnly
      <4>5. v.nc[i].ip = u.nc[i].ip /\ v.nc[i].state = "INCOMPLETE" /\ NdWaits(v, i, dst)
        <5>1. 1 \in Int
          OBVIOUS
        <5> QED
          BY <2>1, <2>8, <4>4, <5>1, NdAgain DEF v
      <4> QED
        BY <2>11, <3>1, <3>3, <4>4, <4>5 DEF NdHeld
    <3> QED
      BY <3>2, <3>3 DEF NdHeld
  <2> QED
    BY <2>12, <2>13, <2>14, <2>15 DEF r
<1> QED
  BY <1>2, <1>3

\* The turns of nd6_send_q.
NdTurns(f, s, i) ==
    f = [k \in 0..(MEMP_NUM_ND6_QUEUE + 1) |-> IF k = 0 THEN s ELSE Turn(f[k - 1], i)]

NdTurnStates(s, i) ==
    {t \in NdStates : /\ NdGood(t, 0) /\ NdHeld(s.nc[i].ip, t, i) /\ NdKept(s, t)
                      /\ t.sending = s.sending /\ t.rl = s.rl}

LEMMA NdTurnsKeep ==
    ASSUME NEW s, NEW i \in Neighbors, NEW t \in NdTurnStates(s, i)
    PROVE  Turn(t, i) \in NdTurnStates(s, i)
<1> DEFINE r == Turn(t, i)
           A == s.nc[i].ip
<1>1. NdGood(t, 0) /\ NdHeld(A, t, i) /\ NdKept(s, t) /\ t.sending = s.sending /\ t.rl = s.rl
  BY DEF NdTurnStates
<1> HIDE DEF A
<1>2. /\ NdGood(r, 0) /\ NdHeld(A, r, i) /\ NdKept(t, r) /\ r.sending = t.sending
      /\ r.rl = t.rl
  BY <1>1, NdTurned
<1> HIDE DEF r
<1>3. NdKept(s, r) /\ r \in NdStates
  BY <1>1, <1>2, NdKeptOn DEF NdGood, NdBase
<1> QED
  BY <1>1, <1>2, <1>3 DEF NdTurnStates, r, A

LEMMA NdTurnsExist ==
    ASSUME NEW s, NEW i \in Neighbors, s \in NdTurnStates(s, i)
    PROVE  \E f : NdTurns(f, s, i)
<1> DEFINE N == MEMP_NUM_ND6_QUEUE + 1
           T == NdTurnStates(s, i)
           F == [n \in 1..N |-> [t \in T |-> Turn(t, i)]]
<1>0. N \in Nat /\ s \in T
  BY NdConstants
<1>1. \A n \in 1..N, t \in T : Turn(t, i) \in T
  BY NdTurnsKeep
<1> HIDE DEF T, N
<1>2. F \in [1..N -> [T -> T]]
  BY <1>1
<1>3. \A n \in 1..N, t \in T : F[n][t] = Turn(t, i)
  OBVIOUS
<1> HIDE DEF F
<1>4. PICK g : Walk(g, N, T, s, F)
  BY <1>0, <1>2, Repeated
<1>5. \A n \in 0..N : g[n] = IF n = 0 THEN s ELSE Turn(g[n - 1], i)
  <2> SUFFICES ASSUME NEW n \in 0..N, n # 0
               PROVE  g[n] = Turn(g[n - 1], i)
    BY <1>4 DEF Walk
  <2>1. n \in 1..N /\ n - 1 \in 0..N
    BY <1>0
  <2> QED
    BY <1>3, <1>4, <2>1 DEF Walk
<1>6. NdTurns(g, s, i)
  <2>1. g = [n \in 0..N |-> g[n]]
    BY <1>4 DEF Walk
  <2> QED
    BY <1>5, <2>1 DEF NdTurns, N
<1> QED
  BY <1>6

LEMMA NdTurnsEnd ==
    ASSUME NEW s, NEW i \in Neighbors, s \in NdTurnStates(s, i), NEW f, NdTurns(f, s, i)
    PROVE  f[MEMP_NUM_ND6_QUEUE + 1] \in NdTurnStates(s, i)
<1> DEFINE N == MEMP_NUM_ND6_QUEUE + 1
           U == {n \in 0..N : f[n] \in NdTurnStates(s, i)}
<1>1. N \in Nat /\ \A n \in 0..N : f[n] = IF n = 0 THEN s ELSE Turn(f[n - 1], i)
  BY NdConstants DEF NdTurns
<1> HIDE DEF N
<1>2. 0 \in U
  BY <1>1
<1>3. ASSUME NEW n \in 0..(N - 1), n \in U
      PROVE  n + 1 \in U
  <2>1. n + 1 \in 0..N /\ (n + 1) - 1 = n /\ n + 1 # 0
    BY <1>1
  <2>2. f[n + 1] = Turn(f[n], i)
    BY <1>1, <2>1
  <2>3. Turn(f[n], i) \in NdTurnStates(s, i)
    BY <1>3, NdTurnsKeep
  <2> QED
    BY <2>1, <2>2, <2>3
<1> HIDE DEF U
<1>4. 0..N \subseteq U
  BY <1>1, <1>2, <1>3, IntervalInduction
<1> QED
  BY <1>1, <1>4 DEF U, N

\* The queue of a neighbour that has become reachable is sent, or its entry is lost.
LEMMA NdSendQ ==
    ASSUME NEW s, NdGood(s, 0), NEW i \in Neighbors, s.nc[i].state = "REACHABLE"
    PROVE  LET r == nd6_send_q(s, i)
           IN  /\ NdGood(r, 0) /\ NdKept(s, r) /\ r.rl = s.rl
               /\ r.nc[i].state \in {"REACHABLE", "INCOMPLETE"}
               /\ r.sending = "ok" => /\ s.sending = "ok" /\ r.nc[i].q = <<>>
                                      /\ r.nc[i].state = "REACHABLE"
<1> DEFINE f == CHOOSE f : NdTurns(f, s, i)
           t == f[MEMP_NUM_ND6_QUEUE + 1]
           A == s.nc[i].ip
           r == nd6_send_q(s, i)
           what == IF t.nc[i].q # <<>> THEN "endless"
                   ELSE IF t.nc[i].ip # A /\ t.sending = "ok" THEN "reused" ELSE t.sending
<1>1. s \in NdTurnStates(s, i)
  <2>1. NdKept(s, s) /\ s \in NdStates
    BY NdKeptOn DEF NdGood, NdBase
  <2>2. NdHeld(s.nc[i].ip, s, i)
    BY DEF NdHeld
  <2> QED
    BY <2>1, <2>2 DEF NdTurnStates
<1>2. r = Emptied(s, t, i)
  BY DEF nd6_send_q, NdTurns
<1>3. NdTurns(f, s, i)
  <2>1. \E g : NdTurns(g, s, i)
    BY <1>1, NdTurnsExist
  <2> QED
    BY <2>1, Zenon
<1> HIDE DEF f
<1>4. t \in NdTurnStates(s, i)
  BY <1>1, <1>3, NdTurnsEnd
<1> HIDE DEF t, r
<1>5. r = [t EXCEPT !.sending = what]
  BY <1>2 DEF Emptied
<1>6. /\ t \in NdStates /\ NdGood(t, 0) /\ NdHeld(A, t, i) /\ NdKept(s, t)
      /\ t.sending = s.sending /\ t.rl = s.rl /\ t.sending \in {"ok", "reused", "endless"}
  BY <1>4, NdParts DEF NdTurnStates
<1>7. /\ what \in {"ok", "reused", "endless"}
      /\ what = "ok" => t.sending = "ok" /\ t.nc[i].q = <<>> /\ t.nc[i].ip = A
  BY <1>6
<1> HIDE DEF what
<1>8. /\ r \in NdStates /\ r.nc = t.nc /\ r.rl = t.rl /\ r.dc = t.dc /\ r.sending = what
      /\ r.right = t.right /\ r.copies = t.copies
  BY <1>5, <1>6, <1>7 DEF NdStates
<1>9. NdGood(r, 0)
  <2>1. /\ \A l \in RouterSlots : r.rl[l].entry = t.rl[l].entry
        /\ NdHops(r.dc)
        /\ r.sending = "ok" => t.sending = "ok" /\ r.right /\ r.copies - 0 = t.copies - 0
    BY <1>6, <1>7, <1>8 DEF NdGood, NdBase, NdFull
  <2>2. 0 \in Int
    OBVIOUS
  <2> QED
    BY <1>6, <1>8, <2>1, <2>2, NdSame
<1>10. NdKept(s, r)
  BY <1>6, <1>8 DEF NdKept
<1>11. r.nc[i].state \in {"REACHABLE", "INCOMPLETE"}
  BY <1>6, <1>8 DEF NdHeld
<1>12. r.sending = "ok" => r.nc[i].state = "REACHABLE"
  BY <1>6, <1>7, <1>8 DEF NdHeld
<1> QED
  BY <1>6, <1>7, <1>8, <1>9, <1>10, <1>11, <1>12 DEF r

-----------------------------------------------------------------------------
(* Neighbour discovery: one field of an entry.                             *)

NdState(s, i, z) == [s EXCEPT !.nc[i].state = z]
NdCount(s, i, n) == [s EXCEPT !.nc[i].n = n]
NdLl(s, i, a) == [s EXCEPT !.nc[i].ll = a]
NdIp(s, i, a) == [s EXCEPT !.nc[i].ip = a]
NdIsRouter(s, i, b) == [s EXCEPT !.nc[i].isrouter = b]

\* A field of the entry i is written, and nothing else.
NdWrote(s, t, i) ==
    /\ t \in NdStates /\ NdOnly(s, t, i) /\ t.copies = s.copies /\ t.right = s.right
    /\ t.nc[i] \in NdEntry /\ t.nc[i].q = s.nc[i].q

LEMMA NdWroteOn ==
    ASSUME NEW s, NEW t, NEW u, NEW i, NdWrote(s, t, i), NdWrote(t, u, i)
    PROVE  NdWrote(s, u, i)
BY DEF NdWrote, NdOnly, NdElse

LEMMA NdWroteEntry ==
    ASSUME NEW s \in NdStates, NEW i \in Neighbors, NEW e \in NdEntry, e.q = s.nc[i].q,
           NEW t, t = [s EXCEPT !.nc = [s.nc EXCEPT ![i] = e]]
    PROVE  NdWrote(s, t, i) /\ t.nc[i] = e
<1> DEFINE tb == [s.nc EXCEPT ![i] = e]
<1>1. /\ tb \in [Neighbors -> NdEntry] /\ tb[i] = e
      /\ \A j \in Neighbors \ {i} : tb[j] = s.nc[j]
  BY NdParts
<1>2. t = [s EXCEPT !.nc = tb]
  OBVIOUS
<1> HIDE DEF tb
<1>3. /\ t \in NdStates /\ t.nc = tb /\ t.dc = s.dc /\ t.rl = s.rl /\ t.pfx = s.pfx /\ t.at = s.at
      /\ t.sending = s.sending /\ t.copies = s.copies /\ t.right = s.right
  BY <1>1, <1>2 DEF NdStates
<1> QED
  BY <1>1, <1>3 DEF NdWrote, NdOnly, NdElse

LEMMA NdStateIs ==
    ASSUME NEW s \in NdStates, NEW i \in Neighbors, NEW z \in NdNames
    PROVE  LET t == NdState(s, i, z)
           IN  /\ NdWrote(s, t, i)
               /\ t.nc[i].state = z /\ t.nc[i].ip = s.nc[i].ip /\ t.nc[i].ll = s.nc[i].ll
               /\ t.nc[i].isrouter = s.nc[i].isrouter /\ t.nc[i].n = s.nc[i].n
<1> DEFINE e == [s.nc[i] EXCEPT !.state = z]
           t == NdState(s, i, z)
<1>1. s.nc[i] \in NdEntry
  BY NdParts
<1>2. /\ e \in NdEntry /\ e.q = s.nc[i].q
      /\ e.state = z /\ e.ip = s.nc[i].ip /\ e.ll = s.nc[i].ll /\ e.isrouter = s.nc[i].isrouter /\ e.n = s.nc[i].n
  BY <1>1 DEF NdEntry
<1>3. t = [s EXCEPT !.nc = [s.nc EXCEPT ![i] = e]]
  BY DEF NdState
<1> HIDE DEF e, t
<1>4. NdWrote(s, t, i) /\ t.nc[i] = e
  BY <1>2, <1>3, NdWroteEntry
<1> QED
  BY <1>2, <1>4 DEF t

LEMMA NdCountIs ==
    ASSUME NEW s \in NdStates, NEW i \in Neighbors, NEW n \in Nat
    PROVE  LET t == NdCount(s, i, n)
           IN  /\ NdWrote(s, t, i)
               /\ t.nc[i].state = s.nc[i].state /\ t.nc[i].ip = s.nc[i].ip /\ t.nc[i].ll = s.nc[i].ll
               /\ t.nc[i].isrouter = s.nc[i].isrouter /\ t.nc[i].n = n
<1> DEFINE e == [s.nc[i] EXCEPT !.n = n]
           t == NdCount(s, i, n)
<1>1. s.nc[i] \in NdEntry
  BY NdParts
<1>2. /\ e \in NdEntry /\ e.q = s.nc[i].q
      /\ e.state = s.nc[i].state /\ e.ip = s.nc[i].ip /\ e.ll = s.nc[i].ll /\ e.isrouter = s.nc[i].isrouter /\ e.n = n
  BY <1>1 DEF NdEntry
<1>3. t = [s EXCEPT !.nc = [s.nc EXCEPT ![i] = e]]
  BY DEF NdCount
<1> HIDE DEF e, t
<1>4. NdWrote(s, t, i) /\ t.nc[i] = e
  BY <1>2, <1>3, NdWroteEntry
<1> QED
  BY <1>2, <1>4 DEF t

LEMMA NdLlIs ==
    ASSUME NEW s \in NdStates, NEW i \in Neighbors, NEW a \in OnLink
    PROVE  LET t == NdLl(s, i, a)
           IN  /\ NdWrote(s, t, i)
               /\ t.nc[i].state = s.nc[i].state /\ t.nc[i].ip = s.nc[i].ip /\ t.nc[i].ll = a
               /\ t.nc[i].isrouter = s.nc[i].isrouter /\ t.nc[i].n = s.nc[i].n
<1> DEFINE e == [s.nc[i] EXCEPT !.ll = a]
           t == NdLl(s, i, a)
<1>1. s.nc[i] \in NdEntry
  BY NdParts
<1>2. /\ e \in NdEntry /\ e.q = s.nc[i].q
      /\ e.state = s.nc[i].state /\ e.ip = s.nc[i].ip /\ e.ll = a /\ e.isrouter = s.nc[i].isrouter /\ e.n = s.nc[i].n
  BY <1>1 DEF NdEntry
<1>3. t = [s EXCEPT !.nc = [s.nc EXCEPT ![i] = e]]
  BY DEF NdLl
<1> HIDE DEF e, t
<1>4. NdWrote(s, t, i) /\ t.nc[i] = e
  BY <1>2, <1>3, NdWroteEntry
<1> QED
  BY <1>2, <1>4 DEF t

LEMMA NdIpIs ==
    ASSUME NEW s \in NdStates, NEW i \in Neighbors, NEW a \in OnLink
    PROVE  LET t == NdIp(s, i, a)
           IN  /\ NdWrote(s, t, i)
               /\ t.nc[i].state = s.nc[i].state /\ t.nc[i].ip = a /\ t.nc[i].ll = s.nc[i].ll
               /\ t.nc[i].isrouter = s.nc[i].isrouter /\ t.nc[i].n = s.nc[i].n
<1> DEFINE e == [s.nc[i] EXCEPT !.ip = a]
           t == NdIp(s, i, a)
<1>1. s.nc[i] \in NdEntry
  BY NdParts
<1>2. /\ e \in NdEntry /\ e.q = s.nc[i].q
      /\ e.state = s.nc[i].state /\ e.ip = a /\ e.ll = s.nc[i].ll /\ e.isrouter = s.nc[i].isrouter /\ e.n = s.nc[i].n
  BY <1>1 DEF NdEntry
<1>3. t = [s EXCEPT !.nc = [s.nc EXCEPT ![i] = e]]
  BY DEF NdIp
<1> HIDE DEF e, t
<1>4. NdWrote(s, t, i) /\ t.nc[i] = e
  BY <1>2, <1>3, NdWroteEntry
<1> QED
  BY <1>2, <1>4 DEF t

LEMMA NdIsRouterIs ==
    ASSUME NEW s \in NdStates, NEW i \in Neighbors, NEW b \in BOOLEAN
    PROVE  LET t == NdIsRouter(s, i, b)
           IN  /\ NdWrote(s, t, i)
               /\ t.nc[i].state = s.nc[i].state /\ t.nc[i].ip = s.nc[i].ip /\ t.nc[i].ll = s.nc[i].ll
               /\ t.nc[i].isrouter = b /\ t.nc[i].n = s.nc[i].n
<1> DEFINE e == [s.nc[i] EXCEPT !.isrouter = b]
           t == NdIsRouter(s, i, b)
<1>1. s.nc[i] \in NdEntry
  BY NdParts
<1>2. e \in NdEntry /\ e.q = s.nc[i].q
  BY <1>1 DEF NdEntry
<1>5. /\ e.state = s.nc[i].state /\ e.ip = s.nc[i].ip /\ e.ll = s.nc[i].ll /\ e.isrouter = b /\ e.n = s.nc[i].n
  BY <1>1 DEF NdEntry
<1>3. t = [s EXCEPT !.nc = [s.nc EXCEPT ![i] = e]]
  BY DEF NdIsRouter
<1> HIDE DEF e, t
<1>4. NdWrote(s, t, i) /\ t.nc[i] = e
  <2>1. NdWrote(s, t, i)
    BY <1>2, <1>3, NdWroteEntry
  <2>2. t.nc = [s.nc EXCEPT ![i] = e] /\ s.nc \in [Neighbors -> NdEntry]
    BY <1>3, NdParts DEF NdStates
  <2> QED
    BY <2>1, <2>2
<1> QED
  BY <1>2, <1>4, <1>5 DEF t

\* A field is written that changes neither the address nor whether it is a router.
LEMMA NdWroteGood ==
    ASSUME NEW s, NEW x \in Int, NdGood(s, x), NEW i \in Neighbors, NEW t, NdWrote(s, t, i),
           t.nc[i].ip = s.nc[i].ip, t.nc[i].isrouter = s.nc[i].isrouter,
           t.nc[i].state = "NO_ENTRY" <=> s.nc[i].state = "NO_ENTRY",
           s.sending = "ok" => NdEntryRight(t.nc[i])
    PROVE  NdGood(t, x) /\ NdKept(s, t) /\ t.rl = s.rl
<1>1. s \in NdStates /\ s.copies \in Int /\ Len(s.nc[i].q) \in Nat /\ NdEntryOK(s.nc[i])
  BY NdParts, NdQueued DEF NdGood, NdBase
<1>2. t \in NdStates /\ NdOnly(s, t, i) /\ t.rl = s.rl /\ t.nc[i].q = s.nc[i].q
      /\ t.right = s.right /\ t.copies = s.copies
  BY DEF NdWrote, NdOnly
<1>3. NdEntryOK(t.nc[i])
  BY <1>1, <1>2 DEF NdEntryOK
<1>4. t.copies - x = s.copies - x + Len(t.nc[i].q) - Len(s.nc[i].q)
  BY <1>1, <1>2
<1>5. s.sending = "ok" => /\ t.right /\ NdEntryRight(t.nc[i])
                          /\ t.copies - x = s.copies - x + Len(t.nc[i].q) - Len(s.nc[i].q)
  BY <1>2, <1>4 DEF NdGood, NdFull
<1>6. NdGood(t, x)
  <2>1. t.nc[i].isrouter <=> s.nc[i].isrouter
    OBVIOUS
  <2> QED
    BY <1>2, <1>3, <1>5, <2>1, NdRewritten
<1>7. NdKept(s, t)
  BY <1>2 DEF NdKept, NdOnly, NdElse
<1> QED
  BY <1>2, <1>6, <1>7

LEMMA NdFreedGood ==
    ASSUME NEW s, NEW x \in Int, NdGood(s, x), NEW i \in Neighbors, ~s.nc[i].isrouter
    PROVE  LET t == nd6_free_neighbor_cache_entry(s, i)
           IN  NdGood(t, x) /\ NdKept(s, t) /\ t.rl = s.rl
<1> DEFINE t == nd6_free_neighbor_cache_entry(s, i)
<1>1. s \in NdStates /\ s.nc \in [Neighbors -> NdEntry]
  BY NdParts DEF NdGood, NdBase
<1>2. /\ t \in NdStates /\ NdAside(s, t) /\ t.nc = [s.nc EXCEPT ![i] = Unused]
      /\ t.copies = s.copies - Len(s.nc[i].q) /\ t.nc[i] = Unused
  BY <1>1, NdFreed
<1> HIDE DEF t
<1>3. NdElse(s, t, i)
  BY <1>1, <1>2 DEF NdElse
<1>4. /\ NdEntryOK(Unused) /\ NdEntryRight(Unused) /\ ~Unused.isrouter /\ Unused.q = <<>>
      /\ Unused.ip = NoAddr
  BY DEF NdEntryOK, NdEntryRight, Unused
<1>5. t.sending = s.sending /\ t.rl = s.rl /\ t.dc = s.dc /\ t.right = s.right
  BY <1>2 DEF NdAside
<1> HIDE DEF Unused
<1>6. NdBase(t)
  <2>1. \A j \in Neighbors : NdEntryOK(t.nc[j])
    BY <1>2, <1>3, <1>4 DEF NdGood, NdBase, NdElse
  <2>2. NdApart(t.nc)
    BY <1>2, <1>3, <1>4 DEF NdGood, NdBase, NdElse, NdApart
  <2>3. NdLinked(t.nc, t.rl)
    <3>1. \A j \in Neighbors : t.nc[j].isrouter <=> s.nc[j].isrouter
      BY <1>2, <1>3, <1>4 DEF NdElse
    <3>2. NdLinked(s.nc, s.rl) /\ \A k \in RouterSlots : s.rl[k].entry \in Neighbors \cup {None}
      BY <1>1, NdParts DEF NdGood, NdBase
    <3> QED
      BY <1>5, <3>1, <3>2 DEF NdLinked
  <2> QED
    BY <1>2, <1>5, <2>1, <2>2, <2>3 DEF NdGood, NdBase
<1>7. ASSUME t.sending = "ok"
      PROVE  NdFull(t, x)
  <2>1. NdFull(s, x)
    BY <1>5, <1>7 DEF NdGood
  <2>2. \A j \in Neighbors : NdEntryRight(t.nc[j])
    BY <1>2, <1>3, <1>4, <2>1 DEF NdFull, NdElse
  <2>3. Unused \in NdEntry
    BY DEF Unused, NdEntry, NdNames
  <2>4. /\ Queued([s.nc EXCEPT ![i] = Unused]) = Queued(s.nc) - Len(s.nc[i].q) + Len(Unused.q)
        /\ Queued(s.nc) \in Int /\ Len(s.nc[i].q) \in Nat
    BY <1>1, <2>3, NdQueued
  <2>5. Queued(t.nc) = Queued(s.nc) - Len(s.nc[i].q)
    <3>1. Queued(t.nc) = Queued(s.nc) - Len(s.nc[i].q) + Len(Unused.q)
      BY <1>2, <2>4
    <3>2. Len(Unused.q) = 0
      BY <1>4
    <3> QED
      BY <2>4, <3>1, <3>2
  <2>6. t.copies = Queued(t.nc) + x
    <3> DEFINE a == Queued(s.nc)
               b == Len(s.nc[i].q)
    <3>1. a \in Int /\ b \in Int /\ s.copies = a + x
      BY <2>1, <2>4 DEF NdFull
    <3>2. t.copies = s.copies - b /\ Queued(t.nc) = a - b
      BY <1>2, <2>5
    <3> HIDE DEF a, b
    <3>3. (a + x) - b = (a - b) + x
      BY <3>1
    <3> QED
      BY <3>1, <3>2, <3>3
  <2> QED
    BY <1>5, <2>1, <2>2, <2>6 DEF NdFull
<1>8. NdKept(s, t)
  BY <1>3 DEF NdKept, NdElse
<1> QED
  BY <1>5, <1>6, <1>7, <1>8 DEF NdGood, t

-----------------------------------------------------------------------------
(* Neighbour discovery: the timer.                                         *)

\* State and counter.
LEMMA NdTimedIs ==
    ASSUME NEW s \in NdStates, NEW i \in Neighbors, NEW z \in NdNames, NEW n \in Nat
    PROVE  LET t == NdCount(NdState(s, i, z), i, n)
           IN  /\ NdWrote(s, t, i) /\ t.nc[i].state = z
               /\ t.nc[i].ip = s.nc[i].ip /\ t.nc[i].ll = s.nc[i].ll
               /\ t.nc[i].isrouter = s.nc[i].isrouter
<1> DEFINE u == NdState(s, i, z)
           t == NdCount(u, i, n)
<1>1. NdWrote(s, u, i)
  BY NdStateIs
<1>2. /\ u.nc[i].state = z /\ u.nc[i].ip = s.nc[i].ip /\ u.nc[i].ll = s.nc[i].ll
      /\ u.nc[i].isrouter = s.nc[i].isrouter
  BY NdStateIs
<1>3. u \in NdStates
  BY <1>1 DEF NdWrote
<1> HIDE DEF u
<1>4. NdWrote(u, t, i)
  BY <1>3, NdCountIs
<1>5. /\ t.nc[i].state = u.nc[i].state /\ t.nc[i].ip = u.nc[i].ip /\ t.nc[i].ll = u.nc[i].ll
      /\ t.nc[i].isrouter = u.nc[i].isrouter
  BY <1>3, NdCountIs
<1> HIDE DEF t
<1>6. NdWrote(s, t, i)
  BY <1>1, <1>4, NdWroteOn
<1> QED
  BY <1>2, <1>5, <1>6 DEF t, u

\* A neighbour that is resolved, and for whom nothing waits if that is stale, gets another state.
LEMMA NdTimedGood ==
    ASSUME NEW s, NEW x \in Int, NdGood(s, x), NEW i \in Neighbors, NEW z \in NdNames \ {"NO_ENTRY"},
           NEW n \in Nat, s.nc[i].state # "NO_ENTRY",
           s.sending = "ok" => s.nc[i].ll = s.nc[i].ip /\ (z = "STALE" => s.nc[i].q = <<>>)
    PROVE  LET t == NdCount(NdState(s, i, z), i, n)
           IN  NdGood(t, x) /\ NdKept(s, t) /\ t.rl = s.rl
<1> DEFINE t == NdCount(NdState(s, i, z), i, n)
<1>1. s \in NdStates
  BY DEF NdGood, NdBase
<1>2. NdWrote(s, t, i)
  BY <1>1, NdTimedIs
<1>3. /\ t.nc[i].state = z /\ t.nc[i].ip = s.nc[i].ip /\ t.nc[i].ll = s.nc[i].ll
      /\ t.nc[i].isrouter = s.nc[i].isrouter
  BY <1>1, NdTimedIs
<1> HIDE DEF t
<1>4. s.sending = "ok" => NdEntryRight(t.nc[i])
  BY <1>2, <1>3 DEF NdEntryRight, NdWrote
<1>5. t.nc[i].state = "NO_ENTRY" <=> s.nc[i].state = "NO_ENTRY"
  BY <1>3
<1>6. NdGood(t, x) /\ NdKept(s, t) /\ t.rl = s.rl
  BY <1>2, <1>3, <1>4, <1>5, NdWroteGood
<1> QED
  BY <1>6 DEF t

LEMMA NdCountGood ==
    ASSUME NEW s, NEW x \in Int, NdGood(s, x), NEW i \in Neighbors, NEW n \in Nat
    PROVE  LET t == NdCount(s, i, n)
           IN  /\ NdGood(t, x) /\ NdKept(s, t) /\ t.rl = s.rl /\ t.nc[i].ip = s.nc[i].ip
               /\ t.nc[i].state = s.nc[i].state
<1> DEFINE t == NdCount(s, i, n)
<1>1. s \in NdStates
  BY DEF NdGood, NdBase
<1>2. NdWrote(s, t, i)
  BY <1>1, NdCountIs
<1>3. /\ t.nc[i].state = s.nc[i].state /\ t.nc[i].ip = s.nc[i].ip /\ t.nc[i].ll = s.nc[i].ll
      /\ t.nc[i].isrouter = s.nc[i].isrouter
  BY <1>1, NdCountIs
<1> HIDE DEF t
<1>4. s.sending = "ok" => NdEntryRight(t.nc[i])
  BY <1>2, <1>3 DEF NdEntryRight, NdWrote, NdGood, NdFull
<1>6. NdGood(t, x) /\ NdKept(s, t) /\ t.rl = s.rl
  BY <1>2, <1>3, <1>4, NdWroteGood
<1> QED
  BY <1>3, <1>6 DEF t

LEMMA NdProbed ==
    ASSUME NEW s, NdGood(s, 0), NEW i \in Neighbors, s.nc[i].state # "NO_ENTRY"
    PROVE  NdGood(Probed(s, i), 0) /\ NdKept(s, Probed(s, i)) /\ Probed(s, i).rl = s.rl
<1> DEFINE S == {s.nc[i].n + 1, LWIP_ND6_MAX_MULTICAST_SOLICIT}
           n == Min(S)
           t == NdCount(s, i, n)
           A == s.nc[i].ip
           r == Probed(s, i)
<1>1. s.nc[i] \in NdEntry /\ NdEntryOK(s.nc[i])
  BY NdParts DEF NdGood, NdBase
<1>2. n \in Nat
  <2>1. S \subseteq Nat /\ S # {}
    BY <1>1, NdConstants DEF NdEntry
  <2> HIDE DEF S
  <2>2. Min(S) \in S
    BY <2>1, MinIsLeast
  <2> QED
    BY <2>1, <2>2
<1>3. A \in Destined
  BY <1>1, NdConstants DEF NdEntryOK, NdEntry
<1>4. r = IF s.nc[i].state = "INCOMPLETE" THEN t ELSE ethip6_output(t, A)
  BY DEF Probed, NdCount
<1> HIDE DEF n, A, r
<1>5. NdGood(t, 0) /\ NdKept(s, t) /\ t.rl = s.rl
  <2>1. 0 \in Int
    OBVIOUS
  <2> QED
    BY <1>2, <2>1, NdCountGood
<1> HIDE DEF t
<1>6. NdGood(ethip6_output(t, A), 0) /\ NdMoved(t, ethip6_output(t, A), A)
  <2>1. 0 \in Int
    OBVIOUS
  <2> QED
    BY <1>3, <1>5, <2>1, NdOutput
<1>7. NdKept(s, ethip6_output(t, A)) /\ ethip6_output(t, A).rl = s.rl
  BY <1>5, <1>6, NdKeptOn DEF NdMoved
<1> QED
  BY <1>4, <1>5, <1>6, <1>7 DEF r

LEMMA NdAged ==
    ASSUME NEW s, NdGood(s, 0), NEW i \in Neighbors
    PROVE  NdGood(Aged(s, i), 0) /\ NdKept(s, Aged(s, i)) /\ Aged(s, i).rl = s.rl
<1> DEFINE e == s.nc[i]
           t == IF e.q # <<>> THEN nd6_send_q(s, i) ELSE s
           r == Aged(s, i)
           Good(u) == NdGood(u, 0) /\ NdKept(s, u) /\ u.rl = s.rl
<1>1. e \in NdEntry /\ NdEntryOK(e) /\ 0 \in Int
  BY NdParts DEF NdGood, NdBase
<1>2. s.sending = "ok" => NdEntryRight(e)
  BY DEF NdGood, NdFull
<1>3. CASE e.state \in {"INCOMPLETE", "PROBE"}
  <2>1. r = IF e.n >= LWIP_ND6_MAX_MULTICAST_SOLICIT /\ ~e.isrouter
            THEN nd6_free_neighbor_cache_entry(s, i) ELSE Probed(s, i)
    BY <1>3 DEF Aged
  <2>2. ~e.isrouter => Good(nd6_free_neighbor_cache_entry(s, i))
    BY <1>1, NdFreedGood
  <2>3. Good(Probed(s, i))
    BY <1>3, NdProbed
  <2> HIDE DEF r, Good
  <2>4. Good(r)
    BY <2>1, <2>2, <2>3
  <2> QED
    BY <2>4 DEF r, Good
<1>4. CASE e.state = "REACHABLE"
  <2>1. r = IF t.nc[i].n <= 1 THEN NdCount(NdState(t, i, "STALE"), i, 0)
            ELSE NdCount(t, i, t.nc[i].n - 1)
    BY <1>4 DEF Aged, NdCount, NdState
  <2>2. /\ NdGood(t, 0) /\ NdKept(s, t) /\ t.rl = s.rl
        /\ t.nc[i].state \in {"REACHABLE", "INCOMPLETE"}
        /\ t.sending = "ok" => t.nc[i].q = <<>> /\ t.nc[i].state = "REACHABLE"
    <3>1. CASE e.q # <<>>
      BY <1>4, <3>1, NdSendQ
    <3>2. CASE e.q = <<>>
      <4>1. t = s
        BY <3>2
      <4> HIDE DEF t
      <4> QED
        BY <1>4, <3>2, <4>1, NdKeptOn
    <3> QED
      BY <3>1, <3>2
  <2> HIDE DEF t, r
  <2>3. t.nc[i].n \in Nat
    BY <2>2, NdParts DEF NdGood, NdBase, NdEntry
  <2>4. t.sending = "ok" => t.nc[i].ll = t.nc[i].ip /\ t.nc[i].q = <<>>
    BY <2>2 DEF NdGood, NdFull, NdEntryRight
  <2>5. CASE t.nc[i].n <= 1
    <3> DEFINE u == NdCount(NdState(t, i, "STALE"), i, 0)
    <3>1. "STALE" \in NdNames \ {"NO_ENTRY"} /\ 0 \in Nat /\ t.nc[i].state # "NO_ENTRY"
      BY <2>2 DEF NdNames
    <3>2. NdGood(u, 0) /\ NdKept(t, u) /\ u.rl = t.rl
      BY <1>1, <2>2, <2>4, <3>1, NdTimedGood
    <3> HIDE DEF u
    <3>3. NdKept(s, u)
      BY <2>2, <3>2, NdKeptOn
    <3> QED
      BY <2>1, <2>2, <2>5, <3>2, <3>3 DEF r, u
  <2>6. CASE ~(t.nc[i].n <= 1)
    <3> DEFINE n == t.nc[i].n - 1
               u == NdCount(t, i, n)
    <3>1. n \in Nat
      BY <2>3, <2>6
    <3> HIDE DEF n
    <3>2. NdGood(u, 0) /\ NdKept(t, u) /\ u.rl = t.rl
      BY <1>1, <2>2, <3>1, NdCountGood
    <3> HIDE DEF u
    <3>3. NdKept(s, u)
      BY <2>2, <3>2, NdKeptOn
    <3> QED
      BY <2>1, <2>2, <2>6, <3>2, <3>3 DEF r, u, n
  <2> QED
    BY <2>5, <2>6
<1>5. CASE e.state = "DELAY"
  <2>1. r = IF e.n <= 1 THEN NdCount(NdState(s, i, "PROBE"), i, 0) ELSE NdCount(s, i, e.n - 1)
    BY <1>5 DEF Aged, NdCount, NdState
  <2>2. CASE e.n <= 1
    <3> DEFINE u == NdCount(NdState(s, i, "PROBE"), i, 0)
    <3>1. "PROBE" \in NdNames \ {"NO_ENTRY"} /\ 0 \in Nat /\ e.state # "NO_ENTRY"
      BY <1>5 DEF NdNames
    <3>2. s.sending = "ok" => e.ll = e.ip
      BY <1>2, <1>5 DEF NdEntryRight
    <3>3. NdGood(u, 0) /\ NdKept(s, u) /\ u.rl = s.rl
      BY <1>1, <3>1, <3>2, NdTimedGood
    <3> HIDE DEF u, r
    <3> QED
      BY <2>1, <2>2, <3>3 DEF r, u
  <2>3. CASE ~(e.n <= 1)
    <3> DEFINE n == e.n - 1
               u == NdCount(s, i, n)
    <3>1. n \in Nat
      BY <1>1, <2>3 DEF NdEntry
    <3> HIDE DEF n
    <3>2. NdGood(u, 0) /\ NdKept(s, u) /\ u.rl = s.rl
      BY <1>1, <3>1, NdCountGood
    <3> HIDE DEF u, r
    <3> QED
      BY <2>1, <2>3, <3>2 DEF r, u, n
  <2> QED
    BY <2>2, <2>3
<1>6. CASE e.state \notin {"INCOMPLETE", "PROBE", "REACHABLE", "DELAY"}
  <2>1. r = s
    BY <1>6 DEF Aged
  <2> HIDE DEF r
  <2> QED
    BY <2>1, NdKeptOn DEF r
<1> QED
  BY <1>3, <1>4, <1>5, <1>6

\* nd6_tmr goes through the neighbours.
NdAging(f, s) ==
    f = [i \in 0..LWIP_ND6_NUM_NEIGHBORS |-> IF i = 0 THEN s ELSE Aged(f[i - 1], i - 1)]

NdAgedStates(s) == {t \in NdStates : NdGood(t, 0) /\ NdKept(s, t) /\ t.rl = s.rl}

LEMMA NdAgingKeeps ==
    ASSUME NEW s, NEW i \in Neighbors, NEW t \in NdAgedStates(s)
    PROVE  Aged(t, i) \in NdAgedStates(s)
<1> DEFINE r == Aged(t, i)
<1>1. NdGood(t, 0) /\ NdKept(s, t) /\ t.rl = s.rl
  BY DEF NdAgedStates
<1>2. NdGood(r, 0) /\ NdKept(t, r) /\ r.rl = t.rl
  BY <1>1, NdAged
<1> HIDE DEF r
<1>3. NdKept(s, r) /\ r \in NdStates
  BY <1>1, <1>2, NdKeptOn DEF NdGood, NdBase
<1> QED
  BY <1>1, <1>2, <1>3 DEF NdAgedStates, r

LEMMA NdAgingExists ==
    ASSUME NEW s, s \in NdAgedStates(s)
    PROVE  \E f : NdAging(f, s)
<1> DEFINE N == LWIP_ND6_NUM_NEIGHBORS
           T == NdAgedStates(s)
           F == [n \in 1..N |-> [t \in T |-> Aged(t, n - 1)]]
<1>0. N \in Nat /\ s \in T
  BY NdConstants
<1>1. \A n \in 1..N, t \in T : Aged(t, n - 1) \in T
  <2> SUFFICES ASSUME NEW n \in 1..N, NEW t \in T
               PROVE  Aged(t, n - 1) \in T
    OBVIOUS
  <2>1. n - 1 \in Neighbors
    BY NdConstants
  <2> QED
    BY <2>1, NdAgingKeeps
<1> HIDE DEF T, N
<1>2. F \in [1..N -> [T -> T]]
  BY <1>1
<1>3. \A n \in 1..N, t \in T : F[n][t] = Aged(t, n - 1)
  OBVIOUS
<1> HIDE DEF F
<1>4. PICK g : Walk(g, N, T, s, F)
  BY <1>0, <1>2, Repeated
<1>5. \A n \in 0..N : g[n] = IF n = 0 THEN s ELSE Aged(g[n - 1], n - 1)
  <2> SUFFICES ASSUME NEW n \in 0..N, n # 0
               PROVE  g[n] = Aged(g[n - 1], n - 1)
    BY <1>4 DEF Walk
  <2>1. n \in 1..N /\ n - 1 \in 0..N
    BY <1>0
  <2> QED
    BY <1>3, <1>4, <2>1 DEF Walk
<1>6. NdAging(g, s)
  <2>1. g = [n \in 0..N |-> g[n]]
    BY <1>4 DEF Walk
  <2> QED
    BY <1>5, <2>1 DEF NdAging, N
<1> QED
  BY <1>6

LEMMA NdAgingEnd ==
    ASSUME NEW s, s \in NdAgedStates(s), NEW f, NdAging(f, s)
    PROVE  f[LWIP_ND6_NUM_NEIGHBORS] \in NdAgedStates(s)
<1> DEFINE N == LWIP_ND6_NUM_NEIGHBORS
           U == {n \in 0..N : f[n] \in NdAgedStates(s)}
<1>1. N \in Nat /\ \A n \in 0..N : f[n] = IF n = 0 THEN s ELSE Aged(f[n - 1], n - 1)
  BY NdConstants DEF NdAging
<1> HIDE DEF N
<1>2. 0 \in U
  BY <1>1
<1>3. ASSUME NEW n \in 0..(N - 1), n \in U
      PROVE  n + 1 \in U
  <2>1. n + 1 \in 0..N /\ (n + 1) - 1 = n /\ n + 1 # 0 /\ n \in Neighbors
    BY <1>1, NdConstants DEF N
  <2>2. f[n + 1] = Aged(f[n], n)
    BY <1>1, <2>1
  <2>3. Aged(f[n], n) \in NdAgedStates(s)
    BY <1>3, <2>1, NdAgingKeeps
  <2> QED
    BY <2>1, <2>2, <2>3
<1> HIDE DEF U
<1>4. 0..N \subseteq U
  BY <1>1, <1>2, <1>3, IntervalInduction
<1> QED
  BY <1>1, <1>4 DEF U, N

LEMMA NdOlder ==
    ASSUME NEW s, NdGood(s, 0)
    PROVE  NdGood(Older(s), 0) /\ Older(s).nc = s.nc /\ Older(s).rl = s.rl
<1> DEFINE tb == [k \in Destinations |-> [s.dc[k] EXCEPT !.aged = TRUE]]
           t == Older(s)
<1>1. s \in NdStates /\ s.dc \in [Destinations -> NdDestination] /\ NdHops(s.dc)
  BY NdParts DEF NdGood, NdBase
<1>2. /\ tb \in [Destinations -> NdDestination]
      /\ \A k \in Destinations : tb[k].dest = s.dc[k].dest /\ tb[k].hop = s.dc[k].hop
  BY <1>1 DEF NdDestination
<1>3. NdHops(tb)
  BY <1>1, <1>2 DEF NdHops
<1>4. t = [s EXCEPT !.dc = tb]
  BY DEF Older
<1> HIDE DEF tb, t
<1>5. /\ t \in NdStates /\ t.nc = s.nc /\ t.rl = s.rl /\ t.dc = tb /\ t.sending = s.sending
      /\ t.right = s.right /\ t.copies = s.copies
  BY <1>1, <1>2, <1>4 DEF NdStates
<1>6. NdGood(t, 0)
  <2>1. /\ \A l \in RouterSlots : t.rl[l].entry = s.rl[l].entry
        /\ NdHops(t.dc)
        /\ t.sending = "ok" => s.sending = "ok" /\ t.right /\ t.copies - 0 = s.copies - 0
    BY <1>3, <1>5 DEF NdGood, NdFull
  <2>2. 0 \in Int
    OBVIOUS
  <2> QED
    BY <1>5, <2>1, <2>2, NdSame
<1> QED
  BY <1>5, <1>6 DEF t

-----------------------------------------------------------------------------
(* Neighbour discovery: the list of routers.                               *)

NdSlot(s, k, v) == [s EXCEPT !.rl[k] = v]

LEMMA NdSlotIs ==
    ASSUME NEW s \in NdStates, NEW k \in RouterSlots, NEW v \in NdRouter
    PROVE  LET t == NdSlot(s, k, v)
           IN  /\ t \in NdStates /\ t.nc = s.nc /\ t.dc = s.dc /\ t.sending = s.sending
               /\ t.right = s.right /\ t.copies = s.copies /\ t.at = s.at /\ t.pfx = s.pfx
               /\ t.rl[k] = v /\ \A l \in RouterSlots \ {k} : t.rl[l] = s.rl[l]
<1> DEFINE tb == [s.rl EXCEPT ![k] = v]
           t == NdSlot(s, k, v)
<1>1. /\ tb \in [RouterSlots -> NdRouter] /\ tb[k] = v
      /\ \A l \in RouterSlots \ {k} : tb[l] = s.rl[l]
  BY NdParts
<1>2. t = [s EXCEPT !.rl = tb]
  BY DEF NdSlot
<1> HIDE DEF tb, t
<1>3. /\ t \in NdStates /\ t.nc = s.nc /\ t.dc = s.dc /\ t.sending = s.sending
      /\ t.right = s.right /\ t.copies = s.copies /\ t.at = s.at /\ t.pfx = s.pfx /\ t.rl = tb
  BY <1>1, <1>2 DEF NdStates
<1> QED
  BY <1>1, <1>3 DEF t

\* The lifetime of a router is set.
LEMMA NdLife ==
    ASSUME NEW s, NEW x \in Int, NdGood(s, x), NEW k \in RouterSlots, NEW life \in Int
    PROVE  LET t == [s EXCEPT !.rl[k].life = life]
           IN  /\ NdGood(t, x) /\ t.nc = s.nc
               /\ \A l \in RouterSlots : t.rl[l].entry = s.rl[l].entry
<1> DEFINE v == [s.rl[k] EXCEPT !.life = life]
           t == [s EXCEPT !.rl[k].life = life]
<1>1. s \in NdStates /\ s.rl[k] \in NdRouter
  BY NdParts DEF NdGood, NdBase
<1>2. v \in NdRouter /\ v.entry = s.rl[k].entry
  BY <1>1 DEF NdRouter
<1>3. t = NdSlot(s, k, v)
  BY DEF NdSlot
<1> HIDE DEF t, v
<1>4. /\ t \in NdStates /\ t.nc = s.nc /\ t.dc = s.dc /\ t.sending = s.sending
      /\ t.right = s.right /\ t.copies = s.copies
  BY <1>1, <1>2, <1>3, NdSlotIs
<1>5. t.rl[k] = v /\ \A l \in RouterSlots \ {k} : t.rl[l] = s.rl[l]
  BY <1>1, <1>2, <1>3, NdSlotIs
<1>6. \A l \in RouterSlots : t.rl[l].entry = s.rl[l].entry
  BY <1>2, <1>5
<1>7. NdGood(t, x)
  <2>1. /\ NdHops(t.dc)
        /\ t.sending = "ok" => s.sending = "ok" /\ t.right /\ t.copies - x = s.copies - x
    BY <1>4 DEF NdGood, NdBase, NdFull
  <2> QED
    BY <1>4, <1>6, <2>1, NdSame
<1> QED
  BY <1>4, <1>6, <1>7 DEF t

\* The entry i becomes a router's, or is one no longer, and the list fits.
LEMMA NdRelinked ==
    ASSUME NEW s, NEW x \in Int, NdGood(s, x), NEW i \in Neighbors, NEW t \in NdStates,
           NdElse(s, t, i), s.nc[i].state # "NO_ENTRY", t.nc[i].state = s.nc[i].state,
           t.nc[i].ip = s.nc[i].ip, t.nc[i].ll = s.nc[i].ll, t.nc[i].q = s.nc[i].q,
           NdLinked(t.nc, t.rl), t.dc = s.dc, t.sending = s.sending, t.right = s.right,
           t.copies = s.copies
    PROVE  NdGood(t, x) /\ \A j \in Neighbors : t.nc[j].ip = s.nc[j].ip
<1> DEFINE e == t.nc[i]
<1>1. /\ s.nc \in [Neighbors -> NdEntry] /\ e \in NdEntry /\ t.nc \in [Neighbors -> NdEntry]
      /\ NdEntryOK(s.nc[i])
  BY NdParts DEF NdGood, NdBase
<1>2. \A j \in Neighbors : t.nc[j].ip = s.nc[j].ip
  BY DEF NdElse
<1>3. NdEntryOK(e) /\ (NdEntryRight(s.nc[i]) => NdEntryRight(e))
  BY <1>1 DEF NdEntryOK, NdEntryRight
<1>4. (\A j \in Neighbors : NdEntryOK(t.nc[j])) /\ NdApart(t.nc)
  BY <1>2, <1>3 DEF NdGood, NdBase, NdElse, NdApart
<1>5. ASSUME t.sending = "ok"
      PROVE  NdFull(t, x)
  <2>1. NdFull(s, x)
    BY <1>5 DEF NdGood
  <2>2. \A j \in Neighbors : NdEntryRight(t.nc[j])
    BY <1>3, <2>1 DEF NdFull, NdElse
  <2>3. Queued(t.nc) = Queued(s.nc)
    <3>1. t.nc = [s.nc EXCEPT ![i] = e]
      BY <1>1 DEF NdElse
    <3>2. e.q = s.nc[i].q
      OBVIOUS
    <3> HIDE DEF e
    <3>3. /\ Queued([s.nc EXCEPT ![i] = e]) = Queued(s.nc) - Len(s.nc[i].q) + Len(e.q)
          /\ Queued(s.nc) \in Int /\ Len(e.q) \in Nat
      BY <1>1, NdQueued
    <3>4. Queued(t.nc) = Queued(s.nc) - Len(e.q) + Len(e.q)
      BY <3>1, <3>2, <3>3
    <3> QED
      BY <3>3, <3>4
  <2> QED
    BY <2>1, <2>2, <2>3 DEF NdFull
<1> QED
  BY <1>2, <1>4, <1>5 DEF NdGood, NdBase

\* A router leaves the list.
LEMMA NdOffList ==
    ASSUME NEW s, NEW x \in Int, NdGood(s, x), NEW k \in RouterSlots, s.rl[k].entry # None
    PROVE  LET t == OffList(s, k)
           IN  NdGood(t, x) /\ \A j \in Neighbors : t.nc[j].ip = s.nc[j].ip
<1> DEFINE i == s.rl[k].entry
           u == NdIsRouter(s, i, FALSE)
           v == [entry |-> None, life |-> 0]
           t == OffList(s, k)
<1>1. s \in NdStates /\ i \in Neighbors /\ NdEntryOK(s.nc[i]) /\ NdLinked(s.nc, s.rl)
      /\ s.nc[i].isrouter
  BY NdParts DEF NdGood, NdBase, NdLinked
<1>2. t = NdSlot(u, k, v)
  BY DEF OffList, NdIsRouter, NdSlot
<1>3. v \in NdRouter /\ v.entry = None
  BY DEF NdRouter
<1> HIDE DEF i, v, t
<1>4. NdWrote(s, u, i)
  BY <1>1, NdIsRouterIs
<1>5. /\ u.nc[i].state = s.nc[i].state /\ u.nc[i].ip = s.nc[i].ip /\ u.nc[i].ll = s.nc[i].ll
      /\ u.nc[i].isrouter = FALSE
  BY <1>1, NdIsRouterIs
<1> HIDE DEF u
<1>6. u \in NdStates /\ u.rl = s.rl /\ u.dc = s.dc /\ u.sending = s.sending /\ NdElse(s, u, i)
      /\ u.right = s.right /\ u.copies = s.copies /\ u.nc[i].q = s.nc[i].q
  BY <1>4 DEF NdWrote, NdOnly
<1>7. /\ t \in NdStates /\ t.nc = u.nc /\ t.dc = u.dc /\ t.sending = u.sending
      /\ t.right = u.right /\ t.copies = u.copies
  BY <1>2, <1>3, <1>6, NdSlotIs
<1>8. t.rl[k] = v /\ \A l \in RouterSlots \ {k} : t.rl[l] = u.rl[l]
  BY <1>2, <1>3, <1>6, NdSlotIs
<1>9. NdLinked(t.nc, t.rl)
  <2>1. \A l \in RouterSlots : t.rl[l].entry = IF l = k THEN None ELSE s.rl[l].entry
    BY <1>3, <1>6, <1>8
  <2>2. \A j \in Neighbors : t.nc[j].isrouter <=> j # i /\ s.nc[j].isrouter
    BY <1>5, <1>6, <1>7 DEF NdElse
  <2>3. \A l \in RouterSlots : s.rl[l].entry \in Neighbors \cup {None}
    BY <1>1, NdParts
  <2>4. \A l \in RouterSlots : t.rl[l].entry # None => t.nc[t.rl[l].entry].isrouter
    BY <1>1, <2>1, <2>2, <2>3 DEF NdLinked, i
  <2>5. \A l, m \in RouterSlots : l # m /\ t.rl[l].entry = t.rl[m].entry => t.rl[l].entry = None
    BY <1>1, <2>1 DEF NdLinked
  <2>6. \A j \in Neighbors : t.nc[j].isrouter => \E l \in RouterSlots : t.rl[l].entry = j
    BY <1>1, <2>1, <2>2 DEF NdLinked, i
  <2> QED
    BY <2>4, <2>5, <2>6 DEF NdLinked
<1>10. NdElse(s, t, i) /\ s.nc[i].state # "NO_ENTRY"
  BY <1>1, <1>6, <1>7 DEF NdElse, NdEntryOK
<1>11. /\ t.nc[i].state = s.nc[i].state /\ t.nc[i].ip = s.nc[i].ip /\ t.nc[i].ll = s.nc[i].ll
       /\ t.nc[i].q = s.nc[i].q /\ t.dc = s.dc /\ t.sending = s.sending /\ t.right = s.right
       /\ t.copies = s.copies
  BY <1>5, <1>6, <1>7
<1> QED
  BY <1>1, <1>7, <1>9, <1>10, <1>11, NdRelinked DEF t

\* The neighbours keep their addresses.
NdIps(s, t) == \A j \in Neighbors : t.nc[j].ip = s.nc[j].ip

LEMMA NdRouterAged ==
    ASSUME NEW s, NdGood(s, 0), NEW k \in RouterSlots
    PROVE  NdGood(RouterAged(s, k), 0) /\ NdIps(s, RouterAged(s, k))
<1> DEFINE r == RouterAged(s, k)
           life == s.rl[k].life - 1
           u == [s EXCEPT !.rl[k].life = life]
<1>1. r = IF s.rl[k].entry = None THEN s ELSE IF s.rl[k].life <= 1 THEN OffList(s, k) ELSE u
  BY DEF RouterAged
<1>2. s.rl[k] \in NdRouter /\ 0 \in Int
  BY NdParts DEF NdGood, NdBase
<1>3. s.rl[k].entry # None => NdGood(OffList(s, k), 0) /\ NdIps(s, OffList(s, k))
  BY <1>2, NdOffList DEF NdIps
<1>4. NdGood(u, 0) /\ NdIps(s, u)
  <2>1. life \in Int
    BY <1>2 DEF NdRouter
  <2> HIDE DEF life
  <2>2. NdGood(u, 0) /\ u.nc = s.nc
    BY <1>2, <2>1, NdLife
  <2> QED
    BY <2>2 DEF NdIps
<1>5. NdIps(s, s)
  BY DEF NdIps
<1> HIDE DEF u, r
<1> QED
  BY <1>1, <1>3, <1>4, <1>5 DEF r

\* nd6_tmr goes through the routers.
NdLeaving(f, s) ==
    f = [k \in 0..LWIP_ND6_NUM_ROUTERS |-> IF k = 0 THEN s ELSE RouterAged(f[k - 1], k - 1)]

NdLeftStates(s) == {t \in NdStates : NdGood(t, 0) /\ NdIps(s, t)}

LEMMA NdLeavingKeeps ==
    ASSUME NEW s, NEW k \in RouterSlots, NEW t \in NdLeftStates(s)
    PROVE  RouterAged(t, k) \in NdLeftStates(s)
<1> DEFINE r == RouterAged(t, k)
<1>1. NdGood(t, 0) /\ NdIps(s, t)
  BY DEF NdLeftStates
<1>2. NdGood(r, 0) /\ NdIps(t, r)
  BY <1>1, NdRouterAged
<1> HIDE DEF r
<1>3. NdIps(s, r) /\ r \in NdStates
  BY <1>1, <1>2 DEF NdIps, NdGood, NdBase
<1> QED
  BY <1>1, <1>2, <1>3 DEF NdLeftStates, r

LEMMA NdLeavingExists ==
    ASSUME NEW s, s \in NdLeftStates(s)
    PROVE  \E f : NdLeaving(f, s)
<1> DEFINE N == LWIP_ND6_NUM_ROUTERS
           T == NdLeftStates(s)
           F == [n \in 1..N |-> [t \in T |-> RouterAged(t, n - 1)]]
<1>0. N \in Nat /\ s \in T
  BY NdConstants
<1>1. \A n \in 1..N, t \in T : RouterAged(t, n - 1) \in T
  <2> SUFFICES ASSUME NEW n \in 1..N, NEW t \in T
               PROVE  RouterAged(t, n - 1) \in T
    OBVIOUS
  <2>1. n - 1 \in RouterSlots
    BY NdConstants
  <2> QED
    BY <2>1, NdLeavingKeeps
<1> HIDE DEF T, N
<1>2. F \in [1..N -> [T -> T]]
  BY <1>1
<1>3. \A n \in 1..N, t \in T : F[n][t] = RouterAged(t, n - 1)
  OBVIOUS
<1> HIDE DEF F
<1>4. PICK g : Walk(g, N, T, s, F)
  BY <1>0, <1>2, Repeated
<1>5. \A n \in 0..N : g[n] = IF n = 0 THEN s ELSE RouterAged(g[n - 1], n - 1)
  <2> SUFFICES ASSUME NEW n \in 0..N, n # 0
               PROVE  g[n] = RouterAged(g[n - 1], n - 1)
    BY <1>4 DEF Walk
  <2>1. n \in 1..N /\ n - 1 \in 0..N
    BY <1>0
  <2> QED
    BY <1>3, <1>4, <2>1 DEF Walk
<1>6. NdLeaving(g, s)
  <2>1. g = [n \in 0..N |-> g[n]]
    BY <1>4 DEF Walk
  <2> QED
    BY <1>5, <2>1 DEF NdLeaving, N
<1> QED
  BY <1>6

LEMMA NdLeavingEnd ==
    ASSUME NEW s, s \in NdLeftStates(s), NEW f, NdLeaving(f, s)
    PROVE  f[LWIP_ND6_NUM_ROUTERS] \in NdLeftStates(s)
<1> DEFINE N == LWIP_ND6_NUM_ROUTERS
           U == {n \in 0..N : f[n] \in NdLeftStates(s)}
<1>1. N \in Nat /\ \A n \in 0..N : f[n] = IF n = 0 THEN s ELSE RouterAged(f[n - 1], n - 1)
  BY NdConstants DEF NdLeaving
<1> HIDE DEF N
<1>2. 0 \in U
  BY <1>1
<1>3. ASSUME NEW n \in 0..(N - 1), n \in U
      PROVE  n + 1 \in U
  <2>1. n + 1 \in 0..N /\ (n + 1) - 1 = n /\ n + 1 # 0 /\ n \in RouterSlots
    BY <1>1, NdConstants DEF N
  <2>2. f[n + 1] = RouterAged(f[n], n)
    BY <1>1, <2>1
  <2>3. RouterAged(f[n], n) \in NdLeftStates(s)
    BY <1>3, <2>1, NdLeavingKeeps
  <2> QED
    BY <2>1, <2>2, <2>3
<1> HIDE DEF U
<1>4. 0..N \subseteq U
  BY <1>1, <1>2, <1>3, IntervalInduction
<1> QED
  BY <1>1, <1>4 DEF U, N

\* A router that stays on the list keeps its neighbour's address.
NdSteady(s, t) ==
    \A k \in RouterSlots :
        s.rl[k].entry # None /\ t.rl[k].entry = s.rl[k].entry
        => t.nc[s.rl[k].entry].ip = s.nc[s.rl[k].entry].ip

LEMMA NdKeptSteady ==
    ASSUME NEW s, NdBase(s), NEW t, NEW u, NdKept(s, t), NdIps(t, u)
    PROVE  NdSteady(s, u)
<1>1. \A k \in RouterSlots :
          s.rl[k].entry # None => s.rl[k].entry \in Neighbors /\ s.nc[s.rl[k].entry].isrouter
  BY NdRouters
<1> QED
  BY <1>1 DEF NdSteady, NdKept, NdIps

\* The prefix has no part in it.
LEMMA NdPrefixed ==
    ASSUME NEW s, NEW x \in Int, NdGood(s, x), NEW p \in BOOLEAN
    PROVE  LET t == [s EXCEPT !.pfx = p]
           IN  NdGood(t, x) /\ t.nc = s.nc /\ t.rl = s.rl /\ NdIps(s, t)
<1> DEFINE t == [s EXCEPT !.pfx = p]
<1>1. s \in NdStates
  BY DEF NdGood, NdBase
<1>2. /\ t \in NdStates /\ t.nc = s.nc /\ t.rl = s.rl /\ t.dc = s.dc /\ t.sending = s.sending
      /\ t.right = s.right /\ t.copies = s.copies
  BY <1>1 DEF NdStates
<1> HIDE DEF t
<1>3. NdGood(t, x)
  <2>1. /\ \A l \in RouterSlots : t.rl[l].entry = s.rl[l].entry
        /\ NdHops(t.dc)
        /\ t.sending = "ok" => s.sending = "ok" /\ t.right /\ t.copies - x = s.copies - x
    BY <1>2 DEF NdGood, NdBase, NdFull
  <2> QED
    BY <1>2, <2>1, NdSame
<1> QED
  BY <1>2, <1>3 DEF t, NdIps

-----------------------------------------------------------------------------
(* Neighbour discovery: what is received.                                  *)

\* All that an entry says.
LEMMA NdKnownIs ==
    ASSUME NEW s \in NdStates, NEW i \in Neighbors, NEW a \in OnLink, NEW z \in NdNames,
           NEW n \in Nat
    PROVE  LET t == Known(s, i, a, z, n)
           IN  /\ NdWrote(s, t, i) /\ t.nc[i].state = z /\ t.nc[i].ip = a /\ t.nc[i].ll = a
               /\ t.nc[i].isrouter = s.nc[i].isrouter
<1> DEFINE u == NdIp(s, i, a)
           v == NdLl(u, i, a)
           t == NdCount(NdState(v, i, z), i, n)
<1>1. Known(s, i, a, z, n) = t
  BY DEF Known, NdIp, NdLl, NdCount, NdState
<1>2. NdWrote(s, u, i)
  BY NdIpIs
<1>3. u.nc[i].ip = a /\ u.nc[i].isrouter = s.nc[i].isrouter
  BY NdIpIs
<1>4. u \in NdStates
  BY <1>2 DEF NdWrote
<1> HIDE DEF u
<1>5. NdWrote(u, v, i)
  BY <1>4, NdLlIs
<1>6. v.nc[i].ll = a /\ v.nc[i].ip = u.nc[i].ip /\ v.nc[i].isrouter = u.nc[i].isrouter
  BY <1>4, NdLlIs
<1>7. v \in NdStates
  BY <1>5 DEF NdWrote
<1> HIDE DEF v
<1>8. NdWrote(v, t, i)
  BY <1>7, NdTimedIs
<1>9. /\ t.nc[i].state = z /\ t.nc[i].ip = v.nc[i].ip /\ t.nc[i].ll = v.nc[i].ll
      /\ t.nc[i].isrouter = v.nc[i].isrouter
  BY <1>7, NdTimedIs
<1> HIDE DEF t
<1>10. NdWrote(s, t, i)
  BY <1>2, <1>5, <1>8, NdWroteOn
<1> QED
  BY <1>1, <1>3, <1>6, <1>9, <1>10

LEMMA NdLearnt ==
    ASSUME NEW s, NEW x \in Int, NdGood(s, x), NEW ip \in OnLink, NEW e, NdGot(s, e, ip),
           e.i # None
    PROVE  LET t == Learnt(e, ip)
           IN  NdGood(t, x) /\ NdKept(s, t) /\ t.rl = s.rl
<1> DEFINE i == e.i
           v == e.s
           n == LWIP_ND6_DELAY_FIRST_PROBE_TIME
           w == Known(v, i, ip, "DELAY", n)
           t == Learnt(e, ip)
<1>1. t = IF e.new \/ v.nc[i].state = "INCOMPLETE" THEN w ELSE v
  BY DEF Learnt, Delayed
<1>2. n \in Nat /\ "DELAY" \in NdNames /\ ip # NoAddr
  BY NdConstants DEF NdNames
<1>3. s \in NdStates /\ i \in Neighbors
  BY DEF NdGood, NdBase, NdGot
<1> HIDE DEF n, t
<1>4. ASSUME v \in NdStates
      PROVE  /\ NdWrote(v, w, i) /\ w.nc[i].state = "DELAY" /\ w.nc[i].ip = ip
             /\ w.nc[i].ll = ip /\ w.nc[i].isrouter = v.nc[i].isrouter
  <2>1. NdWrote(v, w, i)
    BY <1>2, <1>3, <1>4, NdKnownIs
  <2>2. /\ w.nc[i].state = "DELAY" /\ w.nc[i].ip = ip
        /\ w.nc[i].ll = ip /\ w.nc[i].isrouter = v.nc[i].isrouter
    BY <1>2, <1>3, <1>4, NdKnownIs
  <2> QED
    BY <2>1, <2>2
<1> HIDE DEF w
<1>5. CASE ~e.new /\ e.s = s /\ s.nc[e.i].ip = ip
  <2>1. /\ NdWrote(s, w, i) /\ w.nc[i].state = "DELAY" /\ w.nc[i].ip = ip
        /\ w.nc[i].ll = ip /\ w.nc[i].isrouter = s.nc[i].isrouter
    BY <1>3, <1>4, <1>5
  <2>2. s.sending = "ok" => NdEntryRight(w.nc[i])
    BY <2>1 DEF NdEntryRight
  <2>3. w.nc[i].state = "NO_ENTRY" <=> s.nc[i].state = "NO_ENTRY"
    BY <1>2, <1>3, <1>5, <2>1 DEF NdGood, NdBase, NdEntryOK
  <2>4. NdGood(w, x) /\ NdKept(s, w) /\ w.rl = s.rl
    BY <1>3, <1>5, <2>1, <2>2, <2>3, NdWroteGood
  <2> QED
    BY <1>1, <1>5, <2>4, NdKeptOn DEF t
<1>6. CASE /\ e.new /\ ~s.nc[e.i].isrouter /\ e.s = nd6_free_neighbor_cache_entry(s, e.i)
           /\ \A j \in Neighbors : s.nc[j].ip # ip
  <2>1. /\ v \in NdStates /\ NdAside(s, v) /\ v.nc = [s.nc EXCEPT ![i] = Unused]
        /\ v.copies = s.copies - Len(s.nc[i].q) /\ v.nc[i] = Unused
    BY <1>3, <1>6, NdFreed
  <2>2. NdElse(s, v, i) /\ Unused.isrouter = FALSE /\ Unused.q = <<>>
    BY <1>3, <2>1, NdParts DEF NdElse, Unused
  <2> HIDE DEF v
  <2>3. /\ NdWrote(v, w, i) /\ w.nc[i].state = "DELAY" /\ w.nc[i].ip = ip
        /\ w.nc[i].ll = ip /\ w.nc[i].isrouter = FALSE /\ w.nc[i].q = <<>>
    BY <1>4, <2>1, <2>2 DEF NdWrote
  <2>4. w \in NdStates /\ NdElse(s, w, i) /\ NdAside(s, w) /\ w.copies = s.copies - Len(s.nc[i].q)
    BY <2>1, <2>2, <2>3 DEF NdWrote, NdOnly, NdElse, NdAside
  <2>5. NdEntryOK(w.nc[i]) /\ NdEntryRight(w.nc[i])
    BY <1>2, <2>3 DEF NdEntryOK, NdEntryRight
  <2>6. NdGood(w, x)
    <3>1. ~s.nc[i].isrouter /\ ~w.nc[i].isrouter /\ \A j \in Neighbors : s.nc[j].ip # w.nc[i].ip
      BY <1>6, <2>3
    <3> QED
      BY <1>3, <2>3, <2>4, <2>5, <3>1, NdMade
  <2>7. NdKept(s, w) /\ w.rl = s.rl
    BY <1>6, <2>4 DEF NdKept, NdElse, NdAside
  <2> QED
    BY <1>1, <1>6, <2>6, <2>7 DEF t
<1> QED
  BY <1>5, <1>6 DEF NdGot

LEMMA NdNS ==
    ASSUME NEW s, NdGood(s, 0), NEW ip \in OnLink
    PROVE  NdGood(NS(s, ip), 0) /\ NdSteady(s, NS(s, ip))
<1> DEFINE e == Entry(s, ip)
           t == Learnt(e, ip)
           r == NS(s, ip)
<1>1. NdGot(s, e, ip) /\ 0 \in Int /\ ip \in Destined
  BY NdEntryGot, NdConstants
<1>2. r = IF e.i = None THEN e.s ELSE ethip6_output(t, ip)
  BY DEF NS, Answer
<1> HIDE DEF e, r
<1>3. CASE e.i = None
  <2>1. r = s
    BY <1>1, <1>2, <1>3, NdConstants DEF NdGot
  <2> QED
    BY <2>1 DEF NdSteady, r
<1>4. CASE e.i # None
  <2>1. NdGood(t, 0) /\ NdKept(s, t) /\ t.rl = s.rl
    BY <1>1, <1>4, NdLearnt
  <2> HIDE DEF t
  <2>2. NdGood(ethip6_output(t, ip), 0) /\ NdMoved(t, ethip6_output(t, ip), ip)
    BY <1>1, <2>1, NdOutput
  <2>3. NdKept(s, ethip6_output(t, ip))
    BY <2>1, <2>2, NdKeptOn
  <2>4. r = ethip6_output(t, ip)
    BY <1>2, <1>4
  <2>5. NdGood(r, 0) /\ NdKept(s, r) /\ NdIps(r, r) /\ NdBase(s)
    BY <2>2, <2>3, <2>4 DEF NdIps, NdGood
  <2> QED
    BY <2>5, NdKeptSteady DEF r
<1> QED
  BY <1>3, <1>4

LEMMA NdNA ==
    ASSUME NEW s, NdGood(s, 0), NEW ip \in OnLink, NEW override \in BOOLEAN,
           NEW multicast \in BOOLEAN
    PROVE  LET r == NA(s, ip, override, multicast)
           IN  NdGood(r, 0) /\ NdSteady(s, r)
<1> DEFINE i == nd6_find_neighbor_cache_entry(s, ip)
           learns == override \/ (~multicast /\ s.nc[i].state = "INCOMPLETE")
           w == NdLl(s, i, ip)
           t == IF learns THEN w ELSE s
           u == NdCount(NdState(t, i, "REACHABLE"), i, LWIP_ND6_REACHABLE_TIME)
           r == NA(s, ip, override, multicast)
<1>1. r = IF i = None THEN s ELSE IF multicast THEN t ELSE nd6_send_q(u, i)
  BY DEF NA, Reachable, NdLl, NdState, NdCount
<1>2. (i = None) \/ (i \in Neighbors /\ s.nc[i].ip = ip)
  BY NdFound
<1>3. /\ s \in NdStates /\ NdBase(s) /\ 0 \in Int /\ ip # NoAddr /\ LWIP_ND6_REACHABLE_TIME \in Nat
      /\ "REACHABLE" \in NdNames \ {"NO_ENTRY"} /\ NdKept(s, s) /\ NdIps(s, s)
  BY NdConstants, NdKeptOn DEF NdGood, NdBase, NdNames, NdIps
<1>4. CASE i = None
  <2>1. r = s
    BY <1>1, <1>4
  <2> HIDE DEF r
  <2> QED
    BY <2>1 DEF NdSteady, r
<1>5. CASE i \in Neighbors /\ s.nc[i].ip = ip
  <2> HIDE DEF i, r, u
  <2>1. NdWrote(s, w, i)
    BY <1>3, <1>5, NdLlIs
  <2>2. /\ w.nc[i].state = s.nc[i].state /\ w.nc[i].ip = s.nc[i].ip /\ w.nc[i].ll = ip
        /\ w.nc[i].isrouter = s.nc[i].isrouter
    BY <1>3, <1>5, NdLlIs
  <2> HIDE DEF w
  <2>3. s.sending = "ok" => NdEntryRight(w.nc[i])
    BY <1>5, <2>1, <2>2 DEF NdEntryRight, NdWrote, NdGood, NdFull
  <2>4. NdGood(w, 0) /\ NdKept(s, w) /\ w.rl = s.rl
    BY <1>3, <1>5, <2>1, <2>2, <2>3, NdWroteGood
  <2>5. NdGood(t, 0) /\ NdKept(s, t) /\ t.rl = s.rl /\ t.nc[i].state = s.nc[i].state
        /\ t.nc[i].ip = ip
    BY <1>3, <1>5, <2>2, <2>4
  <2>6. s.nc[i].state # "NO_ENTRY"
    BY <1>3, <1>5 DEF NdBase, NdEntryOK
  <2>7. CASE multicast
    <3>1. r = t
      BY <1>1, <1>3, <1>5, <2>7, NdConstants
    <3> HIDE DEF t
    <3>2. NdSteady(s, t)
      BY <1>3, <2>5, NdKeptSteady DEF NdIps
    <3> QED
      BY <2>5, <3>1, <3>2 DEF r
  <2>8. CASE ~multicast
    <3>1. t.sending = "ok" => t.nc[i].ll = t.nc[i].ip
      <4>1. CASE learns
        BY <2>2, <2>5, <4>1
      <4>2. CASE ~learns
        BY <1>5, <2>6, <2>8, <4>2 DEF NdGood, NdFull, NdEntryRight
      <4> QED
        BY <4>1, <4>2
    <3> HIDE DEF t, learns
    <3>2. t \in NdStates
      BY <2>5 DEF NdGood, NdBase
    <3>3. NdGood(u, 0) /\ NdKept(t, u) /\ u.rl = t.rl
      <4>1. t.sending = "ok" => t.nc[i].ll = t.nc[i].ip /\ ("REACHABLE" = "STALE" => t.nc[i].q = <<>>)
        BY <3>1
      <4>2. t.nc[i].state # "NO_ENTRY"
        BY <2>5, <2>6
      <4> QED
        BY <1>3, <1>5, <2>5, <4>1, <4>2, NdTimedGood DEF u
    <3>4. u.nc[i].state = "REACHABLE"
      <4>1. "REACHABLE" \in NdNames
        BY <1>3
      <4> QED
        BY <1>3, <1>5, <3>2, <4>1, NdTimedIs DEF u
    <3>5. NdGood(nd6_send_q(u, i), 0) /\ NdKept(u, nd6_send_q(u, i))
      BY <1>5, <3>3, <3>4, NdSendQ
    <3>6. r = nd6_send_q(u, i)
      BY <1>1, <1>3, <1>5, <2>8, NdConstants
    <3>7. NdGood(r, 0) /\ NdKept(u, r) /\ NdIps(r, r)
      BY <3>5, <3>6 DEF NdIps
    <3>8. NdKept(s, r)
      BY <2>5, <3>3, <3>7, NdKeptOn
    <3>9. NdSteady(s, r)
      BY <1>3, <3>7, <3>8, NdKeptSteady
    <3> QED
      BY <3>7, <3>9 DEF r
  <2> QED
    BY <2>7, <2>8
<1> QED
  BY <1>2, <1>4, <1>5

LEMMA NdRD ==
    ASSUME NEW s, NdGood(s, 0), NEW dst \in Destined, NEW target \in OnLink, NEW ll \in BOOLEAN
    PROVE  NdGood(RD(s, dst, target, ll), 0) /\ NdSteady(s, RD(s, dst, target, ll))
<1> DEFINE k == nd6_find_destination_cache_entry(s, dst)
           d == [s.dc[k] EXCEPT !.hop = target]
           tb == [s.dc EXCEPT ![k] = d]
           t == [s EXCEPT !.dc[k].hop = target]
           e == Entry(t, target)
           r == RD(s, dst, target, ll)
<1>1. r = IF k = None THEN s
          ELSE IF ll THEN (IF e.i = None THEN e.s ELSE Learnt(e, target)) ELSE t
  BY DEF RD
<1>2. k = None \/ k \in Destinations
  BY NdFoundDestination
<1>3. NdGot(t, e, target)
  BY NdEntryGot
<1>4. s \in NdStates /\ NdBase(s) /\ 0 \in Int /\ NdHops(s.dc)
      /\ s.dc \in [Destinations -> NdDestination]
  BY NdParts DEF NdGood, NdBase
<1> HIDE DEF k, e, r
<1>5. CASE k = None
  <2>1. r = s
    BY <1>1, <1>5
  <2> QED
    BY <2>1 DEF NdSteady, r
<1>6. CASE k \in Destinations
  <2>1. d \in NdDestination /\ d.hop = target
    <3>1. s.dc[k] \in NdDestination
      BY <1>4, <1>6
    <3> QED
      BY <3>1 DEF NdDestination
  <2>2. t = [s EXCEPT !.dc = tb]
    OBVIOUS
  <2> HIDE DEF d
  <2>3. /\ tb \in [Destinations -> NdDestination] /\ tb[k].hop = target
        /\ \A l \in Destinations \ {k} : tb[l] = s.dc[l]
    BY <1>4, <1>6, <2>1
  <2> HIDE DEF tb, t
  <2>4. t \in NdStates /\ NdTold(s, t) /\ t.dc = tb
    BY <1>4, <2>2, <2>3 DEF NdStates, NdTold
  <2>5. NdGood(t, 0)
    BY <1>4, <1>6, <2>3, <2>4, NdDestinationSet
  <2>6. NdKept(s, t)
    BY <2>4, NdKeptOn DEF NdTold
  <2>7. e.i # None => NdGood(Learnt(e, target), 0) /\ NdKept(t, Learnt(e, target))
    BY <1>3, <1>4, <2>5, NdLearnt
  <2>8. e.i = None => e.s = t
    BY <1>3, NdConstants DEF NdGot
  <2>9. k # None
    BY <1>6, NdConstants
  <2>10. NdGood(r, 0) /\ NdKept(t, r)
    <3>1. NdKept(t, t)
      BY NdKeptOn
    <3> QED
      BY <1>1, <2>5, <2>7, <2>8, <2>9, <3>1
  <2>11. NdKept(s, r) /\ NdIps(r, r)
    BY <2>6, <2>10, NdKeptOn DEF NdIps
  <2>12. NdSteady(s, r)
    BY <1>4, <2>11, NdKeptSteady
  <2> QED
    BY <2>10, <2>12 DEF r
<1> QED
  BY <1>2, <1>5, <1>6

LEMMA NdHinted ==
    ASSUME NEW s, NdGood(s, 0), NEW ip \in Destined
    PROVE  NdGood(Hinted(s, ip), 0) /\ NdSteady(s, Hinted(s, ip))
<1> DEFINE k == IF s.dc[s.at.d].dest = ip THEN s.at.d ELSE nd6_find_destination_cache_entry(s, ip)
           i == IF s.dc[k].hop = s.nc[s.at.n].ip THEN s.at.n
                ELSE nd6_find_neighbor_cache_entry(s, s.dc[k].hop)
           u == NdCount(NdState(s, i, "REACHABLE"), i, LWIP_ND6_REACHABLE_TIME)
           r == Hinted(s, ip)
<1>1. r = IF k = None \/ i = None THEN s ELSE IF s.nc[i].state \in {"INCOMPLETE", "NO_ENTRY"} THEN s ELSE u
  BY DEF Hinted, NoHint, Reachable, NdState, NdCount
<1>2. i = None \/ i \in Neighbors
  <2>1. s.at.n \in Neighbors
    BY NdParts DEF NdGood, NdBase
  <2>2. \A a : nd6_find_neighbor_cache_entry(s, a) = None \/ nd6_find_neighbor_cache_entry(s, a) \in Neighbors
    BY NdFound
  <2> HIDE DEF k
  <2> QED
    BY <2>1, <2>2
<1> HIDE DEF i, k, r
<1>3. s \in NdStates /\ NdBase(s) /\ 0 \in Int /\ LWIP_ND6_REACHABLE_TIME \in Nat
      /\ "REACHABLE" \in NdNames \ {"NO_ENTRY"}
  BY NdConstants DEF NdGood, NdBase, NdNames
<1>4. CASE r = s
  BY <1>4 DEF NdSteady, r
<1>5. CASE i \in Neighbors /\ s.nc[i].state \notin {"INCOMPLETE", "NO_ENTRY"}
  <2>1. s.sending = "ok" => s.nc[i].ll = s.nc[i].ip /\ ("REACHABLE" = "STALE" => s.nc[i].q = <<>>)
    BY <1>5 DEF NdGood, NdFull, NdEntryRight
  <2>2. NdGood(u, 0) /\ NdKept(s, u) /\ u.rl = s.rl
    BY <1>3, <1>5, <2>1, NdTimedGood
  <2> HIDE DEF u
  <2>3. NdSteady(s, u)
    BY <1>3, <2>2, NdKeptSteady DEF NdIps
  <2> QED
    BY <1>1, <1>4, <1>5, <2>2, <2>3 DEF r
<1> QED
  BY <1>1, <1>2, <1>4, <1>5

\* The router of a place on the list, or that of an address.
LEMMA NdGetRouter ==
    ASSUME NEW s, NEW ip
    PROVE  LET k == nd6_get_router(s, ip)
           IN  \/ k = None /\ \A l \in RouterSlots :
                                s.rl[l].entry = None \/ s.nc[s.rl[l].entry].ip # ip
               \/ k \in RouterSlots /\ s.rl[k].entry # None /\ s.nc[s.rl[k].entry].ip = ip
<1> DEFINE S == {k \in RouterSlots : s.rl[k].entry # None /\ s.nc[s.rl[k].entry].ip = ip}
<1>1. S \subseteq Nat
  BY NdConstants
<1>2. (S = {} /\ First(S) = None) \/ (S # {} /\ First(S) \in S)
  <2> HIDE DEF S
  <2> QED
    BY <1>1, NdFirst
<1>3. /\ S = {} => \A l \in RouterSlots : s.rl[l].entry = None \/ s.nc[s.rl[l].entry].ip # ip
      /\ \A k \in S : k \in RouterSlots /\ s.rl[k].entry # None /\ s.nc[s.rl[k].entry].ip = ip
  OBVIOUS
<1>4. nd6_get_router(s, ip) = First(S)
  BY DEF nd6_get_router
<1> HIDE DEF S
<1> QED
  BY <1>2, <1>3, <1>4

\* A place on the list for a router that is not on it.
LEMMA NdListed ==
    ASSUME NEW s, NdGood(s, 0), NEW ip \in OnLink, NEW e, NdGot(s, e, ip),
           \A l \in RouterSlots : s.rl[l].entry = None \/ s.nc[s.rl[l].entry].ip # ip
    PROVE  LET r == Listed(e, ip)
           IN  /\ NdGood(r.s, 0) /\ NdSteady(s, r.s)
               /\ r.k # None => /\ r.k \in RouterSlots /\ r.s.rl[r.k].entry # None
                                /\ r.s.nc[r.s.rl[r.k].entry].ip = ip
<1> DEFINE i == e.i
           t == IF e.new THEN Resolving(e.s, i, ip) ELSE e.s
           S == {k \in RouterSlots : e.s.rl[k].entry = None}
           free == First(S)
           off == NdIsRouter(t, i, FALSE)
           v == [t.rl[free] EXCEPT !.entry = i]
           on == NdIsRouter(t, i, TRUE)
           w == NdSlot(on, free, v)
           r == Listed(e, ip)
<1>1. s \in NdStates /\ NdBase(s) /\ 0 \in Int /\ NdLinked(s.nc, s.rl) /\ NdKept(s, s)
  BY NdKeptOn DEF NdGood, NdBase
<1>2. free = None \/ (free \in RouterSlots /\ e.s.rl[free].entry = None)
  <2>1. S \subseteq Nat
    BY NdConstants
  <2>2. (S = {} /\ First(S) = None) \/ (S # {} /\ First(S) \in S)
    <3> HIDE DEF S
    <3> QED
      BY <2>1, NdFirst
  <2> QED
    BY <2>2
<1>3. CASE e.i = None
  <2>1. r = [k |-> None, s |-> s]
    BY <1>3, NdConstants DEF Listed, NdGot
  <2> HIDE DEF r
  <2> QED
    BY <2>1 DEF NdSteady, r
<1>4. CASE e.i # None
  <2>1. /\ NdGood(t, 0) /\ NdAside(s, t) /\ i \in Neighbors
        /\ NdElse(s, t, i) /\ t.nc[i].ip = ip
        /\ \/ t = s
           \/ /\ ~s.nc[i].isrouter /\ t.nc[i] = Fresh(ip)
              /\ \A j \in Neighbors : s.nc[j].ip # ip
    BY <1>1, <1>4, NdResolved
  <2>2. /\ free = None => r = [k |-> None, s |-> off]
        /\ free # None => r = [k |-> free, s |-> w]
    <3>1. t.rl = e.s.rl
      BY DEF Resolving
    <3>2. on.rl = t.rl
      BY DEF NdIsRouter
    <3>3. free = None => r = [k |-> None, s |-> [t EXCEPT !.nc[i].isrouter = FALSE]]
      BY <1>4 DEF Listed
    <3>4. free # None => r = [k |-> free, s |-> [t EXCEPT !.nc[i].isrouter = TRUE, !.rl[free].entry = i]]
      BY <1>4 DEF Listed
    <3>5. [t EXCEPT !.nc[i].isrouter = TRUE, !.rl[free].entry = i]
              = [on EXCEPT !.rl = [on.rl EXCEPT ![free] = [on.rl[free] EXCEPT !.entry = i]]]
      BY DEF NdIsRouter
    <3> HIDE DEF t, free, S
    <3>6. w = [on EXCEPT !.rl = [on.rl EXCEPT ![free] = v]]
      BY DEF NdSlot
    <3> HIDE DEF on
    <3>7. [t EXCEPT !.nc[i].isrouter = TRUE, !.rl[free].entry = i] = w
      BY <3>2, <3>5, <3>6
    <3> QED
      BY <3>3, <3>4, <3>7 DEF NdIsRouter
  \* The entry is not one of a router on the list.
  <2>3. ~s.nc[i].isrouter /\ ~t.nc[i].isrouter
    <3>1. CASE t = s
      <4>1. ~s.nc[i].isrouter
        BY <1>1, <2>1, <3>1, NdConstants DEF NdLinked
      <4> QED
        BY <3>1, <4>1
    <3>2. CASE ~s.nc[i].isrouter /\ t.nc[i] = Fresh(ip)
      BY <3>2, NdFresh
    <3> QED
      BY <2>1, <3>1, <3>2
  <2>4. NdKept(s, t) /\ t.rl = s.rl /\ e.s.rl = s.rl
    <3>1. t.rl = e.s.rl
      BY DEF Resolving
    <3> QED
      BY <2>1, <2>3, <3>1 DEF NdKept, NdElse, NdAside
  <2>5. t \in NdStates /\ NdLinked(t.nc, t.rl) /\ NdEntryOK(t.nc[i]) /\ t.nc[i] \in NdEntry
    BY <2>1, NdParts DEF NdGood, NdBase
  <2>6. t.nc[i].state # "NO_ENTRY"
    BY <2>1, <2>5, NdConstants DEF NdEntryOK
  <2> HIDE DEF t, S, free, r, i
  <2>7. CASE free = None
    <3>1. NdWrote(t, off, i)
      BY <2>1, <2>5, NdIsRouterIs
    <3>2. /\ off.nc[i].state = t.nc[i].state /\ off.nc[i].ip = t.nc[i].ip
          /\ off.nc[i].ll = t.nc[i].ll
      BY <2>1, <2>5, NdIsRouterIs
    <3>9. off.nc[i].isrouter = FALSE
      BY <2>1, <2>5, NdIsRouterIs
    <3> HIDE DEF off
    <3>3. off.nc[i].isrouter = t.nc[i].isrouter
      <4>1. t.nc[i].isrouter = FALSE
        BY <2>3, <2>5 DEF NdEntry
      <4> QED
        BY <3>9, <4>1
    <3>4. t.sending = "ok" => NdEntryRight(off.nc[i])
      BY <2>1, <3>1, <3>2 DEF NdEntryRight, NdWrote, NdGood, NdFull
    <3>5. off.nc[i].state = "NO_ENTRY" <=> t.nc[i].state = "NO_ENTRY"
      BY <3>2
    <3>6. NdGood(off, 0) /\ NdKept(t, off)
      BY <1>1, <2>1, <3>1, <3>2, <3>3, <3>4, <3>5, NdWroteGood
    <3>7. NdKept(s, off)
      BY <2>4, <3>6, NdKeptOn
    <3>8. NdSteady(s, off)
      BY <1>1, <3>7, NdKeptSteady DEF NdIps
    <3> QED
      BY <2>2, <2>7, <3>6, <3>8 DEF r
  <2>8. CASE free \in RouterSlots /\ e.s.rl[free].entry = None
    <3>1. NdWrote(t, on, i)
      BY <2>1, <2>5, NdIsRouterIs
    <3>2. /\ on.nc[i].state = t.nc[i].state /\ on.nc[i].ip = t.nc[i].ip
          /\ on.nc[i].ll = t.nc[i].ll
      BY <2>1, <2>5, NdIsRouterIs
    <3>3. on.nc[i].isrouter = TRUE
      BY <2>1, <2>5, NdIsRouterIs
    <3> HIDE DEF on
    <3>4. on \in NdStates /\ on.rl = t.rl /\ on.dc = t.dc /\ on.sending = t.sending
          /\ NdElse(t, on, i) /\ on.right = t.right /\ on.copies = t.copies
          /\ on.nc[i].q = t.nc[i].q
      BY <3>1 DEF NdWrote, NdOnly
    <3>5. v \in NdRouter /\ v.entry = i
      <4>1. t.rl[free] \in NdRouter
        BY <2>5, <2>8, NdParts
      <4> QED
        BY <2>1, <4>1 DEF NdRouter
    <3> HIDE DEF v
    <3>6. /\ w \in NdStates /\ w.nc = on.nc /\ w.dc = on.dc /\ w.sending = on.sending
          /\ w.right = on.right /\ w.copies = on.copies
      BY <2>8, <3>4, <3>5, NdSlotIs
    <3>7. w.rl[free] = v /\ \A l \in RouterSlots \ {free} : w.rl[l] = on.rl[l]
      BY <2>8, <3>4, <3>5, NdSlotIs
    <3> HIDE DEF w
    <3>8. NdLinked(w.nc, w.rl)
      <4>1. \A l \in RouterSlots : w.rl[l].entry = IF l = free THEN i ELSE t.rl[l].entry
        BY <3>4, <3>5, <3>7
      <4>2. \A j \in Neighbors : w.nc[j].isrouter <=> j = i \/ t.nc[j].isrouter
        BY <3>3, <3>4, <3>6 DEF NdElse
      <4>3. \A l \in RouterSlots : t.rl[l].entry \in Neighbors \cup {None}
        BY <2>5, NdParts
      <4>4. \A l \in RouterSlots : t.rl[l].entry # i
        BY <1>4, <2>3, <2>5 DEF NdLinked, i
      <4>5. \A l \in RouterSlots : w.rl[l].entry # None => w.nc[w.rl[l].entry].isrouter
        BY <2>1, <2>5, <4>1, <4>2, <4>3 DEF NdLinked
      <4>6. \A l, m \in RouterSlots : l # m /\ w.rl[l].entry = w.rl[m].entry => w.rl[l].entry = None
        BY <2>5, <4>1, <4>4 DEF NdLinked
      <4>7. t.rl[free].entry = None
        BY <2>4, <2>8
      <4>8. \A j \in Neighbors : w.nc[j].isrouter => \E l \in RouterSlots : w.rl[l].entry = j
        <5> TAKE j \in Neighbors
        <5> HAVE w.nc[j].isrouter
        <5>1. CASE j = i
          BY <2>8, <4>1, <5>1
        <5>2. CASE t.nc[j].isrouter
          <6>1. PICK l \in RouterSlots : t.rl[l].entry = j
            BY <2>5, <5>2 DEF NdLinked
          <6>2. l # free
            BY <4>7, <6>1, NdConstants
          <6> QED
            BY <4>1, <6>1, <6>2
        <5> QED
          BY <4>2, <5>1, <5>2
      <4> QED
        BY <4>5, <4>6, <4>8 DEF NdLinked
    <3>9. NdElse(t, w, i)
      BY <3>4, <3>6 DEF NdElse
    <3>10. /\ w.nc[i].state = t.nc[i].state /\ w.nc[i].ip = t.nc[i].ip /\ w.nc[i].ll = t.nc[i].ll
           /\ w.nc[i].q = t.nc[i].q /\ w.dc = t.dc /\ w.sending = t.sending /\ w.right = t.right
           /\ w.copies = t.copies
      BY <3>2, <3>4, <3>6
    <3>11. NdGood(w, 0) /\ NdIps(t, w)
      BY <1>1, <2>1, <2>6, <3>6, <3>8, <3>9, <3>10, NdRelinked DEF NdIps
    <3>12. NdSteady(s, w)
      BY <1>1, <2>4, <3>11, NdKeptSteady
    <3>13. r = [k |-> free, s |-> w]
      BY <2>2, <2>8, NdConstants
    <3>14. w.rl[free].entry = i /\ w.nc[i].ip = ip
      BY <2>1, <3>5, <3>7, <3>10
    <3> QED
      BY <1>4, <2>8, <3>11, <3>12, <3>13, <3>14 DEF r, i
  <2> QED
    BY <1>2, <2>7, <2>8
<1> QED
  BY <1>3, <1>4

LEMMA NdAdvertised ==
    ASSUME NEW r, NdGood(r.s, 0), NEW ip \in OnLink,
           r.k # None => /\ r.k \in RouterSlots /\ r.s.rl[r.k].entry # None
                         /\ r.s.nc[r.s.rl[r.k].entry].ip = ip,
           NEW life \in Int, NEW ll \in BOOLEAN, NEW prefix \in BOOLEAN
    PROVE  LET t == Advertised(r, ip, life, ll, prefix)
           IN  /\ NdGood(t, 0) /\ NdIps(r.s, t)
               /\ \A k \in RouterSlots : t.rl[k].entry = r.s.rl[k].entry
<1> DEFINE s == r.s
           k == r.k
           i == s.rl[k].entry
           u == [s EXCEPT !.rl[k].life = life]
           p == u.pfx \/ prefix
           t == [u EXCEPT !.pfx = p]
           v == NdLl(t, i, ip)
           w == NdCount(NdState(v, i, "REACHABLE"), i, LWIP_ND6_REACHABLE_TIME)
           x == Advertised(r, ip, life, ll, prefix)
<1>1. x = IF k = None THEN s ELSE IF ll /\ s.nc[i].state = "INCOMPLETE" THEN w ELSE t
  BY DEF Advertised, Reachable, NdLl, NdState, NdCount
<1> HIDE DEF x
<1>2. CASE k = None
  BY <1>1, <1>2 DEF x, NdIps
<1>3. CASE k # None
  <2>1. /\ k \in RouterSlots /\ i # None /\ s.nc[i].ip = ip /\ 0 \in Int /\ i \in Neighbors
        /\ NdGood(s, 0) /\ s \in NdStates
    BY <1>3, NdParts DEF NdGood, NdBase
  <2> HIDE DEF i, k, s
  <2>2. NdGood(u, 0) /\ u.nc = s.nc
    BY <2>1, NdLife
  <2>3. \A l \in RouterSlots : u.rl[l].entry = s.rl[l].entry
    BY <2>1, NdLife
  <2> HIDE DEF u
  <2>4. p \in BOOLEAN
    BY <2>2, NdParts DEF NdGood, NdBase
  <2> HIDE DEF p
  <2>5. NdGood(t, 0) /\ t.nc = u.nc /\ t.rl = u.rl
    BY <2>1, <2>2, <2>4, NdPrefixed
  <2> HIDE DEF t
  <2>6. NdIps(s, t) /\ \A l \in RouterSlots : t.rl[l].entry = s.rl[l].entry
    BY <2>2, <2>3, <2>5 DEF NdIps
  <2>7. CASE ~(ll /\ s.nc[i].state = "INCOMPLETE")
    BY <1>1, <1>3, <2>5, <2>6, <2>7 DEF x, s
  <2>8. CASE ll /\ s.nc[i].state = "INCOMPLETE"
    <3>1. t \in NdStates /\ t.nc[i].state = "INCOMPLETE" /\ t.nc[i].ip = ip
      BY <2>1, <2>2, <2>5, <2>8 DEF NdGood, NdBase
    <3>2. NdWrote(t, v, i)
      BY <2>1, <3>1, NdLlIs
    <3>3. /\ v.nc[i].state = t.nc[i].state /\ v.nc[i].ip = t.nc[i].ip /\ v.nc[i].ll = ip
          /\ v.nc[i].isrouter = t.nc[i].isrouter
      BY <2>1, <3>1, NdLlIs
    <3> HIDE DEF v
    <3>4. t.sending = "ok" => NdEntryRight(v.nc[i])
      BY <3>1, <3>3 DEF NdEntryRight
    <3>5. v.nc[i].state = "NO_ENTRY" <=> t.nc[i].state = "NO_ENTRY"
      BY <3>3
    <3>6. NdGood(v, 0) /\ v.rl = t.rl
      BY <2>1, <2>5, <3>2, <3>3, <3>4, <3>5, NdWroteGood
    <3>7. NdIps(t, v)
      BY <3>2, <3>3 DEF NdIps, NdWrote, NdOnly, NdElse
    <3>8. /\ v.sending = "ok" => v.nc[i].ll = v.nc[i].ip /\ ("REACHABLE" = "STALE" => v.nc[i].q = <<>>)
          /\ v.nc[i].state # "NO_ENTRY" /\ v \in NdStates
      BY <3>1, <3>3, <3>6 DEF NdGood, NdBase
    <3>9. "REACHABLE" \in NdNames \ {"NO_ENTRY"} /\ "REACHABLE" \in NdNames
          /\ LWIP_ND6_REACHABLE_TIME \in Nat
      BY NdConstants DEF NdNames
    <3>10. NdGood(w, 0) /\ w.rl = v.rl
      BY <2>1, <3>6, <3>8, <3>9, NdTimedGood
    <3>11. NdWrote(v, w, i)
      BY <2>1, <3>8, <3>9, NdTimedIs
    <3>12. w.nc[i].ip = v.nc[i].ip
      BY <2>1, <3>8, <3>9, NdTimedIs
    <3> HIDE DEF w
    <3>13. NdIps(v, w)
      BY <3>11, <3>12 DEF NdIps, NdWrote, NdOnly, NdElse
    <3>14. NdIps(s, w)
      BY <2>6, <3>7, <3>13 DEF NdIps
    <3>15. x = w
      BY <1>1, <1>3, <2>8
    <3> QED
      BY <2>6, <3>6, <3>10, <3>14, <3>15 DEF x, s
  <2> QED
    BY <2>7, <2>8
<1> QED
  BY <1>2, <1>3

LEMMA NdRA ==
    ASSUME NEW s, NdGood(s, 0), NEW ip \in OnLink, NEW life \in Int, NEW ll \in BOOLEAN,
           NEW prefix \in BOOLEAN
    PROVE  LET t == RA(s, ip, life, ll, prefix)
           IN  NdGood(t, 0) /\ NdSteady(s, t)
<1> DEFINE k == nd6_get_router(s, ip)
           e == Entry(s, ip)
           n == Listed(e, ip)
           r == IF k # None THEN [k |-> k, s |-> s] ELSE n
           t == RA(s, ip, life, ll, prefix)
<1>1. t = Advertised(r, ip, life, ll, prefix)
  BY DEF RA, nd6_new_router
<1>2. \/ k = None /\ \A l \in RouterSlots :
                         s.rl[l].entry = None \/ s.nc[s.rl[l].entry].ip # ip
      \/ k \in RouterSlots /\ s.rl[k].entry # None /\ s.nc[s.rl[k].entry].ip = ip
  BY NdGetRouter
<1>3. NdGot(s, e, ip)
  BY NdEntryGot
<1> HIDE DEF k, e, t
<1>4. k = None => /\ NdGood(n.s, 0) /\ NdSteady(s, n.s)
                  /\ n.k # None => /\ n.k \in RouterSlots /\ n.s.rl[n.k].entry # None
                                   /\ n.s.nc[n.s.rl[n.k].entry].ip = ip
  <2> SUFFICES ASSUME k = None
               PROVE  /\ NdGood(n.s, 0) /\ NdSteady(s, n.s)
                      /\ n.k # None => /\ n.k \in RouterSlots /\ n.s.rl[n.k].entry # None
                                       /\ n.s.nc[n.s.rl[n.k].entry].ip = ip
    OBVIOUS
  <2>1. \A l \in RouterSlots : s.rl[l].entry = None \/ s.nc[s.rl[l].entry].ip # ip
    BY <1>2, NdConstants
  <2>2. NdGood(n.s, 0) /\ NdSteady(s, n.s)
    BY <1>3, <2>1, NdListed
  <2>3. n.k # None => /\ n.k \in RouterSlots /\ n.s.rl[n.k].entry # None
                      /\ n.s.nc[n.s.rl[n.k].entry].ip = ip
    BY <1>3, <2>1, NdListed
  <2> QED
    BY <2>2, <2>3
<1> HIDE DEF n
<1>5. /\ NdGood(r.s, 0) /\ NdSteady(s, r.s)
      /\ r.k # None => /\ r.k \in RouterSlots /\ r.s.rl[r.k].entry # None
                       /\ r.s.nc[r.s.rl[r.k].entry].ip = ip
  <2>1. CASE k = None
    BY <1>4, <2>1
  <2>2. CASE k # None
    <3>1. r.k = k /\ r.s = s
      BY <2>2
    <3> HIDE DEF r
    <3>2. NdSteady(s, s)
      BY DEF NdSteady
    <3> QED
      BY <1>2, <2>2, <3>1, <3>2
  <2> QED
    BY <2>1, <2>2
<1> HIDE DEF r
<1>6. /\ NdGood(t, 0) /\ NdIps(r.s, t)
      /\ \A l \in RouterSlots : t.rl[l].entry = r.s.rl[l].entry
  BY <1>1, <1>5, NdAdvertised
<1>7. NdSteady(s, t)
  <2>1. \A l \in RouterSlots : s.rl[l].entry # None => s.rl[l].entry \in Neighbors
    BY NdRouters DEF NdGood
  <2> QED
    BY <1>5, <1>6, <2>1 DEF NdSteady, NdIps
<1> QED
  BY <1>6, <1>7 DEF t

-----------------------------------------------------------------------------
(* Neighbour discovery: the steps.                                         *)

NdInv == NdGood(Now, 0)

LEMMA NdNow ==
    /\ Now.nc = neighbor_cache /\ Now.dc = destination_cache /\ Now.rl = default_router_list
    /\ Now.pfx = prefixed /\ Now.at = nd6_cached_index /\ Now.copies = copies
    /\ Now.right = right /\ Now.sending = sending
BY DEF Now

\* A router that stays on the list keeps its neighbour's address, in this step.
NdRoutersKept ==
    \A k \in RouterSlots :
        LET e == default_router_list[k].entry
        IN  e # None /\ default_router_list'[k].entry = e
            => neighbor_cache'[e].ip = neighbor_cache[e].ip

\* What a handler leaves is what is found next.
LEMMA NdLeft ==
    ASSUME NEW r, NdGood(r, 0), NdSteady(Now, r), Becomes(r)
    PROVE  NdInv' /\ NdRoutersKept
<1>1. /\ neighbor_cache' = r.nc /\ destination_cache' = r.dc /\ default_router_list' = r.rl
      /\ prefixed' = r.pfx /\ nd6_cached_index' = r.at /\ copies' = r.copies
      /\ right' = r.right /\ sending' = r.sending
  BY DEF Becomes
<1>2. r = [nc |-> r.nc, dc |-> r.dc, rl |-> r.rl, pfx |-> r.pfx, at |-> r.at,
           copies |-> r.copies, right |-> r.right, sending |-> r.sending]
  BY DEF NdGood, NdBase, NdStates
<1>3. Now' = r
  BY <1>1, <1>2 DEF Now
<1>4. NdInv'
  BY <1>3 DEF NdInv
<1>5. NdRoutersKept
  BY <1>1, NdNow DEF NdSteady, NdRoutersKept
<1> QED
  BY <1>4, <1>5

\* No neighbour is known and no router is listed.
LEMMA NdEmptied ==
    ASSUME NEW s \in NdStates, s.nc = [i \in Neighbors |-> Unused],
           \A k \in RouterSlots : s.rl[k].entry = None, NdHops(s.dc), s.right, s.copies = 0
    PROVE  NdGood(s, 0)
<1>1. /\ Unused \in NdEntry /\ NdEntryOK(Unused) /\ NdEntryRight(Unused) /\ Unused.q = <<>>
      /\ Unused.ip = NoAddr /\ ~Unused.isrouter
  BY DEF Unused, NdEntry, NdNames, NdEntryOK, NdEntryRight
<1> HIDE DEF Unused
<1>2. \A i \in Neighbors : s.nc[i] = Unused
  OBVIOUS
<1>3. NdApart(s.nc) /\ NdLinked(s.nc, s.rl)
  BY <1>1, <1>2 DEF NdApart, NdLinked
<1>4. NdBase(s)
  BY <1>1, <1>2, <1>3 DEF NdBase
<1>5. Queued(s.nc) = 0
  <2> DEFINE N == LWIP_ND6_NUM_NEIGHBORS
             f == [j \in Neighbors |-> Len(s.nc[j].q)]
  <2>1. Queued(s.nc) = SumOf(f, N)
    BY DEF Queued, SumOf
  <2>2. \A j \in Neighbors : f[j] = 0
    BY <1>1, <1>2
  <2>3. N \in Nat /\ Neighbors = 0..(N - 1)
    BY NdConstants
  <2>4. f \in [Neighbors -> Int]
    BY <2>2
  <2> HIDE DEF f, N
  <2>5. f \in [0..(N - 1) -> Int] /\ \A j \in 0..(N - 1) : f[j] = 0
    BY <2>2, <2>3, <2>4
  <2> QED
    BY <2>1, <2>3, <2>5, SumNothing
<1>6. NdFull(s, 0)
  BY <1>1, <1>2, <1>5 DEF NdFull
<1> QED
  BY <1>4, <1>6 DEF NdGood

LEMMA NdStarts ==
    ASSUME Init
    PROVE  NdInv
<1> DEFINE s == Now
<1>1. /\ s.nc = [i \in Neighbors |-> Unused]
      /\ s.dc = [k \in Destinations |-> [dest |-> NoAddr, hop |-> NoAddr, aged |-> FALSE]]
      /\ s.rl = [k \in RouterSlots |-> [entry |-> None, life |-> 0]]
      /\ s.pfx = FALSE /\ s.at = [n |-> 0, d |-> 0] /\ s.copies = 0
      /\ s.right = TRUE /\ s.sending = "ok"
  BY NdNow DEF Init
<1>2. s = [nc |-> s.nc, dc |-> s.dc, rl |-> s.rl, pfx |-> s.pfx, at |-> s.at,
           copies |-> s.copies, right |-> s.right, sending |-> s.sending]
  BY DEF Now
<1> HIDE DEF s
<1>3. s.nc \in [Neighbors -> NdEntry]
  BY <1>1 DEF Unused, NdEntry, NdNames
<1>4. s.dc \in [Destinations -> NdDestination]
  BY <1>1 DEF NdDestination
<1>5. s.rl \in [RouterSlots -> NdRouter]
  BY <1>1 DEF NdRouter
<1>6. s.at \in [n : Neighbors, d : Destinations]
  BY <1>1, NdConstants
<1>7. s \in NdStates
  <2>1. /\ s.pfx \in BOOLEAN /\ s.copies \in Int /\ s.right \in BOOLEAN
        /\ s.sending \in {"ok", "reused", "endless"}
    <3>1. s.pfx = FALSE /\ s.right = TRUE
      BY <1>1, Zenon
    <3>2. s.pfx \in BOOLEAN /\ s.right \in BOOLEAN
      BY <3>1, Zenon
    <3>3. s.copies = 0 /\ s.sending = "ok"
      BY <1>1, Zenon
    <3> QED
      BY <3>2, <3>3
  <2> QED
    BY <1>2, <1>3, <1>4, <1>5, <1>6, <2>1 DEF NdStates
<1>8. (\A k \in RouterSlots : s.rl[k].entry = None) /\ NdHops(s.dc)
  BY <1>1 DEF NdHops
<1> QED
  BY <1>1, <1>7, <1>8, NdEmptied DEF NdInv, s

NdReset(s, p, n, nc, rl) == [s EXCEPT !.pfx = p, !.copies = n, !.nc = nc, !.rl = rl]

LEMMA NdResetIs ==
    ASSUME NEW s \in NdStates, NEW p \in BOOLEAN, NEW n \in Int,
           NEW nc \in [Neighbors -> NdEntry], NEW rl \in [RouterSlots -> NdRouter]
    PROVE  LET t == NdReset(s, p, n, nc, rl)
           IN  /\ t \in NdStates /\ t.nc = nc /\ t.rl = rl /\ t.dc = s.dc /\ t.copies = n
               /\ (s.right => t.right) /\ t.sending = s.sending
BY DEF NdStates, NdReset

LEMMA NdCleanup ==
    ASSUME NdInv, sending = "ok", nd6_cleanup_netif
    PROVE  NdInv' /\ NdRoutersKept
<1> DEFINE s == Now
           nc == [i \in Neighbors |-> Unused]
           rl == [k \in RouterSlots |-> [s.rl[k] EXCEPT !.entry = None]]
<1>1. NdGood(s, 0)
  BY DEF NdInv
<1>2. s \in NdStates /\ NdHops(s.dc)
  BY <1>1 DEF NdGood, NdBase
<1>3. PICK p \in BOOLEAN : p = FALSE
  BY Zenon
<1> DEFINE t == NdReset(s, p, 0, nc, rl)
<1>4. Becomes(t)
  <2>1. t = [s EXCEPT !.pfx = FALSE, !.copies = 0, !.nc = [i \in Neighbors |-> Unused],
                      !.rl = [k \in RouterSlots |-> [@[k] EXCEPT !.entry = None]]]
    <3>1. s.rl \in [RouterSlots -> NdRouter]
      BY <1>2, NdParts
    <3> QED
      BY <1>2, <1>3 DEF NdStates, NdReset
  <2> HIDE DEF t
  <2> QED
    BY <2>1 DEF nd6_cleanup_netif
<1> HIDE DEF s
<1>5. nc \in [Neighbors -> NdEntry]
  BY DEF Unused, NdEntry, NdNames
<1>6. rl \in [RouterSlots -> NdRouter] /\ \A k \in RouterSlots : rl[k].entry = None
  <2>1. \A k \in RouterSlots : s.rl[k] \in NdRouter
    BY <1>2, NdParts
  <2> QED
    BY <2>1 DEF NdRouter
<1> HIDE DEF nc, rl
<1>7. /\ t \in NdStates /\ t.nc = nc /\ t.rl = rl /\ t.dc = s.dc /\ t.copies = 0
      /\ (s.right => t.right) /\ t.sending = s.sending
  <2>1. p \in BOOLEAN
    BY <1>3
  <2>2. 0 \in Int
    OBVIOUS
  <2>3. rl \in [RouterSlots -> NdRouter]
    BY <1>6
  <2>4. t \in NdStates /\ t.nc = nc /\ t.rl = rl
    BY <1>2, <1>5, <2>1, <2>2, <2>3, NdResetIs
  <2>5. t.dc = s.dc /\ t.copies = 0
    BY <1>2, <1>5, <2>1, <2>2, <2>3, NdResetIs
  <2>6. s.right => t.right
    BY <1>2, <1>5, <2>1, <2>2, <2>3, NdResetIs
  <2>7. t.sending = s.sending
    BY <1>2, <1>5, <2>1, <2>2, <2>3, NdResetIs
  <2> QED
    BY <2>4, <2>5, <2>6, <2>7
<1> HIDE DEF t
<1>8. t.right
  BY <1>1, <1>7, NdNow DEF NdGood, NdFull, s
<1>9. NdGood(t, 0)
  <2>1. t.nc = [i \in Neighbors |-> Unused]
    BY <1>7 DEF nc
  <2>2. \A k \in RouterSlots : t.rl[k].entry = None
    BY <1>6, <1>7
  <2> QED
    BY <1>2, <1>7, <1>8, <2>1, <2>2, NdEmptied
<1>10. NdSteady(Now, t)
  BY <1>6, <1>7 DEF NdSteady
<1> QED
  BY <1>4, <1>9, <1>10, NdLeft

LEMMA NdTimer ==
    ASSUME NdInv, nd6_tmr
    PROVE  NdInv' /\ NdRoutersKept
<1> DEFINE f == CHOOSE f : NdAging(f, Now)
           t == f[LWIP_ND6_NUM_NEIGHBORS]
           u == Older(t)
           g == CHOOSE g : NdLeaving(g, u)
           v == g[LWIP_ND6_NUM_ROUTERS]
<1>1. PICK pfx \in {prefixed, FALSE} : Becomes([v EXCEPT !.pfx = pfx])
  BY DEF nd6_tmr, NdAging, NdLeaving
<1>2. NdGood(Now, 0) /\ NdBase(Now) /\ Now \in NdStates /\ prefixed \in BOOLEAN
  BY NdNow, NdParts DEF NdInv, NdGood, NdBase
<1>3. t \in NdAgedStates(Now)
  <2>1. NdKept(Now, Now)
    BY NdKeptOn
  <2>2. Now \in NdAgedStates(Now)
    BY <1>2, <2>1 DEF NdAgedStates
  <2>3. \E h : NdAging(h, Now)
    BY <2>2, NdAgingExists
  <2>4. NdAging(f, Now)
    BY <2>3, Zenon
  <2> HIDE DEF f
  <2> QED
    BY <2>2, <2>4, NdAgingEnd
<1> HIDE DEF f, t
<1>4. NdGood(t, 0) /\ NdKept(Now, t) /\ t.rl = Now.rl
  BY <1>3 DEF NdAgedStates
<1>5. NdGood(u, 0) /\ u.nc = t.nc
  BY <1>4, NdOlder
<1> HIDE DEF u
<1>6. v \in NdLeftStates(u)
  <2>1. u \in NdLeftStates(u)
    BY <1>5 DEF NdLeftStates, NdGood, NdBase, NdIps
  <2>2. \E h : NdLeaving(h, u)
    BY <2>1, NdLeavingExists
  <2>3. NdLeaving(g, u)
    BY <2>2, Zenon
  <2> HIDE DEF g
  <2> QED
    BY <2>1, <2>3, NdLeavingEnd
<1> HIDE DEF g, v
<1> DEFINE w == [v EXCEPT !.pfx = pfx]
<1>7. NdGood(v, 0) /\ NdIps(u, v)
  BY <1>6 DEF NdLeftStates
<1>8. pfx \in BOOLEAN
  <2>1. pfx = prefixed \/ pfx = FALSE
    OBVIOUS
  <2> QED
    BY <1>2, <2>1, Zenon
<1>9. NdGood(w, 0) /\ NdIps(v, w)
  <2>1. 0 \in Int
    OBVIOUS
  <2> QED
    BY <1>7, <1>8, <2>1, NdPrefixed
<1> HIDE DEF w
<1>10. NdIps(t, w)
  BY <1>5, <1>7, <1>9 DEF NdIps
<1>11. NdSteady(Now, w)
  BY <1>2, <1>4, <1>10, NdKeptSteady
<1> QED
  BY <1>1, <1>9, <1>11, NdLeft DEF w

LEMMA NdSends ==
    ASSUME NdInv, Output
    PROVE  NdInv' /\ NdRoutersKept
<1>1. PICK dst \in Destined : Becomes(ethip6_output(Now, dst))
  BY DEF Output, Destined
<1> DEFINE r == ethip6_output(Now, dst)
<1>2. NdGood(Now, 0) /\ NdBase(Now) /\ 0 \in Int
  BY DEF NdInv, NdGood
<1>3. NdGood(r, 0) /\ NdMoved(Now, r, dst)
  BY <1>2, NdOutput
<1> HIDE DEF r
<1>4. NdKept(Now, r)
  BY <1>3, NdKeptOn
<1>5. NdIps(r, r)
  BY DEF NdIps
<1>6. NdSteady(Now, r)
  BY <1>2, <1>4, <1>5, NdKeptSteady
<1> QED
  BY <1>1, <1>3, <1>6, NdLeft DEF r

LEMMA NdHints ==
    ASSUME NdInv, nd6_reachability_hint
    PROVE  NdInv' /\ NdRoutersKept
<1>1. PICK ip \in Hosts \cup Remote : Becomes(Hinted(Now, ip))
  BY DEF nd6_reachability_hint
<1>2. ip \in Destined
  BY DEF Destined, OnLink
<1>3. NdGood(Hinted(Now, ip), 0) /\ NdSteady(Now, Hinted(Now, ip))
  BY <1>2, NdHinted DEF NdInv
<1> QED
  BY <1>1, <1>3, NdLeft

LEMMA NdReceives ==
    ASSUME NdInv, nd6_input
    PROVE  NdInv' /\ NdRoutersKept
<1> USE DEF NdInv
<1>1. ASSUME NEW ip \in OnLink, NEW override \in BOOLEAN, NEW multicast \in BOOLEAN,
             Becomes(NA(Now, ip, override, multicast))
      PROVE  NdInv' /\ NdRoutersKept
  <2> DEFINE r == NA(Now, ip, override, multicast)
  <2>1. NdGood(r, 0) /\ NdSteady(Now, r)
    BY NdNA
  <2> HIDE DEF r
  <2> QED
    BY <1>1, <2>1, NdLeft DEF r
<1>2. ASSUME NEW ip \in OnLink, Becomes(NS(Now, ip))
      PROVE  NdInv' /\ NdRoutersKept
  BY <1>2, NdNS, NdLeft
<1>3. ASSUME NEW ip \in Routers, NEW life \in {0, MaxLifetime}, NEW ll \in BOOLEAN,
             NEW prefix \in BOOLEAN, Becomes(RA(Now, ip, life, ll, prefix))
      PROVE  NdInv' /\ NdRoutersKept
  <2> DEFINE r == RA(Now, ip, life, ll, prefix)
  <2>1. ip \in OnLink /\ life \in Int
    BY NdConstants DEF OnLink
  <2>2. NdGood(r, 0) /\ NdSteady(Now, r)
    BY <2>1, NdRA
  <2> HIDE DEF r
  <2> QED
    BY <1>3, <2>2, NdLeft DEF r
<1>4. ASSUME NEW dst \in Hosts \cup Remote, NEW ll \in BOOLEAN,
             NEW target \in Routers \cup ({dst} \cap Hosts), Becomes(RD(Now, dst, target, ll))
      PROVE  NdInv' /\ NdRoutersKept
  <2> DEFINE r == RD(Now, dst, target, ll)
  <2>1. dst \in Destined /\ target \in OnLink
    BY DEF Destined, OnLink
  <2>2. NdGood(r, 0) /\ NdSteady(Now, r)
    BY <2>1, NdRD
  <2> HIDE DEF r
  <2> QED
    BY <1>4, <2>2, NdLeft DEF r
<1> QED
  BY <1>1, <1>2, <1>3, <1>4 DEF nd6_input

LEMMA NdUnchanged ==
    ASSUME NdInv, UNCHANGED vars
    PROVE  NdInv' /\ NdRoutersKept
<1>1. Now' = Now
  BY DEF Now, vars
<1>2. NdRoutersKept
  BY DEF vars, NdRoutersKept
<1> QED
  BY <1>1, <1>2 DEF NdInv

LEMMA NdStep ==
    ASSUME NdInv, [MCNext]_<<part, vars, arpVars>>
    PROVE  NdInv' /\ NdRoutersKept
<1>1. CASE UNCHANGED vars
  BY <1>1, NdUnchanged
<1>2. CASE Next
  <2>1. sending = "ok"
    BY <1>2 DEF Next
  <2> QED
    BY <1>2, <2>1, NdReceives, NdSends, NdHints, NdTimer, NdCleanup DEF Next
<1> QED
  BY <1>1, <1>2 DEF MCNext

LEMMA NdAlways == MCSpec => []NdInv
<1>1. MCInit => NdInv
  BY NdStarts DEF MCInit
<1>2. NdInv /\ [MCNext]_<<part, vars, arpVars>> => NdInv'
  BY NdStep
<1> QED
  BY <1>1, <1>2, PTL DEF MCSpec

\* The neighbours that are routers, counted on the list.
LEMMA NdCounted ==
    ASSUME NEW s, NdBase(s), NEW i \in Neighbors
    PROVE  Cardinality({k \in RouterSlots : s.rl[k].entry = i})
               = IF s.nc[i].isrouter THEN 1 ELSE 0
<1> DEFINE S == {k \in RouterSlots : s.rl[k].entry = i}
<1>1. NdLinked(s.nc, s.rl) /\ i # None
  BY NdConstants DEF NdBase
<1>2. CASE s.nc[i].isrouter
  <2>1. PICK k \in RouterSlots : s.rl[k].entry = i
    BY <1>1, <1>2 DEF NdLinked
  <2>2. S = {k}
    BY <1>1, <2>1 DEF NdLinked
  <2> QED
    BY <1>2, <2>2, FS_Singleton
<1>3. CASE ~s.nc[i].isrouter
  <2>1. S = {}
    BY <1>1, <1>3 DEF NdLinked
  <2> QED
    BY <1>3, <2>1, FS_EmptySet
<1> QED
  BY <1>2, <1>3

\* nd6.c: whatever is received, sent, hinted, timed out and recycled, as long as no queue
\* lost its entry while it was sent, a packet has the link-layer address of its next hop;
\* the list of routers and the neighbours that are routers match one to one, no address has two
\* entries, and the packets on the queues are those that were copied and not yet freed.
THEOREM NeighborCacheSound == MCSpec => []CacheSound
<1>1. NdInv => CacheSound
  <2> SUFFICES ASSUME NdInv PROVE CacheSound
    OBVIOUS
  <2>1. NdGood(Now, 0) /\ NdBase(Now)
    BY DEF NdInv, NdGood
  <2>2. RightNeighbor
    BY <2>1, NdNow DEF NdGood, NdFull, NdEntryRight, RightNeighbor
  <2>3. RoutersLinked
    <3>1. \A k \in RouterSlots :
             LET e == default_router_list[k].entry
             IN  e # None => neighbor_cache[e].isrouter /\ neighbor_cache[e].state # "NO_ENTRY"
      BY <2>1, NdRouters, NdNow DEF NdBase, NdEntryOK
    <3>2. \A i \in Neighbors :
             Cardinality({k \in RouterSlots : default_router_list[k].entry = i})
                 = IF neighbor_cache[i].isrouter THEN 1 ELSE 0
      BY <2>1, NdCounted, NdNow
    <3>3. \A i, j \in Neighbors :
             i # j /\ neighbor_cache[i].ip = neighbor_cache[j].ip
             => neighbor_cache[i].state = "NO_ENTRY"
      BY <2>1, NdNow DEF NdBase, NdApart, NdEntryOK
    <3> QED
      BY <3>1, <3>2, <3>3 DEF RoutersLinked
  <2>4. QueuesAccounted
    <3>1. sending = "ok" => copies = Queued(neighbor_cache) + 0
      BY <2>1, NdNow DEF NdGood, NdFull
    <3>2. Queued(neighbor_cache) \in Int
      <4>1. neighbor_cache \in [Neighbors -> NdEntry] /\ 0 \in Neighbors
        BY <2>1, NdNow, NdParts, NdConstants DEF NdBase
      <4> QED
        BY <4>1, NdQueued
    <3>3. sending = "ok" =>
              \A i \in Neighbors : neighbor_cache[i].q # <<>> => neighbor_cache[i].state # "STALE"
      BY <2>1, NdNow DEF NdGood, NdFull, NdEntryRight
    <3> QED
      BY <3>1, <3>2, <3>3 DEF QueuesAccounted
  <2> QED
    BY <2>2, <2>3, <2>4 DEF CacheSound
<1> QED
  BY <1>1, NdAlways, PTL

\* nd6.c: an entry that an address needs is never taken from a router, so a pointer that
\* stays on default_router_list means the neighbour it meant before.
THEOREM RouterPointersKept == MCSpec => RouterEntryKept
<1>1. NdInv /\ [MCNext]_<<part, vars, arpVars>>
      => [\A k \in RouterSlots :
            LET e == default_router_list[k].entry
            IN  e # None /\ default_router_list'[k].entry = e
                => neighbor_cache'[e].ip = neighbor_cache[e].ip]_vars
  BY NdStep DEF NdRoutersKept
<1> QED
  BY <1>1, NdAlways, PTL DEF MCSpec, RouterEntryKept

=============================================================================
