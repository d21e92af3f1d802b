------------------------------ MODULE Ip_proofs ------------------------------
(***************************************************************************)
(* Proofs about the components of MCIp, over all its behaviours.           *)
(*                                                                         *)
(* UDP: the list of udp.c has each block that has a port once and no other *)
(* (UdpOK), whatever is bound, connected, removed, sent and taken in; a    *)
(* block comes to share an address and a port only by a change of the      *)
(* interface's address; moving a block to the front leaves the first of    *)
(* the others first.                                                       *)
(*                                                                         *)
(* Interfaces: the list of netif.c has each interface once, and the        *)
(* default interface and those of IPv6's routers are on it, the latter up  *)
(* (NetifInv); from it, what ip4_route and ip6_route choose is usable and  *)
(* what is sent over it can be answered.                                   *)
(*                                                                         *)
(* Reassembly: the list of ip4_frag.c and ip6_frag.c has each datagram     *)
(* once, the newest first and each with its fragments in order and not all *)
(* of them, and the count is that of their pbufs (RsInv); the loops that   *)
(* make room and run the timer down keep it so.                            *)
(***************************************************************************)
EXTENDS MCIp, DataInduction

-----------------------------------------------------------------------------
(* UDP: the list and the blocks.                                           *)

UdpBlock ==
    [live : BOOLEAN, local_ip : Locals \cup {AnyIp}, local_port : Ports \cup {0},
     remote_ip : Peers \cup {AnyIp}, remote_port : {0, PeerPort}, connected : BOOLEAN]

\* A block is connected or bound only while it lives, and one that is not connected has
\* no remote port.
UdpBlockOK(e) ==
    /\ e.connected => e.live /\ e.local_port # 0
    /\ ~e.connected => e.remote_port = 0
    /\ ~e.live => e.local_port = 0

\* The list has each block that is bound, once.
UdpOK(l, b) ==
    /\ l \in Seq(Pcbs) /\ b \in [Pcbs -> UdpBlock]
    /\ \A i, j \in 1..Len(l) : l[i] = l[j] => i = j
    /\ \A c \in Pcbs : (\E i \in 1..Len(l) : l[i] = c) <=> b[c].local_port # 0
    /\ \A c \in Pcbs : UdpBlockOK(b[c])

UdpInv == UdpOK(udp_pcbs, pcb) /\ udp_port \in Ports /\ addr \in Locals \cup {AnyIp}

\* A block is written: what it is bound to stays or it is on the list by now.
LEMMA UdpPut ==
    ASSUME NEW l, NEW b, UdpOK(l, b), NEW c \in Pcbs, NEW e \in UdpBlock, UdpBlockOK(e),
           e.local_port # 0 <=> b[c].local_port # 0
    PROVE  UdpOK(l, [b EXCEPT ![c] = e])
BY DEF UdpOK

LEMMA UdpPutFront ==
    ASSUME NEW l, NEW b, UdpOK(l, b), NEW c \in Pcbs, NEW e \in UdpBlock, UdpBlockOK(e),
           e.local_port # 0, b[c].local_port = 0
    PROVE  UdpOK(<<c>> \o l, [b EXCEPT ![c] = e])
<1> DEFINE w == <<c>> \o l
           d == [b EXCEPT ![c] = e]
           n == Len(l)
<1>1. l \in Seq(Pcbs) /\ n \in Nat
  BY LenProperties DEF UdpOK
<1>2. w \in Seq(Pcbs) /\ Len(w) = n + 1 /\ w[1] = c /\ \A i \in 2..(n + 1) : w[i] = l[i - 1]
  BY <1>1, OneInFront
<1>3. d \in [Pcbs -> UdpBlock] /\ d[c] = e /\ \A a \in Pcbs \ {c} : d[a] = b[a]
  BY DEF UdpOK
<1> HIDE DEF w, d
<1>4. \A i \in 1..n : l[i] # c
  BY DEF UdpOK
<1>5. \A i, j \in 1..Len(w) : w[i] = w[j] => i = j
  <2> SUFFICES ASSUME NEW i \in 1..(n + 1), NEW j \in 1..(n + 1), w[i] = w[j]
               PROVE  i = j
    BY <1>2
  <2>1. CASE i = 1 \/ j = 1
    BY <1>1, <1>2, <1>4, <2>1
  <2>2. CASE i # 1 /\ j # 1
    <3>1. i - 1 \in 1..n /\ j - 1 \in 1..n /\ l[i - 1] = l[j - 1]
      BY <1>1, <1>2, <2>2
    <3>2. i - 1 = j - 1
      BY <3>1 DEF UdpOK
    <3> QED
      BY <1>1, <3>2
  <2> QED
    BY <2>1, <2>2
<1>6. \A a \in Pcbs : (\E i \in 1..Len(w) : w[i] = a) <=> d[a].local_port # 0
  <2>1. ASSUME NEW a \in Pcbs \ {c}
        PROVE  (\E i \in 1..(n + 1) : w[i] = a) <=> \E i \in 1..n : l[i] = a
    <3>1. ASSUME NEW i \in 1..(n + 1), w[i] = a PROVE \E k \in 1..n : l[k] = a
      <4>1. i # 1 /\ i - 1 \in 1..n
        BY <1>1, <1>2, <3>1
      <4> QED
        BY <1>2, <3>1, <4>1
    <3>2. ASSUME NEW i \in 1..n, l[i] = a PROVE \E k \in 1..(n + 1) : w[k] = a
      <4>1. i + 1 \in 2..(n + 1) /\ i + 1 \in 1..(n + 1) /\ (i + 1) - 1 = i
        BY <1>1
      <4>2. w[i + 1] = a
        BY <1>2, <3>2, <4>1
      <4> QED
        BY <4>1, <4>2
    <3> QED
      BY <3>1, <3>2
  <2>2. 1 \in 1..(n + 1)
    BY <1>1
  <2> QED
    BY <1>2, <1>3, <2>1, <2>2 DEF UdpOK
<1> QED
  BY <1>2, <1>3, <1>5, <1>6 DEF UdpOK, w, d

\* The place First gives.
LEMMA UdpFirst ==
    ASSUME NEW S, S \subseteq Nat, S # {}
    PROVE  First(S) \in S /\ \A j \in S : First(S) <= j
<1>1. \E m \in S : \A k \in S : m <= k
  BY LeastNumber
<1> QED
  BY <1>1 DEF First

\* A block goes, from the list too if it was on it.
LEMMA UdpGone ==
    ASSUME NEW c \in Pcbs, UdpOK(udp_pcbs, pcb)
    PROVE  UdpOK(Unlinked(c), [pcb EXCEPT ![c] = Freed])
<1> DEFINE l == udp_pcbs
           n == Len(l)
           w == Unlinked(c)
           b == [pcb EXCEPT ![c] = Freed]
<1>1. l \in Seq(Pcbs) /\ n \in Nat
  BY LenProperties DEF UdpOK
<1>2. /\ b \in [Pcbs -> UdpBlock] /\ b[c] = Freed /\ \A a \in Pcbs \ {c} : b[a] = pcb[a]
      /\ Freed.local_port = 0 /\ UdpBlockOK(Freed)
  BY DEF UdpOK, Freed, UdpBlock, UdpBlockOK
<1> HIDE DEF b
<1>3. CASE ~Contains(l, c)
  <2>1. w = l /\ pcb[c].local_port = 0
    BY <1>3 DEF Contains, Unlinked, UdpOK
  <2> HIDE DEF w
  <2>2. \A a \in Pcbs : b[a].local_port # 0 <=> pcb[a].local_port # 0
    BY <1>2, <2>1
  <2>3. \A a \in Pcbs : UdpBlockOK(b[a])
    BY <1>2 DEF UdpOK
  <2>4. UdpOK(w, b)
    BY <1>2, <2>1, <2>2, <2>3 DEF UdpOK
  <2> QED
    BY <2>4 DEF w, b
<1>4. CASE Contains(l, c)
  <2> DEFINE i == First({k \in 1..n : l[k] = c})
  <2>1. w = RemoveAt(l, i)
    <3>1. DOMAIN udp_pcbs = 1..n
      BY <1>1
    <3> HIDE DEF n
    <3>2. w = RemoveAt(udp_pcbs, First({k \in DOMAIN udp_pcbs : udp_pcbs[k] = c}))
      BY <1>4 DEF Unlinked
    <3> QED
      BY <3>1, <3>2
  <2>2. i \in 1..n /\ l[i] = c
    <3>1. {k \in 1..n : l[k] = c} # {}
      BY <1>4 DEF Contains
    <3>2. {k \in 1..n : l[k] = c} \subseteq Nat
      OBVIOUS
    <3> QED
      BY <3>1, <3>2, UdpFirst
  <2> HIDE DEF i, w
  <2>3. /\ w \in Seq(Pcbs) /\ Len(w) = n - 1
        /\ \A k \in 1..(i - 1) : w[k] = l[k]
        /\ \A k \in i..(n - 1) : w[k] = l[k + 1]
    <3> HIDE DEF l
    <3> QED
      BY <1>1, <2>1, <2>2, TakenOut
  <2> DEFINE at(k) == IF k < i THEN k ELSE k + 1
  <2>4. \A k \in 1..(n - 1) : at(k) \in 1..n /\ at(k) # i /\ w[k] = l[at(k)]
    <3> SUFFICES ASSUME NEW k \in 1..(n - 1)
                 PROVE  at(k) \in 1..n /\ at(k) # i /\ w[k] = l[at(k)]
      OBVIOUS
    <3> HIDE DEF n, l
    <3>1. CASE k < i
      <4>1. k \in 1..(i - 1) /\ k \in 1..n /\ k # i
        BY <1>1, <2>2, <3>1
      <4> QED
        BY <2>3, <3>1, <4>1
    <3>2. CASE ~(k < i)
      <4>1. k \in i..(n - 1) /\ k + 1 \in 1..n /\ k + 1 # i
        BY <1>1, <2>2, <3>2
      <4> QED
        BY <2>3, <3>2, <4>1
    <3> QED
      BY <3>1, <3>2
  <2>5. \A k, j \in 1..(n - 1) : w[k] = w[j] => k = j
    <3> SUFFICES ASSUME NEW k \in 1..(n - 1), NEW j \in 1..(n - 1), w[k] = w[j]
                 PROVE  k = j
      OBVIOUS
    <3>1. at(k) = at(j)
      BY <2>4 DEF UdpOK
    <3> QED
      BY <2>2, <3>1
  <2>6. \A a \in Pcbs : (\E k \in 1..(n - 1) : w[k] = a) <=> a # c /\ \E k \in 1..n : l[k] = a
    <3>1. ASSUME NEW a \in Pcbs, NEW k \in 1..(n - 1), w[k] = a
          PROVE  a # c /\ \E j \in 1..n : l[j] = a
      BY <2>2, <2>4, <3>1 DEF UdpOK
    <3>2. ASSUME NEW a \in Pcbs, a # c, NEW k \in 1..n, l[k] = a
          PROVE  \E j \in 1..(n - 1) : w[j] = a
      <4>1. k # i
        BY <2>2, <3>2
      <4>2. CASE k < i
        <5>1. k \in 1..(n - 1) /\ k \in 1..(i - 1)
          BY <1>1, <2>2, <4>2
        <5> QED
          BY <2>3, <3>2, <5>1
      <4>3. CASE k > i
        <5>1. k - 1 \in 1..(n - 1) /\ k - 1 \in i..(n - 1) /\ (k - 1) + 1 = k
          BY <1>1, <2>2, <4>3
        <5>2. w[k - 1] = a
          BY <2>3, <3>2, <5>1
        <5> QED
          BY <5>1, <5>2
      <4> QED
        BY <1>1, <2>2, <4>1, <4>2, <4>3
    <3> QED
      BY <3>1, <3>2
  <2>7. \A a \in Pcbs : (\E k \in 1..Len(w) : w[k] = a) <=> b[a].local_port # 0
    BY <1>2, <2>3, <2>6 DEF UdpOK
  <2>8. \A k, j \in 1..Len(w) : w[k] = w[j] => k = j
    BY <2>3, <2>5
  <2>9. \A a \in Pcbs : UdpBlockOK(b[a])
    BY <1>2 DEF UdpOK
  <2>10. UdpOK(w, b)
    BY <1>2, <2>3, <2>7, <2>8, <2>9 DEF UdpOK
  <2> QED
    BY <2>10 DEF w, b
<1> QED
  BY <1>3, <1>4

-----------------------------------------------------------------------------
(* UDP: binding.                                                           *)

\* Each port is a candidate once.
LEMMA UdpCandidates ==
    ASSUME udp_port \in Ports
    PROVE  /\ \A i \in Ports : Candidate(i) \in Ports
           /\ \A p \in Ports : \E i \in Ports : Candidate(i) = p
<1> DEFINE m == PortEnd
           u == udp_port
<1>1. m \in Nat /\ m >= 1 /\ u \in 1..m
  BY UdpAssumption DEF Ports
<1> HIDE DEF m, u
<1>2. \A k \in Nat : k % m \in 0..(m - 1)
  BY <1>1
<1>3. \A k \in 0..(m - 1) : k % m = k
  BY <1>1
<1>4. \A k \in 0..(m - 1) : (k + m) % m = k
  BY <1>1
<1>5. \A i \in 1..m : Candidate(i) = ((u + i - 1) % m) + 1
  BY DEF Candidate, m, u
<1>6. \A i \in 1..m : Candidate(i) \in 1..m
  <2> SUFFICES ASSUME NEW i \in 1..m
               PROVE  Candidate(i) \in 1..m
    OBVIOUS
  <2>1. u + i - 1 \in Nat
    BY <1>1
  <2>2. (u + i - 1) % m \in 0..(m - 1)
    BY <1>2, <2>1
  <2> QED
    BY <1>1, <1>5, <2>2
<1>7. ASSUME NEW p \in 1..m
      PROVE  \E i \in 1..m : Candidate(i) = p
  <2>0. p - 1 \in 0..(m - 1)
    BY <1>1
  <2>1. CASE p > u
    <3>1. p - u \in 1..m /\ u + (p - u) - 1 = p - 1
      BY <1>1, <2>1
    <3>2. Candidate(p - u) = ((p - 1) % m) + 1
      BY <1>5, <3>1
    <3> QED
      BY <1>3, <2>0, <3>1, <3>2
  <2>2. CASE p <= u
    <3>1. p - u + m \in 1..m /\ u + (p - u + m) - 1 = (p - 1) + m
      BY <1>1, <2>2
    <3>2. Candidate(p - u + m) = (((p - 1) + m) % m) + 1
      BY <1>5, <3>1
    <3> QED
      BY <1>4, <2>0, <3>1, <3>2
  <2> QED
    BY <1>1, <2>1, <2>2
<1> QED
  BY <1>6, <1>7 DEF Ports, m

\* A free port is found if there is one.
LEMMA UdpPort ==
    ASSUME udp_port \in Ports
    PROVE  LET r == udp_new_port
           IN  /\ r.tried \in Ports /\ Candidate(r.tried) \in Ports
               /\ \/ Ports \subseteq Taken /\ r.port = 0
                  \/ r.port \in Ports \ Taken
<1> DEFINE S == {i \in Ports : Candidate(i) \notin Taken}
           r == udp_new_port
           i == First(S)
<1>1. PortEnd \in Ports /\ Ports \subseteq Nat /\ 0 \notin Ports
  BY UdpAssumption DEF Ports
<1>2. r = IF S = {} THEN [tried |-> PortEnd, port |-> 0]
          ELSE [tried |-> i, port |-> Candidate(i)]
  BY DEF udp_new_port
<1> HIDE DEF r
<1>3. CASE S = {}
  <2>1. Ports \subseteq Taken
    BY <1>3, UdpCandidates
  <2>2. r.tried = PortEnd /\ r.port = 0
    BY <1>2, <1>3
  <2> QED
    BY <1>1, <2>1, <2>2, UdpCandidates DEF r
<1>4. CASE S # {}
  <2>1. i \in S
    BY <1>1, <1>4, UdpFirst
  <2>2. r.tried = i /\ r.port = Candidate(i)
    BY <1>2, <1>4
  <2> HIDE DEF i
  <2> QED
    BY <2>1, <2>2, UdpCandidates DEF r
<1> QED
  BY <1>3, <1>4
\* A block that is bound to an address and a port.
UdpAt(c, ip, p) == [pcb[c] EXCEPT !.local_ip = ip, !.local_port = p]

\* What binding the block c makes of the rest: the others stay, and none of them has the
\* address and the port that c gets.
UdpBinds(c, s) ==
    /\ UdpOK(s.list, s.pcb) /\ s.port \in Ports
    /\ s.pcb[c].live /\ (s.ok => s.pcb[c].local_port # 0)
    /\ \A b \in Pcbs \ {c} : s.pcb[b] = pcb[b]
    /\ \/ s.pcb = pcb
       \/ \A b \in Pcbs \ {c} :
             pcb[b].local_port = s.pcb[c].local_port => pcb[b].local_ip # s.pcb[c].local_ip

\* The ports that are taken are those of blocks.
LEMMA UdpTaken ==
    ASSUME UdpOK(udp_pcbs, pcb), NEW b \in Pcbs, pcb[b].local_port # 0
    PROVE  /\ pcb[b].local_port \in Taken
           /\ \E i \in DOMAIN udp_pcbs : udp_pcbs[i] = b
<1>1. PICK i \in 1..Len(udp_pcbs) : udp_pcbs[i] = b
  BY DEF UdpOK
<1>2. i \in DOMAIN udp_pcbs
  BY <1>1 DEF UdpOK
<1> QED
  BY <1>1, <1>2 DEF Taken

LEMMA UdpAtOK ==
    ASSUME UdpOK(udp_pcbs, pcb), NEW c \in Pcbs, pcb[c].live, NEW ip \in Locals \cup {AnyIp},
           NEW p \in Ports
    PROVE  LET e == UdpAt(c, ip, p)
           IN  /\ e \in UdpBlock /\ UdpBlockOK(e) /\ e.live /\ e.local_port = p /\ e.local_ip = ip
               /\ UdpOK(Inserted(c), [pcb EXCEPT ![c] = e])
<1> DEFINE e == UdpAt(c, ip, p)
<1>1. p # 0 /\ pcb[c] \in UdpBlock /\ UdpBlockOK(pcb[c])
  BY UdpAssumption DEF UdpOK, Ports
<1>2. e \in UdpBlock /\ e.local_port = p /\ e.local_ip = ip
  BY <1>1 DEF UdpAt, UdpBlock
<1>3. e.live
  BY <1>1 DEF UdpAt, UdpBlock
<1>4. UdpBlockOK(e)
  <2>1. (e.connected <=> pcb[c].connected) /\ e.remote_port = pcb[c].remote_port
    BY <1>1 DEF UdpAt, UdpBlock
  <2> HIDE DEF e
  <2> QED
    BY <1>1, <1>2, <1>3, <2>1 DEF UdpBlockOK
<1> HIDE DEF e
<1>5. UdpOK(Inserted(c), [pcb EXCEPT ![c] = e])
  <2>1. Contains(udp_pcbs, c) <=> pcb[c].local_port # 0
    BY DEF Contains, UdpOK
  <2>2. CASE Contains(udp_pcbs, c)
    <3>1. e.local_port # 0 <=> pcb[c].local_port # 0
      BY <1>1, <1>2, <2>1, <2>2
    <3> QED
      BY <1>2, <1>4, <2>2, <3>1, UdpPut DEF Inserted
  <2>3. CASE ~Contains(udp_pcbs, c)
    <3>1. e.local_port # 0 /\ pcb[c].local_port = 0
      BY <1>1, <1>2, <2>1, <2>3
    <3> QED
      BY <1>2, <1>4, <2>3, <3>1, UdpPutFront DEF Inserted
  <2> QED
    BY <2>2, <2>3
<1> QED
  BY <1>2, <1>3, <1>4, <1>5 DEF e

LEMMA UdpBound ==
    ASSUME UdpInv, NEW c \in Live, NEW ip \in Locals \cup {AnyIp}, NEW port \in Ports \cup {0}
    PROVE  UdpBinds(c, udp_bind(c, ip, port))
<1> DEFINE s == udp_bind(c, ip, port)
           new == udp_new_port
           p == IF port = 0 THEN new.port ELSE port
           ok == IF port = 0 THEN p # 0 ELSE ~InUse(c, ip, port)
<1>1. UdpOK(udp_pcbs, pcb) /\ udp_port \in Ports /\ c \in Pcbs /\ pcb[c].live /\ 0 \notin Ports
  BY DEF UdpInv, Live, Ports
<1>2. /\ s.ok <=> ok
      /\ s.pcb = IF ok THEN [pcb EXCEPT ![c].local_ip = ip, ![c].local_port = p] ELSE pcb
      /\ s.list = IF ok THEN Inserted(c) ELSE udp_pcbs
      /\ s.port = IF port = 0 THEN Candidate(new.tried) ELSE udp_port
  BY DEF udp_bind
<1> HIDE DEF s
<1>3. /\ new.tried \in Ports /\ Candidate(new.tried) \in Ports
      /\ (Ports \subseteq Taken /\ new.port = 0) \/ new.port \in Ports \ Taken
  BY <1>1, UdpPort
<1> HIDE DEF new
<1>4. s.port \in Ports
  BY <1>1, <1>2, <1>3
<1>5. CASE ~ok
  <2>1. s.pcb = pcb /\ s.list = udp_pcbs /\ ~s.ok
    BY <1>2, <1>5
  <2> QED
    BY <1>1, <1>4, <2>1 DEF UdpBinds, s
<1>6. CASE ok
  <2> DEFINE e == UdpAt(c, ip, p)
  <2>1. p \in Ports
    BY <1>1, <1>3, <1>6
  <2>2. s.pcb = [pcb EXCEPT ![c] = e] /\ s.list = Inserted(c)
    <3>1. pcb \in [Pcbs -> UdpBlock] /\ pcb[c] \in UdpBlock
      BY <1>1 DEF UdpOK
    <3> HIDE DEF ok, p
    <3> QED
      BY <1>2, <1>6, <3>1 DEF UdpAt, UdpBlock
  <2>3. \A b \in Pcbs \ {c} : pcb[b].local_port = p => pcb[b].local_ip # ip
    <3> SUFFICES ASSUME NEW b \in Pcbs \ {c}, pcb[b].local_port = p, pcb[b].local_ip = ip
                 PROVE  FALSE
      OBVIOUS
    <3>1. p \in Taken /\ \E i \in DOMAIN udp_pcbs : udp_pcbs[i] = b
      BY <1>1, <2>1, UdpTaken
    <3>2. CASE port = 0
      BY <1>1, <1>3, <1>6, <3>1, <3>2
    <3>3. CASE port # 0
      BY <1>6, <3>1, <3>3 DEF InUse
    <3> QED
      BY <3>2, <3>3
  <2> HIDE DEF p, ok, e
  <2>4. /\ e \in UdpBlock /\ e.live /\ e.local_port = p /\ e.local_ip = ip
        /\ UdpOK(Inserted(c), [pcb EXCEPT ![c] = e])
    BY <1>1, <2>1, UdpAtOK DEF e
  <2>5. s.pcb[c] = e /\ \A b \in Pcbs \ {c} : s.pcb[b] = pcb[b]
    BY <1>1, <2>2 DEF UdpOK
  <2>6. UdpOK(s.list, s.pcb)
    BY <2>2, <2>4
  <2>7. s.pcb[c].local_port # 0 /\ s.pcb[c].live
    BY <1>1, <2>1, <2>4, <2>5
  <2>8. \A b \in Pcbs \ {c} :
            pcb[b].local_port = s.pcb[c].local_port => pcb[b].local_ip # s.pcb[c].local_ip
    BY <2>3, <2>4, <2>5
  <2> QED
    BY <1>4, <2>5, <2>6, <2>7, <2>8 DEF UdpBinds, s
<1> QED
  BY <1>5, <1>6

\* A block that has no port gets one first.
LEMMA UdpAutoBound ==
    ASSUME UdpInv, NEW c \in Live
    PROVE  UdpBinds(c, AutoBound(c))
<1>1. c \in Pcbs /\ pcb[c] \in UdpBlock /\ pcb[c].live
  BY DEF UdpInv, UdpOK, Live
<1>2. CASE pcb[c].local_port = 0
  <2>1. pcb[c].local_ip \in Locals \cup {AnyIp} /\ 0 \in Ports \cup {0}
    BY <1>1 DEF UdpBlock
  <2> QED
    BY <1>2, <2>1, UdpBound DEF AutoBound
<1>3. CASE pcb[c].local_port # 0
  <2> DEFINE s == AutoBound(c)
  <2>1. s.pcb = pcb /\ s.list = udp_pcbs /\ s.port = udp_port
    BY <1>3 DEF AutoBound
  <2> HIDE DEF s
  <2> QED
    BY <1>1, <1>3, <2>1 DEF UdpBinds, UdpInv, s
<1> QED
  BY <1>2, <1>3
-----------------------------------------------------------------------------
(* UDP: the steps.                                                         *)

UdpApart == Twins' \subseteq Twins \/ \E c \in Live : pcb[c].local_ip = addr' /\ addr' # addr

\* One block changes and comes to share its address and port with none.
LEMMA UdpAlone ==
    ASSUME UdpInv, NEW c \in Pcbs, \A b \in Pcbs \ {c} : pcb'[b] = pcb[b],
           \/ pcb'[c].local_port = 0
           \/ /\ pcb[c].live /\ pcb'[c].local_port = pcb[c].local_port
              /\ pcb'[c].local_ip = pcb[c].local_ip
           \/ \A b \in Pcbs \ {c} :
                 pcb[b].local_port = pcb'[c].local_port => pcb[b].local_ip # pcb'[c].local_ip
    PROVE  Twins' \subseteq Twins
<1> SUFFICES ASSUME NEW t \in Twins' PROVE t \in Twins
  OBVIOUS
<1>1. /\ t \in (Pcbs \X Pcbs) /\ t[1] # t[2]
      /\ pcb'[t[1]].live /\ pcb'[t[2]].live
      /\ pcb'[t[1]].local_port = pcb'[t[2]].local_port /\ pcb'[t[1]].local_port # 0
      /\ pcb'[t[1]].local_ip = pcb'[t[2]].local_ip
  BY DEF Twins, Live
<1> DEFINE a == t[1]
           d == t[2]
<1>2. a \in Pcbs /\ d \in Pcbs /\ t = <<a, d>>
  BY <1>1
<1> HIDE DEF a, d
<1>3. SUFFICES /\ pcb[a].live /\ pcb[d].live /\ pcb[a].local_port = pcb[d].local_port
               /\ pcb[a].local_port # 0 /\ pcb[a].local_ip = pcb[d].local_ip
  BY <1>1, <1>2 DEF Twins, Live, a, d
<1>4. /\ a # d /\ pcb'[a].live /\ pcb'[d].live
      /\ pcb'[a].local_port = pcb'[d].local_port /\ pcb'[a].local_port # 0
      /\ pcb'[a].local_ip = pcb'[d].local_ip
  BY <1>1 DEF a, d
<1>5. CASE a # c /\ d # c
  BY <1>2, <1>4, <1>5
<1>6. CASE a = c
  BY <1>2, <1>4, <1>6
<1>7. CASE d = c
  BY <1>2, <1>4, <1>7
<1> QED
  BY <1>5, <1>6, <1>7

LEMMA UdpNew ==
    ASSUME UdpInv, NEW c \in Pcbs, udp_new(c)
    PROVE  UdpInv' /\ UdpApart
<1> DEFINE e == [pcb[c] EXCEPT !.live = TRUE]
<1>1. UdpOK(udp_pcbs, pcb) /\ pcb[c] \in UdpBlock /\ UdpBlockOK(pcb[c]) /\ ~pcb[c].live
  BY DEF UdpInv, UdpOK, udp_new, Live
<1>2. pcb[c].local_port = 0
  BY <1>1 DEF UdpBlockOK
<1>3. pcb' = [pcb EXCEPT ![c] = e] /\ UNCHANGED <<udp_pcbs, udp_port, addr>>
  BY DEF udp_new
<1>4. e \in UdpBlock /\ e.local_port = 0 /\ e.live
  BY <1>1, <1>2 DEF UdpBlock
<1>5. e.remote_port = pcb[c].remote_port /\ (e.connected <=> pcb[c].connected)
  BY <1>1 DEF UdpBlock
<1> HIDE DEF e
<1>6. UdpBlockOK(e)
  BY <1>1, <1>2, <1>4, <1>5 DEF UdpBlockOK
<1>7. UdpOK(udp_pcbs, [pcb EXCEPT ![c] = e])
  BY <1>1, <1>2, <1>4, <1>6, UdpPut
<1>8. UdpInv'
  BY <1>3, <1>7 DEF UdpInv
<1>9. pcb'[c].local_port = 0 /\ \A b \in Pcbs \ {c} : pcb'[b] = pcb[b]
  BY <1>1, <1>3, <1>4 DEF UdpOK
<1> QED
  BY <1>8, <1>9, UdpAlone DEF UdpApart

\* What is bound stays bound.
LEMMA UdpBoundStep ==
    ASSUME UdpInv, NEW c \in Live, NEW s, UdpBinds(c, s), Bound(s)
    PROVE  UdpInv' /\ UdpApart
<1>1. pcb' = s.pcb /\ udp_pcbs' = s.list /\ udp_port' = s.port /\ addr' = addr
  BY DEF Bound
<1>2. UdpInv'
  BY <1>1 DEF UdpInv, UdpBinds
<1>3. c \in Pcbs /\ pcb[c].live
  BY DEF Live
<1>4. Twins' \subseteq Twins
  <2>1. \A b \in Pcbs \ {c} : pcb'[b] = pcb[b]
    BY <1>1 DEF UdpBinds
  <2>2. \/ pcb'[c] = pcb[c]
        \/ \A b \in Pcbs \ {c} :
               pcb[b].local_port = pcb'[c].local_port => pcb[b].local_ip # pcb'[c].local_ip
    BY <1>1 DEF UdpBinds
  <2> QED
    BY <1>3, <2>1, <2>2, UdpAlone
<1> QED
  BY <1>2, <1>4 DEF UdpApart

\* The peer of a block.
UdpPeered(e, ip, port, on) ==
    [e EXCEPT !.remote_ip = ip, !.remote_port = port, !.connected = on]

LEMMA UdpPeer ==
    ASSUME NEW l, NEW b, UdpOK(l, b), NEW c \in Pcbs, b[c].live, NEW ip \in Peers \cup {AnyIp},
           NEW port \in {0, PeerPort}, NEW on \in BOOLEAN, on => b[c].local_port # 0,
           ~on => port = 0
    PROVE  LET e == UdpPeered(b[c], ip, port, on)
           IN  /\ UdpOK(l, [b EXCEPT ![c] = e]) /\ e.local_port = b[c].local_port
               /\ e.local_ip = b[c].local_ip
<1> DEFINE e == UdpPeered(b[c], ip, port, on)
<1>1. b[c] \in UdpBlock
  BY DEF UdpOK
<1>2. /\ e \in UdpBlock /\ e.local_port = b[c].local_port /\ e.local_ip = b[c].local_ip
      /\ e.remote_port = port
  BY <1>1 DEF UdpBlock, UdpPeered
<1>3. e.live /\ (e.connected <=> on)
  BY <1>1 DEF UdpBlock, UdpPeered
<1> HIDE DEF e
<1>4. UdpBlockOK(e)
  BY <1>2, <1>3 DEF UdpBlockOK
<1>5. UdpOK(l, [b EXCEPT ![c] = e])
  BY <1>2, <1>4, UdpPut
<1> QED
  BY <1>2, <1>5 DEF e

LEMMA UdpConnect ==
    ASSUME UdpInv, NEW c \in Pcbs, NEW ip \in Peers, udp_connect(c, ip, PeerPort)
    PROVE  UdpInv' /\ UdpApart
<1> DEFINE s == AutoBound(c)
           t == [s EXCEPT !.pcb[c].remote_ip = ip, !.pcb[c].remote_port = PeerPort,
                          !.pcb[c].connected = TRUE]
<1>1. c \in Live /\ Bound(IF s.ok THEN t ELSE s)
  BY DEF udp_connect
<1>2. UdpBinds(c, s)
  BY <1>1, UdpAutoBound
<1>3. CASE ~s.ok
  BY <1>1, <1>2, <1>3, UdpBoundStep
<1>4. CASE s.ok
  <2>1. s = [ok |-> s.ok, pcb |-> s.pcb, list |-> s.list, port |-> s.port]
    BY DEF AutoBound, udp_bind
  <2>2. Bound(t)
    BY <1>1, <1>4
  <2> HIDE DEF s
  <2>3. s.pcb \in [Pcbs -> UdpBlock] /\ s.pcb[c] \in UdpBlock
    BY <1>2 DEF UdpBinds, UdpOK
  <2>0. PICK on \in BOOLEAN : on = TRUE
    BY Zenon
  <2> DEFINE e == UdpPeered(s.pcb[c], ip, PeerPort, on)
  <2>4. t.pcb = [s.pcb EXCEPT ![c] = e] /\ t.list = s.list /\ t.port = s.port
    BY <2>0, <2>1, <2>3 DEF UdpBlock, UdpPeered
  <2>5. /\ UdpOK(s.list, [s.pcb EXCEPT ![c] = e])
        /\ e.local_port = s.pcb[c].local_port /\ e.local_ip = s.pcb[c].local_ip
    <3>1. UdpOK(s.list, s.pcb) /\ s.pcb[c].live /\ s.pcb[c].local_port # 0
      BY <1>2, <1>4 DEF UdpBinds
    <3>2. ip \in Peers \cup {AnyIp} /\ PeerPort \in {0, PeerPort} /\ on \in BOOLEAN
      OBVIOUS
    <3>3. (on => s.pcb[c].local_port # 0) /\ (~on => PeerPort = 0)
      BY <2>0, <3>1
    <3> QED
      BY <3>1, <3>2, <3>3, UdpPeer
  <2> HIDE DEF e, t
  <2>6. t.pcb[c] = e /\ \A b \in Pcbs \ {c} : t.pcb[b] = s.pcb[b]
    BY <2>3, <2>4
  <2>7. /\ \A b \in Pcbs \ {c} : t.pcb[b] = pcb[b]
        /\ \/ t.pcb[c].local_port = pcb[c].local_port /\ t.pcb[c].local_ip = pcb[c].local_ip
           \/ \A b \in Pcbs \ {c} :
                 pcb[b].local_port = t.pcb[c].local_port => pcb[b].local_ip # t.pcb[c].local_ip
    BY <1>2, <2>5, <2>6 DEF UdpBinds
  <2>8. pcb' = t.pcb /\ udp_pcbs' = t.list /\ udp_port' = t.port /\ addr' = addr
    BY <2>2 DEF Bound
  <2>9. UdpInv'
    BY <1>2, <2>4, <2>5, <2>8 DEF UdpInv, UdpBinds
  <2>10. Twins' \subseteq Twins
    <3>1. pcb[c].live
      BY <1>1 DEF Live
    <3> QED
      BY <2>7, <2>8, <3>1, UdpAlone
  <2> QED
    BY <2>9, <2>10 DEF UdpApart
<1> QED
  BY <1>3, <1>4

LEMMA UdpDisconnect ==
    ASSUME UdpInv, NEW c \in Pcbs, udp_disconnect(c)
    PROVE  UdpInv' /\ UdpApart
<1>0. PICK on \in BOOLEAN : on = FALSE
  BY Zenon
<1> DEFINE e == UdpPeered(pcb[c], AnyIp, 0, on)
<1>1. UdpOK(udp_pcbs, pcb) /\ pcb[c].live /\ pcb \in [Pcbs -> UdpBlock] /\ pcb[c] \in UdpBlock
  BY DEF UdpInv, UdpOK, udp_disconnect, Live
<1>2. pcb' = [pcb EXCEPT ![c] = e] /\ UNCHANGED <<udp_pcbs, udp_port, addr>>
  BY <1>0, <1>1 DEF udp_disconnect, UdpBlock, UdpPeered
<1>3. /\ UdpOK(udp_pcbs, [pcb EXCEPT ![c] = e])
      /\ e.local_port = pcb[c].local_port /\ e.local_ip = pcb[c].local_ip
  <2>1. PICK ip \in Peers \cup {AnyIp}, port \in {0, PeerPort} : ip = AnyIp /\ port = 0
    OBVIOUS
  <2>2. (on => pcb[c].local_port # 0) /\ (~on => port = 0)
    BY <1>0, <2>1
  <2> DEFINE d == UdpPeered(pcb[c], ip, port, on)
  <2>3. UdpOK(udp_pcbs, [pcb EXCEPT ![c] = d])
    BY <1>1, <2>2, UdpPeer
  <2>4. d.local_port = pcb[c].local_port /\ d.local_ip = pcb[c].local_ip
    BY <1>1 DEF UdpPeered, UdpBlock
  <2> QED
    BY <2>1, <2>3, <2>4
<1> HIDE DEF e
<1>4. UdpInv'
  BY <1>2, <1>3 DEF UdpInv
<1>5. pcb'[c] = e /\ \A b \in Pcbs \ {c} : pcb'[b] = pcb[b]
  BY <1>1, <1>2
<1>6. Twins' \subseteq Twins
  BY <1>1, <1>3, <1>5, UdpAlone
<1> QED
  BY <1>4, <1>6 DEF UdpApart

LEMMA UdpRemove ==
    ASSUME UdpInv, NEW c \in Pcbs, udp_remove(c)
    PROVE  UdpInv' /\ UdpApart
<1>1. UdpOK(udp_pcbs, pcb) /\ pcb \in [Pcbs -> UdpBlock] /\ Freed.local_port = 0
  BY DEF UdpInv, UdpOK, Freed
<1>2. pcb' = [pcb EXCEPT ![c] = Freed] /\ udp_pcbs' = Unlinked(c) /\ UNCHANGED <<udp_port, addr>>
  BY DEF udp_remove
<1>3. UdpInv'
  BY <1>1, <1>2, UdpGone DEF UdpInv
<1>4. pcb'[c].local_port = 0 /\ \A b \in Pcbs \ {c} : pcb'[b] = pcb[b]
  BY <1>1, <1>2
<1> QED
  BY <1>3, <1>4, UdpAlone DEF UdpApart

\* The blocks follow the interface's address.
LEMMA UdpFollow ==
    ASSUME UdpInv, NEW new \in Locals \cup {AnyIp}, netif_set_ipaddr(new)
    PROVE  UdpInv' /\ UdpApart
<1> DEFINE moves(b) == addr # AnyIp /\ new # AnyIp /\ pcb[b].local_ip = addr /\ Contains(udp_pcbs, b)
<1>1. /\ new # addr /\ addr' = new /\ UNCHANGED <<udp_pcbs, udp_port>>
      /\ pcb' = [b \in Pcbs |-> IF moves(b) THEN [pcb[b] EXCEPT !.local_ip = new] ELSE pcb[b]]
  BY DEF netif_set_ipaddr, udp_netif_ip_addr_changed
<1>2. /\ UdpOK(udp_pcbs, pcb) /\ pcb \in [Pcbs -> UdpBlock]
      /\ \A b \in Pcbs : pcb[b] \in UdpBlock /\ UdpBlockOK(pcb[b])
  BY DEF UdpInv, UdpOK
<1>3. \A b \in Pcbs : moves(b) => pcb[b].local_ip = addr
  OBVIOUS
<1> HIDE DEF moves
<1>4. \A b \in Pcbs :
          /\ pcb'[b] \in UdpBlock /\ pcb'[b].local_port = pcb[b].local_port
          /\ pcb'[b].remote_port = pcb[b].remote_port
          /\ pcb'[b].local_ip = pcb[b].local_ip \/ (moves(b) /\ pcb'[b].local_ip = new)
  BY <1>1, <1>2 DEF UdpBlock
<1>5. \A b \in Pcbs : (pcb'[b].live <=> pcb[b].live) /\ (pcb'[b].connected <=> pcb[b].connected)
  BY <1>1, <1>2 DEF UdpBlock
<1>6. \A b \in Pcbs : moves(b) => pcb'[b].local_ip = new
  BY <1>1, <1>2 DEF UdpBlock
<1>7. pcb' \in [Pcbs -> UdpBlock]
  BY <1>1, <1>2 DEF UdpBlock
<1>8. \A b \in Pcbs : UdpBlockOK(pcb'[b])
  BY <1>2, <1>4, <1>5 DEF UdpBlockOK
<1>9. UdpInv'
  BY <1>1, <1>2, <1>4, <1>7, <1>8 DEF UdpInv, UdpOK
<1>10. UdpApart
  <2> SUFFICES ASSUME \A b \in Live : pcb[b].local_ip # new, NEW t \in Twins'
               PROVE  t \in Twins
    BY <1>1 DEF UdpApart
  <2>1. /\ t \in (Pcbs \X Pcbs) /\ t[1] # t[2]
        /\ pcb'[t[1]].live /\ pcb'[t[2]].live
        /\ pcb'[t[1]].local_port = pcb'[t[2]].local_port /\ pcb'[t[1]].local_port # 0
        /\ pcb'[t[1]].local_ip = pcb'[t[2]].local_ip
    BY DEF Twins, Live
  <2> DEFINE a == t[1]
             d == t[2]
  <2>2. a \in Pcbs /\ d \in Pcbs /\ t = <<a, d>>
    BY <2>1
  <2>3. /\ a # d /\ pcb[a].live /\ pcb[d].live
        /\ pcb[a].local_port = pcb[d].local_port /\ pcb[a].local_port # 0
        /\ pcb'[a].local_ip = pcb'[d].local_ip
    BY <1>4, <1>5, <2>1, <2>2
  <2> HIDE DEF a, d
  <2>4. pcb[a].local_ip # new /\ pcb[d].local_ip # new
    BY <2>2, <2>3 DEF Live
  <2>5. pcb[a].local_ip = pcb[d].local_ip
    BY <1>3, <1>4, <2>2, <2>3, <2>4
  <2> QED
    BY <2>2, <2>3, <2>5 DEF Twins, Live
<1> QED
  BY <1>9, <1>10
-----------------------------------------------------------------------------
(* UDP: what comes in.                                                     *)

\* The place an element gets when the one at i is moved to the front.
UdpTo(i, k) == IF k = i THEN 1 ELSE IF k < i THEN k + 1 ELSE k

LEMMA UdpPlaces ==
    ASSUME NEW n \in Nat, NEW i \in 1..n
    PROVE  /\ \A k \in 1..n : UdpTo(i, k) \in 1..n
           /\ \A m \in 1..n : \E k \in 1..n : UdpTo(i, k) = m
           /\ \A k, j \in 1..n : UdpTo(i, k) = UdpTo(i, j) => k = j
           /\ \A k, j \in (1..n) \ {i} : k <= j => UdpTo(i, k) <= UdpTo(i, j)
<1>1. ASSUME NEW m \in 1..n
      PROVE  \E k \in 1..n : UdpTo(i, k) = m
  <2>1. CASE m = 1
    BY <2>1 DEF UdpTo
  <2>2. CASE m # 1 /\ m <= i
    <3>1. m - 1 \in 1..n /\ UdpTo(i, m - 1) = m
      BY <2>2 DEF UdpTo
    <3> QED
      BY <3>1
  <2>3. CASE m > i
    BY <2>3 DEF UdpTo
  <2> QED
    BY <2>1, <2>2, <2>3
<1> QED
  BY <1>1 DEF UdpTo

LEMMA UdpFront ==
    ASSUME NEW i \in 1..Len(udp_pcbs), udp_pcbs \in Seq(Pcbs)
    PROVE  LET w == MovedToFront(i)
           IN  /\ w \in Seq(Pcbs) /\ Len(w) = Len(udp_pcbs) /\ Len(udp_pcbs) \in Nat
               /\ \A k \in 1..Len(udp_pcbs) : w[UdpTo(i, k)] = udp_pcbs[k]
<1> DEFINE l == udp_pcbs
           n == Len(l)
           r == RemoveAt(l, i)
           w == MovedToFront(i)
<1>1. n \in Nat /\ l \in Seq(Pcbs) /\ l[i] \in Pcbs
  BY LenProperties, ElementOfSeq
<1>2. w = <<l[i]>> \o r
  BY DEF MovedToFront
<1> HIDE DEF l, w
<1>3. /\ r \in Seq(Pcbs) /\ Len(r) = n - 1
      /\ \A k \in 1..(i - 1) : r[k] = l[k]
      /\ \A k \in i..(n - 1) : r[k] = l[k + 1]
  <2>1. i \in 1..Len(l)
    BY DEF l
  <2> QED
    BY <1>1, <2>1, TakenOut
<1> HIDE DEF r
<1>4. /\ w \in Seq(Pcbs) /\ Len(w) = Len(r) + 1 /\ w[1] = l[i]
      /\ \A k \in 2..(Len(r) + 1) : w[k] = r[k - 1]
  BY <1>1, <1>2, <1>3, OneInFront
<1>5. i \in 1..n
  BY DEF l
<1> HIDE DEF n
<1>6. Len(w) = n
  BY <1>1, <1>3, <1>4
<1>7. ASSUME NEW k \in 1..n
      PROVE  w[UdpTo(i, k)] = l[k]
  <2>1. CASE k = i
    BY <1>4, <2>1 DEF UdpTo
  <2>2. CASE k < i
    <3>1. k + 1 \in 2..(Len(r) + 1) /\ (k + 1) - 1 = k /\ k \in 1..(i - 1) /\ UdpTo(i, k) = k + 1
      BY <1>1, <1>3, <1>5, <2>2 DEF UdpTo
    <3>2. w[k + 1] = r[(k + 1) - 1]
      BY <1>4, <3>1
    <3> QED
      BY <1>3, <3>1, <3>2
  <2>3. CASE k > i
    <3>1. k \in 2..(Len(r) + 1) /\ k - 1 \in i..(n - 1) /\ (k - 1) + 1 = k /\ UdpTo(i, k) = k
      BY <1>1, <1>3, <1>5, <2>3 DEF UdpTo
    <3>2. w[k] = r[k - 1] /\ r[k - 1] = l[(k - 1) + 1]
      BY <1>3, <1>4, <3>1
    <3> QED
      BY <3>1, <3>2
  <2> QED
    BY <1>1, <1>5, <2>1, <2>2, <2>3
<1> QED
  BY <1>1, <1>4, <1>6, <1>7 DEF w, n, l

\* The block at the first of some places.
UdpFirstAt(l, S) == {l[j] : j \in {k \in S : k = First(S)}}

\* The places of a set after the move.
UdpMovedTo(n, i, S) == {m \in 1..n : \E k \in S : UdpTo(i, k) = m}

LEMMA UdpSameFirst ==
    ASSUME NEW n \in Nat, NEW i \in 1..n, NEW l, NEW w,
           \A k \in 1..n : w[UdpTo(i, k)] = l[k], NEW S \in SUBSET (1..n),
           i \notin S \/ \A k, j \in S : k = j
    PROVE  UdpFirstAt(w, UdpMovedTo(n, i, S)) = UdpFirstAt(l, S)
<1> DEFINE T == {m \in 1..n : \E k \in S : UdpTo(i, k) = m}
           k1 == First(S)
           m1 == First(T)
<1> SUFFICES UdpFirstAt(w, T) = UdpFirstAt(l, S)
  BY DEF UdpMovedTo
<1>1. S \subseteq Nat /\ T \subseteq Nat
  OBVIOUS
<1>2. CASE S = {}
  <2>1. T = {}
    BY <1>2
  <2> QED
    BY <1>2, <2>1 DEF UdpFirstAt
<1>3. CASE S # {}
  <2>1. k1 \in S /\ \A j \in S : k1 <= j
    BY <1>1, <1>3, UdpFirst
  <2> HIDE DEF k1
  <2>2. UdpTo(i, k1) \in T
    BY <2>1, UdpPlaces
  <2>3. \A m \in T : UdpTo(i, k1) <= m
    <3> SUFFICES ASSUME NEW j \in S, UdpTo(i, j) \in 1..n
                 PROVE  UdpTo(i, k1) <= UdpTo(i, j)
      BY <1>1
    <3>1. UdpTo(i, k1) \in 1..n
      BY <2>2
    <3>2. CASE j = k1
      BY <3>1, <3>2
    <3>3. CASE j # k1
      <4>1. i \notin S
        BY <2>1, <3>3
      <4>2. k1 <= j /\ k1 \in (1..n) \ {i} /\ j \in (1..n) \ {i}
        BY <2>1, <4>1
      <4> QED
        BY <4>2, UdpPlaces
    <3> QED
      BY <3>2, <3>3
  <2>4. m1 \in T /\ \A m \in T : m1 <= m
    <3>1. T # {}
      BY <2>2
    <3> HIDE DEF T
    <3> QED
      BY <1>1, <3>1, UdpFirst
  <2> HIDE DEF m1
  <2>5. m1 = UdpTo(i, k1)
    <3>1. m1 <= UdpTo(i, k1) /\ UdpTo(i, k1) <= m1 /\ m1 \in Nat /\ UdpTo(i, k1) \in Nat
      BY <1>1, <2>2, <2>3, <2>4
    <3> QED
      BY <3>1
  <2>6. w[m1] = l[k1]
    BY <2>1, <2>5
  <2>7. UdpFirstAt(w, T) = {w[m1]}
    <3> HIDE DEF T
    <3> QED
      BY <2>4 DEF UdpFirstAt, m1
  <2>8. UdpFirstAt(l, S) = {l[k1]}
    BY <2>1 DEF UdpFirstAt, k1
  <2> QED
    BY <2>6, <2>7, <2>8
<1> QED
  BY <1>2, <1>3

\* A block that a datagram moves to the front.
LEMMA UdpFound ==
    ASSUME UdpInv, NEW g, FullAt(g) # {}
    PROVE  LET i == First(FullAt(g))
           IN  i \in 1..Len(udp_pcbs) /\ i \in FullAt(g) /\ FullMatch(udp_pcbs[i], g)
<1>1. udp_pcbs \in Seq(Pcbs)
  BY DEF UdpInv, UdpOK
<1>2. FullAt(g) \subseteq 1..Len(udp_pcbs) /\ \A i \in FullAt(g) : FullMatch(udp_pcbs[i], g)
  BY <1>1 DEF FullAt
<1>3. 1..Len(udp_pcbs) \subseteq Nat
  BY <1>1, LenProperties
<1>4. First(FullAt(g)) \in FullAt(g)
  BY <1>2, <1>3, UdpFirst
<1> QED
  BY <1>2, <1>4

LEMMA UdpInput ==
    ASSUME UdpInv, NEW g \in Datagrams, udp_input(g)
    PROVE  UdpInv' /\ UdpApart
<1>1. pcb' = pcb /\ udp_port' = udp_port /\ addr' = addr
  BY DEF udp_input
<1>2. Twins' \subseteq Twins
  BY <1>1 DEF Twins, Live
<1>3. CASE FullAt(g) = {}
  BY <1>1, <1>2, <1>3 DEF udp_input, UdpInv, UdpApart
<1>4. CASE FullAt(g) # {}
  <2> DEFINE i == First(FullAt(g))
             n == Len(udp_pcbs)
             w == MovedToFront(i)
  <2>1. udp_pcbs' = w
    BY <1>4 DEF udp_input
  <2>2. i \in 1..n /\ udp_pcbs \in Seq(Pcbs)
    BY <1>4, UdpFound DEF UdpInv, UdpOK
  <2> HIDE DEF i
  <2>3. w \in Seq(Pcbs) /\ Len(w) = n /\ n \in Nat /\ \A k \in 1..n : w[UdpTo(i, k)] = udp_pcbs[k]
    BY <2>2, UdpFront
  <2> HIDE DEF w
  <2>0. /\ \A k \in 1..n : UdpTo(i, k) \in 1..n
        /\ \A m \in 1..n : \E k \in 1..n : UdpTo(i, k) = m
    <3>1. n \in Nat
      BY <2>3
    <3>2. i \in 1..n
      BY <2>2
    <3> HIDE DEF n
    <3>3. \A k \in 1..n : UdpTo(i, k) \in 1..n
      BY <3>1, <3>2, UdpPlaces
    <3>4. \A m \in 1..n : \E k \in 1..n : UdpTo(i, k) = m
      BY ONLY <3>1, <3>2, UdpPlaces
    <3> QED
      BY <3>3, <3>4
  <2>4. \A k, j \in 1..n : w[k] = w[j] => k = j
    <3> SUFFICES ASSUME NEW k \in 1..n, NEW j \in 1..n, w[k] = w[j]
                 PROVE  k = j
      OBVIOUS
    <3>1. PICK a \in 1..n : UdpTo(i, a) = k
      BY <2>0
    <3>2. PICK b \in 1..n : UdpTo(i, b) = j
      BY <2>0
    <3>3. udp_pcbs[a] = udp_pcbs[b]
      BY <2>3, <3>1, <3>2
    <3>4. a = b
      BY <3>3 DEF UdpInv, UdpOK
    <3> QED
      BY <3>1, <3>2, <3>4
  <2>5. \A c \in Pcbs : (\E k \in 1..n : w[k] = c) <=> \E k \in 1..n : udp_pcbs[k] = c
    <3>1. ASSUME NEW c \in Pcbs, NEW k \in 1..n, w[k] = c
          PROVE  \E j \in 1..n : udp_pcbs[j] = c
      <4>1. PICK a \in 1..n : UdpTo(i, a) = k
        BY <2>0
      <4> QED
        BY <2>3, <3>1, <4>1
    <3>2. ASSUME NEW c \in Pcbs, NEW k \in 1..n, udp_pcbs[k] = c
          PROVE  \E j \in 1..n : w[j] = c
      <4>1. UdpTo(i, k) \in 1..n
        BY <2>0
      <4> QED
        BY <2>3, <3>2, <4>1
    <3> QED
      BY <3>1, <3>2
  <2>6. UdpOK(w, pcb)
    BY <2>3, <2>4, <2>5 DEF UdpInv, UdpOK
  <2> QED
    BY <1>1, <1>2, <2>1, <2>6 DEF UdpInv, UdpApart
<1> QED
  BY <1>3, <1>4
\* The places of the blocks that match are moved with them.
LEMMA UdpMoved ==
    ASSUME UdpInv, NEW g \in Datagrams, udp_input(g), FullAt(g) # {}, NEW d \in Datagrams
    PROVE  LET i == First(FullAt(g))
               n == Len(udp_pcbs)
           IN  /\ FullAt(d)' = UdpMovedTo(n, i, FullAt(d))
               /\ UnconnectedAt(d)' = UdpMovedTo(n, i, UnconnectedAt(d))
               /\ \A k \in 1..n : udp_pcbs'[UdpTo(i, k)] = udp_pcbs[k]
<1> DEFINE i == First(FullAt(g))
           n == Len(udp_pcbs)
           w == MovedToFront(i)
<1>1. pcb' = pcb /\ addr' = addr /\ udp_pcbs' = w
  BY DEF udp_input
<1>2. i \in 1..n /\ udp_pcbs \in Seq(Pcbs)
  BY UdpFound DEF UdpInv, UdpOK
<1> HIDE DEF i
<1>3. w \in Seq(Pcbs) /\ Len(w) = n /\ n \in Nat /\ \A k \in 1..n : w[UdpTo(i, k)] = udp_pcbs[k]
  BY <1>2, UdpFront
<1> HIDE DEF w
<1>4. DOMAIN udp_pcbs' = 1..n /\ DOMAIN udp_pcbs = 1..n
  BY <1>1, <1>2, <1>3
<1>5. /\ \A k \in 1..n : UdpTo(i, k) \in 1..n
      /\ \A m \in 1..n : \E k \in 1..n : UdpTo(i, k) = m
  <2>1. n \in Nat
    BY <1>3
  <2>2. i \in 1..n
    BY <1>2
  <2> HIDE DEF n
  <2>3. \A k \in 1..n : UdpTo(i, k) \in 1..n
    BY <2>1, <2>2, UdpPlaces
  <2>4. \A m \in 1..n : \E k \in 1..n : UdpTo(i, k) = m
    BY ONLY <2>1, <2>2, UdpPlaces
  <2> QED
    BY <2>3, <2>4
<1>6. \A c : LocalMatch(c, d)' <=> LocalMatch(c, d)
  BY <1>1 DEF LocalMatch, udp_input_local_match, Broadcast
<1>7. \A c : FullMatch(c, d)' <=> FullMatch(c, d)
  BY <1>1, <1>6 DEF FullMatch
<1>8. FullAt(d)' = {m \in 1..n : FullMatch(w[m], d)}
  <2>1. FullAt(d)' = {m \in DOMAIN udp_pcbs' : FullMatch(udp_pcbs[m], d)'}
    BY DEF FullAt
  <2>2. \A m : FullMatch(udp_pcbs[m], d)' <=> FullMatch(w[m], d)
    BY <1>1, <1>6 DEF FullMatch, LocalMatch, udp_input_local_match, Broadcast
  <2> QED
    BY <1>4, <2>1, <2>2
<1>9. UnconnectedAt(d)' = {m \in 1..n : ~pcb[w[m]].connected /\ LocalMatch(w[m], d)}
  <2>1. UnconnectedAt(d)' =
           {m \in DOMAIN udp_pcbs' : ~pcb'[udp_pcbs'[m]].connected /\ LocalMatch(udp_pcbs[m], d)'}
    BY DEF UnconnectedAt
  <2>2. \A m : LocalMatch(udp_pcbs[m], d)' <=> LocalMatch(w[m], d)
    BY <1>1 DEF LocalMatch, udp_input_local_match, Broadcast
  <2> QED
    BY <1>1, <1>4, <2>1, <2>2
<1>10. FullAt(d) = {m \in 1..n : FullMatch(udp_pcbs[m], d)}
  BY <1>4 DEF FullAt
<1>11. UnconnectedAt(d) = {m \in 1..n : ~pcb[udp_pcbs[m]].connected /\ LocalMatch(udp_pcbs[m], d)}
  BY <1>4 DEF UnconnectedAt
<1>12. {m \in 1..n : FullMatch(w[m], d)} = {m \in 1..n : \E k \in FullAt(d) : UdpTo(i, k) = m}
  BY <1>3, <1>5, <1>10
<1>13. {m \in 1..n : ~pcb[w[m]].connected /\ LocalMatch(w[m], d)}
           = {m \in 1..n : \E k \in UnconnectedAt(d) : UdpTo(i, k) = m}
  BY <1>3, <1>5, <1>11
<1> QED
  BY <1>1, <1>3, <1>8, <1>9, <1>12, <1>13 DEF i, UdpMovedTo

\* Moving a block to the front changes nothing about who gets what one block at most
\* matches in full: the block is connected, and the others stay in their order.
LEMMA UdpKeepsReceiver ==
    ASSUME UdpInv, NEW g \in Datagrams, g.src # 0, udp_input(g), NEW d \in Datagrams,
           \A k, j \in FullAt(d) : k = j
    PROVE  Receiver(d)' = Receiver(d)
<1>1. CASE FullAt(g) = {}
  <2>1. UNCHANGED <<udp_pcbs, pcb, addr>>
    BY <1>1 DEF udp_input
  <2> QED
    BY <2>1 DEF Receiver, FullAt, UnconnectedAt, FullMatch, LocalMatch, udp_input_local_match, Broadcast
<1>2. CASE FullAt(g) # {}
  <2> DEFINE i == First(FullAt(g))
             n == Len(udp_pcbs)
             F == FullAt(d)
             U == UnconnectedAt(d)
             T(S) == UdpMovedTo(n, i, S)
  <2>1. /\ FullAt(d)' = T(F) /\ UnconnectedAt(d)' = T(U)
        /\ \A k \in 1..n : udp_pcbs'[UdpTo(i, k)] = udp_pcbs[k]
    BY <1>2, UdpMoved
  <2>2. i \in 1..n /\ FullMatch(udp_pcbs[i], g) /\ udp_pcbs \in Seq(Pcbs) /\ n \in Nat
    BY <1>2, UdpFound, LenProperties DEF UdpInv, UdpOK
  <2> HIDE DEF i
  <2>3. F \subseteq 1..n /\ U \subseteq 1..n
    BY <2>2 DEF FullAt, UnconnectedAt
  <2>4. i \notin U
    <3>1. udp_pcbs[i] \in Pcbs
      BY <2>2, ElementOfSeq
    <3>2. pcb[udp_pcbs[i]].remote_port = g.src
      BY <2>2 DEF FullMatch
    <3>3. pcb[udp_pcbs[i]].connected
      BY <3>1, <3>2 DEF UdpInv, UdpOK, UdpBlockOK
    <3> QED
      BY <3>3 DEF UnconnectedAt
  <2>5. Receiver(d) = IF F # {} THEN UdpFirstAt(udp_pcbs, F) ELSE UdpFirstAt(udp_pcbs, U)
    BY DEF Receiver, UdpFirstAt
  <2>6. Receiver(d)' = IF T(F) # {} THEN UdpFirstAt(udp_pcbs', T(F))
                       ELSE UdpFirstAt(udp_pcbs', T(U))
    <3>1. Receiver(d)' = IF FullAt(d)' # {} THEN UdpFirstAt(udp_pcbs', FullAt(d)')
                         ELSE UdpFirstAt(udp_pcbs', UnconnectedAt(d)')
      BY DEF Receiver, UdpFirstAt
    <3> QED
      BY <2>1, <3>1
  <2> HIDE DEF F, U
  <2>7. T(F) = {} <=> F = {}
    <3>1. \A k \in F : UdpTo(i, k) \in 1..n
      <4> HIDE DEF n
      <4> QED
        BY <2>2, <2>3, UdpPlaces
    <3> QED
      BY <2>3, <3>1 DEF UdpMovedTo
  <2> DEFINE w == udp_pcbs'
             l == udp_pcbs
  <2>8. /\ n \in Nat
        /\ i \in 1..n
        /\ \A k \in 1..n : w[UdpTo(i, k)] = l[k]
    BY <2>1, <2>2
  <2> HIDE DEF n, w, l
  <2>9. \A Q \in SUBSET (1..n) : (i \notin Q \/ \A k, j \in Q : k = j) =>
            UdpFirstAt(w, T(Q)) = UdpFirstAt(l, Q)
    <3> SUFFICES ASSUME NEW Q \in SUBSET (1..n), i \notin Q \/ \A k, j \in Q : k = j
                 PROVE  UdpFirstAt(w, UdpMovedTo(n, i, Q)) = UdpFirstAt(l, Q)
      OBVIOUS
    <3>1. n \in Nat
      BY <2>8
    <3>2. i \in 1..n
      BY <2>8
    <3>3. \A k \in 1..n : w[UdpTo(i, k)] = l[k]
      BY <2>8
    <3> HIDE DEF T
    <3> QED
      BY <3>1, <3>2, <3>3, UdpSameFirst
  <2>10. UdpFirstAt(w, T(U)) = UdpFirstAt(l, U)
    BY <2>3, <2>4, <2>9
  <2>11. UdpFirstAt(w, T(F)) = UdpFirstAt(l, F)
    <3>1. \A k, j \in F : k = j
      BY DEF F
    <3> QED
      BY <2>3, <2>9, <3>1
  <2> QED
    BY <2>5, <2>6, <2>7, <2>10, <2>11 DEF w, l
<1> QED
  BY <1>1, <1>2

-----------------------------------------------------------------------------
(* UDP: the theorems.                                                      *)

LEMMA UdpInit ==
    ASSUME MCInit
    PROVE  UdpInv
<1>1. udp_pcbs = <<>> /\ pcb = [c \in Pcbs |-> Freed] /\ udp_port \in {1, PortEnd} /\ addr \in Locals \cup {AnyIp}
  BY DEF MCInit, Init
<1>2. Freed \in UdpBlock /\ UdpBlockOK(Freed) /\ Freed.local_port = 0
  BY DEF Freed, UdpBlock, UdpBlockOK
<1>3. pcb \in [Pcbs -> UdpBlock] /\ \A c \in Pcbs : pcb[c] = Freed
  BY <1>1, <1>2
<1>4. udp_port \in Ports
  BY <1>1, UdpAssumption DEF Ports
<1>5. udp_pcbs \in Seq(Pcbs) /\ Len(udp_pcbs) = 0
  BY <1>1
<1>6. UdpOK(udp_pcbs, pcb)
  BY <1>2, <1>3, <1>5 DEF UdpOK
<1> QED
  BY <1>1, <1>4, <1>6 DEF UdpInv

LEMMA UdpSame ==
    ASSUME UdpInv, UNCHANGED vars
    PROVE  UdpInv' /\ UdpApart
<1>1. UNCHANGED <<udp_pcbs, pcb, udp_port, addr>>
  BY DEF vars
<1> QED
  BY <1>1 DEF UdpInv, UdpApart, Twins, Live

LEMMA UdpStep ==
    ASSUME UdpInv, [MCNext]_allVars
    PROVE  UdpInv' /\ UdpApart
<1>1. CASE UNCHANGED vars
  BY <1>1, UdpSame
<1>2. CASE Next
  <2>1. CASE \E c \in Pcbs : \E ip \in Locals \cup {AnyIp}, port \in Ports \cup {0} : Bind(c, ip, port)
    <3>1. PICK c \in Pcbs : \E ip \in Locals \cup {AnyIp}, port \in Ports \cup {0} : Bind(c, ip, port)
      BY <2>1
    <3>2. PICK ip \in Locals \cup {AnyIp} : \E port \in Ports \cup {0} : Bind(c, ip, port)
      BY <3>1
    <3>3. PICK port \in Ports \cup {0} : Bind(c, ip, port)
      BY <3>2
    <3> DEFINE s == udp_bind(c, ip, port)
    <3>4. c \in Live /\ Bound(s)
      BY <3>3 DEF Bind
    <3>5. UdpBinds(c, s)
      BY <3>4, UdpBound
    <3> HIDE DEF s
    <3> QED
      BY <3>4, <3>5, UdpBoundStep
  <2>2. CASE \E c \in Pcbs : udp_sendto(c)
    <3>1. PICK c \in Pcbs : udp_sendto(c)
      BY <2>2
    <3> DEFINE s == AutoBound(c)
    <3>2. c \in Live /\ Bound(s)
      BY <3>1 DEF udp_sendto
    <3>3. UdpBinds(c, s)
      BY <3>2, UdpAutoBound
    <3> HIDE DEF s
    <3> QED
      BY <3>2, <3>3, UdpBoundStep
  <2>3. CASE \E c \in Pcbs : udp_new(c)
    BY <2>3, UdpNew
  <2>4. CASE \E c \in Pcbs : \E ip \in Peers : udp_connect(c, ip, PeerPort)
    BY <2>4, UdpConnect
  <2>5. CASE \E c \in Pcbs : udp_disconnect(c)
    BY <2>5, UdpDisconnect
  <2>6. CASE \E c \in Pcbs : udp_remove(c)
    BY <2>6, UdpRemove
  <2>7. CASE \E d \in Datagrams : udp_input(d)
    BY <2>7, UdpInput
  <2>8. CASE \E new \in Locals \cup {AnyIp} : netif_set_ipaddr(new)
    BY <2>8, UdpFollow
  <2> QED
    BY <1>2, <2>1, <2>2, <2>3, <2>4, <2>5, <2>6, <2>7, <2>8 DEF Next
<1> QED
  BY <1>1, <1>2 DEF MCNext, allVars

LEMMA UdpAlways == MCSpec => []UdpInv
<1>1. MCInit => UdpInv
  BY UdpInit
<1>2. UdpInv /\ [MCNext]_allVars => UdpInv'
  BY UdpStep
<1> QED
  BY <1>1, <1>2, PTL DEF MCSpec

\* A bind to port 0 takes a port that no block has, unless all are taken.
LEMMA UdpAutomatic ==
    ASSUME UdpInv
    PROVE  AutomaticPortFree
<1> SUFFICES ASSUME NEW c \in Live
             PROVE  LET s == udp_bind(c, pcb[c].local_ip, 0)
                    IN  IF Ports \subseteq Taken THEN ~s.ok /\ s.pcb = pcb
                        ELSE s.ok /\ s.pcb[c].local_port \in Ports \ Taken
  BY DEF AutomaticPortFree
<1> DEFINE ip == pcb[c].local_ip
           s == udp_bind(c, ip, 0)
           p == udp_new_port.port
<1>1. c \in Pcbs /\ pcb \in [Pcbs -> UdpBlock] /\ udp_port \in Ports /\ 0 \notin Ports
  BY DEF UdpInv, UdpOK, Live, Ports
<1>2. \/ Ports \subseteq Taken /\ p = 0
      \/ p \in Ports \ Taken
  BY <1>1, UdpPort
<1> HIDE DEF p
<1>3. /\ s.ok <=> p # 0
      /\ s.pcb = IF p # 0 THEN [pcb EXCEPT ![c].local_ip = ip, ![c].local_port = p] ELSE pcb
  BY DEF udp_bind, p
<1> HIDE DEF s
<1>4. CASE Ports \subseteq Taken
  BY <1>2, <1>3, <1>4 DEF s
<1>5. CASE ~(Ports \subseteq Taken)
  <2>1. p \in Ports \ Taken /\ p # 0
    BY <1>1, <1>2, <1>5
  <2>2. s.pcb[c].local_port = p
    BY <1>1, <1>3, <2>1 DEF UdpBlock
  <2> QED
    BY <1>3, <1>5, <2>1, <2>2 DEF s
<1> QED
  BY <1>4, <1>5

LEMMA UdpListed ==
    ASSUME UdpInv
    PROVE  ListIntact
<1>1. UdpOK(udp_pcbs, pcb) /\ udp_pcbs \in Seq(Pcbs) /\ DOMAIN udp_pcbs = 1..Len(udp_pcbs)
  BY DEF UdpInv, UdpOK
<1>2. \A c \in Pcbs : Contains(udp_pcbs, c) <=> pcb[c].local_port # 0
  BY <1>1 DEF UdpOK, Contains
<1>3. \A c \in Pcbs : UdpBlockOK(pcb[c])
  BY <1>1 DEF UdpOK
<1>4. \A i, j \in DOMAIN udp_pcbs : udp_pcbs[i] = udp_pcbs[j] => i = j
  BY <1>1 DEF UdpOK
<1>5. \A c \in Pcbs : Contains(udp_pcbs, c) <=> c \in Live /\ pcb[c].local_port # 0
  BY <1>2, <1>3 DEF UdpBlockOK, Live
<1>6. \A c \in Pcbs : pcb[c].connected => Contains(udp_pcbs, c)
  BY <1>2, <1>3 DEF UdpBlockOK
<1> QED
  BY <1>4, <1>5, <1>6 DEF ListIntact

\* Through any order of binds, connects, sends, removals, datagrams and changes of
\* address, the list of udp.c has each block with a port exactly once and no freed one,
\* and udp_new_port finds a free port whenever there is one: for any number of blocks,
\* ports, addresses and peers.
THEOREM UdpBlocksListed == MCSpec => []BlocksListed
<1>1. UdpInv => BlocksListed
  BY UdpListed, UdpAutomatic DEF BlocksListed
<1> QED
  BY <1>1, UdpAlways, PTL

\* Two blocks of udp.c come to share an address and a port only when the interface's
\* address changes onto one that a block has, and that udp_input moves a block to the
\* front of the list changes nothing about who gets a datagram that at most one block
\* matches in full.
THEOREM UdpBlocksFound == MCSpec => BlocksFound
<1> DEFINE Apart == Twins' \subseteq Twins \/ \E c \in Live : pcb[c].local_ip = addr' /\ addr' # addr
           Moves == (pcb' = pcb /\ udp_pcbs' # udp_pcbs /\ \E g \in Datagrams : g.src # 0 /\ udp_input(g)) =>
                       \A d \in Datagrams : (\A i, j \in FullAt(d) : i = j) => Receiver(d)' = Receiver(d)
<1>1. UdpInv /\ [MCNext]_allVars => [Apart]_vars
  BY UdpStep DEF UdpApart
<1>2. UdpInv /\ [MCNext]_allVars => [Moves]_vars
  <2> SUFFICES ASSUME UdpInv, NEW g \in Datagrams, g.src # 0, udp_input(g),
                      NEW d \in Datagrams, \A i, j \in FullAt(d) : i = j
               PROVE  Receiver(d)' = Receiver(d)
    OBVIOUS
  <2> QED
    BY UdpKeepsReceiver
<1>3. MCSpec => [][Apart]_vars
  BY <1>1, UdpAlways, PTL DEF MCSpec
<1>4. MCSpec => [][Moves]_vars
  BY <1>2, UdpAlways, PTL DEF MCSpec
<1> QED
  BY <1>3, <1>4 DEF BlocksFound, OwnersApart, MovingKeepsReceivers

-----------------------------------------------------------------------------
(* The interfaces: the list and what is kept of each.                      *)

NetifSlot == [addr : Ip6 \cup {NoAddr} \cup {N!LinkLocal(m) : m \in Netifs},
              state : {"invalid", "tentative", "valid"}]
NetifEntry == [ip : Ip4 \cup {NoAddr}, gw : Hosts4 \cup {NoAddr}, broadcast : BOOLEAN,
               up : BOOLEAN, link : BOOLEAN, ip6 : [N!Slots -> NetifSlot]]

\* The list has each interface once.
NetifListed(l) == l \in Seq(Netifs) /\ \A i, j \in 1..Len(l) : l[i] = l[j] => i = j
InList(l) == {l[i] : i \in 1..Len(l)}

NetifInv == /\ ver \in {4, 6}
            /\ NetifListed(netif_list)
            /\ nif \in [Netifs -> NetifEntry]
            /\ netif_default \in InList(netif_list) \cup {NoNetif}
            /\ routers \subseteq InList(netif_list)
            /\ \A m \in routers : nif[m].up

LEMMA NetifOnList ==
    ASSUME NetifInv
    PROVE  /\ N!Listed = InList(netif_list) /\ N!Listed \subseteq Netifs
           /\ DOMAIN netif_list = 1..Len(netif_list) /\ Len(netif_list) \in Nat
<1>1. netif_list \in Seq(Netifs)
  BY DEF NetifInv, NetifListed
<1>2. DOMAIN netif_list = 1..Len(netif_list) /\ Len(netif_list) \in Nat
  BY <1>1, LenProperties
<1>3. N!Listed = InList(netif_list)
  BY <1>2 DEF N!Listed, N!ToSet, InList
<1>4. InList(netif_list) \subseteq Netifs
  BY <1>1, ElementOfSeq DEF InList
<1> QED
  BY <1>2, <1>3, <1>4

LEMMA NetifLeast ==
    ASSUME NEW S, S \subseteq Nat, S # {}
    PROVE  N!Min(S) \in S /\ \A j \in S : N!Min(S) <= j
<1>1. \E m \in S : \A k \in S : m <= k
  BY LeastNumber
<1> QED
  BY <1>1 DEF N!Min

\* An interface comes in front.
LEMMA NetifPutFront ==
    ASSUME NEW l, NetifListed(l), NEW a \in Netifs, a \notin InList(l)
    PROVE  NetifListed(<<a>> \o l) /\ InList(<<a>> \o l) = InList(l) \cup {a}
<1> DEFINE w == <<a>> \o l
           n == Len(l)
<1>1. l \in Seq(Netifs) /\ n \in Nat
  BY LenProperties DEF NetifListed
<1>2. w \in Seq(Netifs) /\ Len(w) = n + 1 /\ w[1] = a /\ \A i \in 2..(n + 1) : w[i] = l[i - 1]
  BY <1>1, OneInFront
<1> HIDE DEF w
<1>3. \A i \in 1..n : l[i] # a
  BY DEF InList
<1>4. \A i, j \in 1..Len(w) : w[i] = w[j] => i = j
  <2> SUFFICES ASSUME NEW i \in 1..(n + 1), NEW j \in 1..(n + 1), w[i] = w[j]
               PROVE  i = j
    BY <1>2
  <2>1. CASE i = 1 \/ j = 1
    BY <1>1, <1>2, <1>3, <2>1
  <2>2. CASE i # 1 /\ j # 1
    <3>1. i - 1 \in 1..n /\ j - 1 \in 1..n /\ l[i - 1] = l[j - 1]
      BY <1>1, <1>2, <2>2
    <3>2. i - 1 = j - 1
      BY <3>1 DEF NetifListed
    <3> QED
      BY <1>1, <3>2
  <2> QED
    BY <2>1, <2>2
<1>5. InList(w) = InList(l) \cup {a}
  <2>1. ASSUME NEW i \in 1..Len(w) PROVE w[i] \in InList(l) \cup {a}
    <3>1. CASE i # 1
      <4>1. i - 1 \in 1..n
        BY <1>1, <1>2, <3>1
      <4> QED
        BY <1>2, <3>1, <4>1 DEF InList
    <3> QED
      BY <1>2, <3>1
  <2>2. ASSUME NEW i \in 1..n PROVE \E k \in 1..Len(w) : w[k] = l[i]
    <3>1. i + 1 \in 2..(n + 1) /\ i + 1 \in 1..(n + 1) /\ (i + 1) - 1 = i
      BY <1>1
    <3>2. w[i + 1] = l[i]
      BY <1>2, <3>1
    <3> QED
      BY <1>2, <3>1, <3>2
  <2>3. 1 \in 1..Len(w)
    BY <1>1, <1>2
  <2> QED
    BY <1>2, <2>1, <2>2, <2>3 DEF InList
<1> QED
  BY <1>2, <1>4, <1>5 DEF NetifListed, w

\* An interface goes.
LEMMA NetifTakenOut ==
    ASSUME NEW l, NetifListed(l), NEW i \in 1..Len(l)
    PROVE  NetifListed(N!RemoveAt(l, i)) /\ InList(N!RemoveAt(l, i)) = InList(l) \ {l[i]}
<1> DEFINE w == N!RemoveAt(l, i)
           n == Len(l)
<1>1. l \in Seq(Netifs)
  BY DEF NetifListed
<1>2. w = RemoveAt(l, i)
  BY DEF RemoveAt, N!RemoveAt
<1>3. /\ n \in Nat /\ w \in Seq(Netifs) /\ Len(w) = n - 1
      /\ \A k \in 1..(i - 1) : w[k] = l[k]
      /\ \A k \in i..(n - 1) : w[k] = l[k + 1]
  BY <1>1, <1>2, TakenOut
<1> HIDE DEF w
<1>4. \A k \in 1..(n - 1) : LET c == IF k < i THEN k ELSE k + 1
                            IN  c \in 1..n /\ c # i /\ w[k] = l[c]
  BY <1>3
<1>5. \A k, j \in 1..Len(w) : w[k] = w[j] => k = j
  <2> SUFFICES ASSUME NEW k \in 1..(n - 1), NEW j \in 1..(n - 1), w[k] = w[j]
               PROVE  k = j
    BY <1>3
  <2> DEFINE c == IF k < i THEN k ELSE k + 1
             d == IF j < i THEN j ELSE j + 1
  <2>1. c \in 1..n /\ d \in 1..n /\ l[c] = l[d]
    BY <1>4
  <2>2. c = d
    <3> HIDE DEF c, d
    <3> QED
      BY <2>1 DEF NetifListed
  <2> QED
    BY <1>3, <2>2
<1>6. InList(w) = InList(l) \ {l[i]}
  <2>1. ASSUME NEW k \in 1..(n - 1) PROVE w[k] \in InList(l) \ {l[i]}
    <3> DEFINE c == IF k < i THEN k ELSE k + 1
    <3>1. c \in 1..n /\ c # i /\ w[k] = l[c]
      BY <1>4
    <3> HIDE DEF c
    <3>2. l[c] # l[i]
      BY <3>1 DEF NetifListed
    <3> QED
      BY <3>1, <3>2 DEF InList
  <2>2. ASSUME NEW c \in 1..n, l[c] # l[i] PROVE \E k \in 1..(n - 1) : w[k] = l[c]
    <3>1. CASE c < i
      <4>1. c \in 1..(i - 1) /\ c \in 1..(n - 1)
        BY <1>3, <3>1
      <4> QED
        BY <1>3, <4>1
    <3>2. CASE c > i
      <4>1. c - 1 \in i..(n - 1) /\ c - 1 \in 1..(n - 1) /\ (c - 1) + 1 = c
        BY <1>3, <3>2
      <4>2. w[c - 1] = l[c]
        BY <1>3, <4>1
      <4> QED
        BY <4>1, <4>2
    <3>3. c # i
      BY <2>2
    <3> QED
      BY <1>3, <3>1, <3>2, <3>3
  <2>3. InList(w) = {w[k] : k \in 1..(n - 1)}
    BY <1>3 DEF InList
  <2>4. InList(w) \subseteq InList(l) \ {l[i]}
    BY <2>1, <2>3
  <2>5. ASSUME NEW z \in InList(l), z # l[i] PROVE z \in InList(w)
    <3>1. PICK c \in 1..n : z = l[c]
      BY DEF InList
    <3> QED
      BY <2>2, <2>3, <2>5, <3>1
  <2> QED
    BY <2>4, <2>5
<1> QED
  BY <1>3, <1>5, <1>6 DEF NetifListed, w

-----------------------------------------------------------------------------
(* The interfaces: the steps.                                              *)

\* A step that writes what is kept of one interface.
LEMMA NetifPut ==
    ASSUME NetifInv, NEW a \in Netifs, NEW e \in NetifEntry, nif' = [nif EXCEPT ![a] = e],
           UNCHANGED <<ver, netif_list, netif_default>>, routers' \subseteq routers,
           a \in routers' => e.up
    PROVE  NetifInv'
<1>1. nif' \in [Netifs -> NetifEntry] /\ nif'[a] = e /\ \A m \in Netifs \ {a} : nif'[m] = nif[m]
  BY DEF NetifInv
<1>2. InList(netif_list) \subseteq Netifs
  BY NetifOnList
<1>3. \A m \in routers' : nif'[m].up
  BY <1>1, <1>2 DEF NetifInv
<1> QED
  BY <1>1, <1>3 DEF NetifInv

LEMMA NetifEntryOf ==
    ASSUME NetifInv, NEW a \in N!Listed
    PROVE  a \in Netifs /\ nif[a] \in NetifEntry /\ nif \in [Netifs -> NetifEntry]
BY NetifOnList DEF NetifInv

LEMMA NetifClearedOK == N!Cleared \in NetifEntry
<1>1. N!Free \in NetifSlot
  BY DEF N!Free, NetifSlot
<1>2. [i \in N!Slots |-> N!Free] \in [N!Slots -> NetifSlot]
  BY <1>1
<1> QED
  BY <1>2 DEF N!Cleared, NetifEntry

LEMMA NetifAdd ==
    ASSUME NetifInv, NEW a \in Netifs, NEW ip \in Ip4 \cup {NoAddr}, NEW gw \in Hosts4 \cup {NoAddr},
           NEW broadcast \in BOOLEAN, NEW link \in BOOLEAN, NEW ok \in BOOLEAN,
           N!netif_add(a, ip, gw, broadcast, link, ok), ver' = ver
    PROVE  NetifInv'
<1>1. CASE ~ok
  <2>1. UNCHANGED <<ver, netif_list, netif_default, nif, routers>>
    BY <1>1 DEF N!netif_add
  <2> QED
    BY <2>1 DEF NetifInv
<1>2. CASE ok
  <2> DEFINE e == [N!Cleared EXCEPT !.ip = ip, !.gw = gw, !.broadcast = broadcast, !.link = link]
  <2>1. e \in NetifEntry
    BY NetifClearedOK DEF NetifEntry
  <2>2. /\ nif' = [nif EXCEPT ![a] = e] /\ netif_list' = <<a>> \o netif_list
        /\ a \notin N!Listed /\ UNCHANGED <<netif_default, routers>>
    BY <1>2 DEF N!netif_add
  <2> HIDE DEF e
  <2>3. nif' \in [Netifs -> NetifEntry]
    BY <2>1, <2>2 DEF NetifInv
  <2>4. NetifListed(netif_list') /\ InList(netif_list') = InList(netif_list) \cup {a}
    BY <2>2, NetifOnList, NetifPutFront DEF NetifInv
  <2>5. \A m \in routers : m # a /\ m \in Netifs
    BY <2>2, NetifOnList DEF NetifInv
  <2>6. \A m \in routers' : nif'[m].up
    BY <2>2, <2>5 DEF NetifInv
  <2> QED
    BY <2>2, <2>3, <2>4, <2>6 DEF NetifInv
<1> QED
  BY <1>1, <1>2

LEMMA NetifRemove ==
    ASSUME NetifInv, NEW a \in Netifs, N!netif_remove(a), ver' = ver
    PROVE  NetifInv'
<1> DEFINE S == {i \in DOMAIN netif_list : netif_list[i] = a}
           i == N!Min(S)
<1>1. /\ a \in N!Listed
      /\ routers' = IF nif[a].up THEN routers \ {a} ELSE routers
      /\ netif_default' = IF netif_default = a THEN NoNetif ELSE netif_default
      /\ netif_list' = N!RemoveAt(netif_list, i)
      /\ nif' = [nif EXCEPT ![a] = N!Cleared]
  BY DEF N!netif_remove, N!SetDown
<1>2. S # {} /\ S \subseteq Nat /\ S \subseteq 1..Len(netif_list)
  BY <1>1, NetifOnList DEF InList
<1>3. i \in S
  BY <1>2, NetifLeast
<1> HIDE DEF i
<1>4. i \in 1..Len(netif_list) /\ netif_list[i] = a
  BY <1>2, <1>3
<1>5. NetifListed(netif_list') /\ InList(netif_list') = InList(netif_list) \ {a}
  BY <1>1, <1>4, NetifTakenOut DEF NetifInv
<1>6. nif' \in [Netifs -> NetifEntry]
  BY <1>1, NetifClearedOK DEF NetifInv
<1>7. a \notin routers' /\ routers' \subseteq routers
  BY <1>1 DEF NetifInv
<1>8. \A m \in routers' : nif'[m].up
  BY <1>1, <1>7, NetifOnList DEF NetifInv
<1>9. netif_default' \in InList(netif_list') \cup {NoNetif}
  BY <1>1, <1>5 DEF NetifInv
<1> QED
  BY <1>5, <1>6, <1>7, <1>8, <1>9 DEF NetifInv

LEMMA NetifSetAddr ==
    ASSUME NetifInv, NEW a \in Netifs, NEW ip \in Ip4 \cup {NoAddr}, NEW gw \in Hosts4 \cup {NoAddr},
           N!netif_set_addr(a, ip, gw), ver' = ver
    PROVE  NetifInv'
<1> DEFINE e == [nif[a] EXCEPT !.ip = ip, !.gw = gw]
<1>1. nif \in [Netifs -> NetifEntry] /\ nif[a] \in NetifEntry
  BY DEF NetifInv
<1>2. e \in NetifEntry
  BY <1>1 DEF NetifEntry
<1>3. e.up <=> nif[a].up
  BY <1>1 DEF NetifEntry
<1>4. nif' = [nif EXCEPT ![a] = e] /\ UNCHANGED <<netif_list, netif_default, routers>>
  BY <1>1 DEF N!netif_set_addr, N!lists, NetifEntry
<1> HIDE DEF e
<1>5. a \in routers' => e.up
  BY <1>3, <1>4 DEF NetifInv
<1> QED
  BY <1>2, <1>4, <1>5, NetifPut

LEMMA NetifSetUp ==
    ASSUME NetifInv, NEW a \in Netifs, N!netif_set_up(a), ver' = ver
    PROVE  NetifInv'
<1> DEFINE e == [nif[a] EXCEPT !.up = TRUE]
<1>1. nif \in [Netifs -> NetifEntry] /\ nif[a] \in NetifEntry
  BY DEF NetifInv
<1>2. e \in NetifEntry
  BY <1>1 DEF NetifEntry
<1>3. e.up
  BY <1>1 DEF NetifEntry
<1>4. nif' = [nif EXCEPT ![a] = e] /\ UNCHANGED <<netif_list, netif_default, routers>>
  BY <1>1 DEF N!netif_set_up, N!lists
<1> HIDE DEF e
<1> QED
  BY <1>2, <1>3, <1>4, NetifPut

LEMMA NetifSetDown ==
    ASSUME NetifInv, NEW a \in Netifs, N!netif_set_down(a), ver' = ver
    PROVE  NetifInv'
<1> DEFINE e == [nif[a] EXCEPT !.up = FALSE]
<1>1. nif \in [Netifs -> NetifEntry] /\ nif[a] \in NetifEntry
  BY DEF NetifInv
<1>2. e \in NetifEntry
  BY <1>1 DEF NetifEntry
<1>3. /\ nif' = [nif EXCEPT ![a] = e] /\ UNCHANGED <<netif_list, netif_default>>
      /\ routers' = IF nif[a].up THEN routers \ {a} ELSE routers
  BY <1>1 DEF N!netif_set_down, N!lists, N!SetDown
<1> HIDE DEF e
<1>4. a \notin routers' /\ routers' \subseteq routers
  BY <1>3 DEF NetifInv
<1> QED
  BY <1>2, <1>3, <1>4, NetifPut

LEMMA NetifSetLink ==
    ASSUME NetifInv, NEW a \in Netifs, NEW link \in BOOLEAN, N!netif_set_link(a, link), ver' = ver
    PROVE  NetifInv'
<1> DEFINE e == [nif[a] EXCEPT !.link = link]
<1>1. nif \in [Netifs -> NetifEntry] /\ nif[a] \in NetifEntry
  BY DEF NetifInv
<1>2. e \in NetifEntry
  BY <1>1 DEF NetifEntry
<1>3. e.up <=> nif[a].up
  BY <1>1 DEF NetifEntry
<1>4. nif' = [nif EXCEPT ![a] = e] /\ UNCHANGED <<netif_list, netif_default, routers>>
  BY <1>1 DEF N!netif_set_link, N!lists
<1> HIDE DEF e
<1>5. a \in routers' => e.up
  BY <1>3, <1>4 DEF NetifInv
<1> QED
  BY <1>2, <1>4, <1>5, NetifPut

\* A slot of an interface is written.
LEMMA NetifPutSlot ==
    ASSUME NetifInv, NEW a \in Netifs, NEW k \in N!Slots, NEW r \in NetifSlot,
           nif' = [nif EXCEPT ![a] = [nif[a] EXCEPT !.ip6 = [nif[a].ip6 EXCEPT ![k] = r]]],
           UNCHANGED <<ver, netif_list, netif_default, routers>>
    PROVE  NetifInv'
<1> DEFINE g == [nif[a].ip6 EXCEPT ![k] = r]
           e == [nif[a] EXCEPT !.ip6 = g]
<1>1. nif[a] \in NetifEntry
  BY DEF NetifInv
<1>2. nif[a].ip6 \in [N!Slots -> NetifSlot]
  BY <1>1 DEF NetifEntry
<1>3. g \in [N!Slots -> NetifSlot]
  BY <1>2
<1> HIDE DEF g
<1>4. e \in NetifEntry
  BY <1>1, <1>3 DEF NetifEntry
<1>5. e.up <=> nif[a].up
  BY <1>1 DEF NetifEntry
<1>6. nif' = [nif EXCEPT ![a] = e]
  BY DEF g
<1> HIDE DEF e
<1>7. a \in routers' => e.up
  BY <1>5 DEF NetifInv
<1> QED
  BY <1>4, <1>6, <1>7, NetifPut

LEMMA NetifSlotOf ==
    ASSUME NetifInv, NEW a \in Netifs, NEW k \in N!Slots
    PROVE  /\ nif[a].ip6[k] \in NetifSlot
           /\ \A z \in {"invalid", "tentative", "valid"} : [nif[a].ip6[k] EXCEPT !.state = z] \in NetifSlot
           /\ \A z \in Ip6 : [nif[a].ip6[k] EXCEPT !.addr = z] \in NetifSlot
<1>1. nif[a] \in NetifEntry
  BY DEF NetifInv
<1>2. nif[a].ip6[k] \in NetifSlot
  BY <1>1 DEF NetifEntry
<1> HIDE DEF NetifInv
<1> QED
  BY <1>2 DEF NetifSlot

LEMMA NetifSetState ==
    ASSUME NetifInv, NEW a \in Netifs, NEW k \in N!Slots, NEW z \in {"invalid", "tentative", "valid"},
           N!netif_ip6_addr_set_state(a, k, z), ver' = ver
    PROVE  NetifInv'
<1> DEFINE r == [nif[a].ip6[k] EXCEPT !.state = z]
<1>1. r \in NetifSlot
  BY NetifSlotOf
<1>2. /\ nif' = [nif EXCEPT ![a] = [nif[a] EXCEPT !.ip6 = [nif[a].ip6 EXCEPT ![k] = r]]]
      /\ UNCHANGED <<netif_list, netif_default, routers>>
  BY DEF N!netif_ip6_addr_set_state, N!lists
<1> HIDE DEF r
<1> QED
  BY <1>1, <1>2, NetifPutSlot

LEMMA NetifSetSlot ==
    ASSUME NetifInv, NEW a \in Netifs, NEW k \in N!Slots, NEW z \in Ip6,
           N!netif_ip6_addr_set(a, k, z), ver' = ver
    PROVE  NetifInv'
<1> DEFINE r == [nif[a].ip6[k] EXCEPT !.addr = z]
<1>1. r \in NetifSlot
  BY NetifSlotOf
<1>2. /\ nif' = [nif EXCEPT ![a] = [nif[a] EXCEPT !.ip6 = [nif[a].ip6 EXCEPT ![k] = r]]]
      /\ UNCHANGED <<netif_list, netif_default, routers>>
  BY DEF N!netif_ip6_addr_set, N!lists
<1> HIDE DEF r
<1> QED
  BY <1>1, <1>2, NetifPutSlot

LEMMA NetifAddSlot ==
    ASSUME NetifInv, NEW a \in Netifs, NEW z \in Ip6, N!netif_add_ip6_address(a, z), ver' = ver
    PROVE  NetifInv'
<1> DEFINE S == {i \in N!Slots \ {0} : nif[a].ip6[i].state = "invalid"}
           k == N!Min(S)
           r == [addr |-> z, state |-> "tentative"]
<1>1. UNCHANGED <<netif_list, netif_default, routers>>
  BY DEF N!netif_add_ip6_address, N!lists
<1>2. \/ nif' = nif
      \/ S # {} /\ nif' = [nif EXCEPT ![a] = [nif[a] EXCEPT !.ip6 = [nif[a].ip6 EXCEPT ![k] = r]]]
  BY DEF N!netif_add_ip6_address
<1>3. CASE nif' = nif
  BY <1>1, <1>3 DEF NetifInv
<1>4. CASE nif' # nif
  <2>1. S # {} /\ S \subseteq Nat /\ S \subseteq N!Slots
    BY <1>2, <1>4 DEF N!Slots
  <2>2. k \in S
    BY <2>1, NetifLeast
  <2>3. r \in NetifSlot
    BY DEF NetifSlot
  <2>4. nif' = [nif EXCEPT ![a] = [nif[a] EXCEPT !.ip6 = [nif[a].ip6 EXCEPT ![k] = r]]]
    BY <1>2, <1>4
  <2> HIDE DEF k, r
  <2>5. k \in N!Slots
    BY <2>1, <2>2
  <2> QED
    BY <1>1, <2>3, <2>4, <2>5, NetifPutSlot
<1> QED
  BY <1>3, <1>4

LEMMA NetifLinkLocal ==
    ASSUME NetifInv, NEW a \in Netifs, N!netif_create_ip6_linklocal_address(a), ver' = ver
    PROVE  NetifInv'
<1> DEFINE r == [addr |-> N!LinkLocal(a), state |-> "tentative"]
<1>1. r \in NetifSlot
  BY DEF NetifSlot
<1>2. /\ nif' = [nif EXCEPT ![a] = [nif[a] EXCEPT !.ip6 = [nif[a].ip6 EXCEPT ![0] = r]]]
      /\ UNCHANGED <<netif_list, netif_default, routers>>
  BY DEF N!netif_create_ip6_linklocal_address, N!lists
<1> HIDE DEF r
<1>3. CASE 0 \in N!Slots
  BY <1>1, <1>2, <1>3, NetifPutSlot
<1>4. CASE 0 \notin N!Slots
  <2>1. nif[a] \in NetifEntry /\ nif \in [Netifs -> NetifEntry]
    BY DEF NetifInv
  <2> DEFINE g == nif[a].ip6
  <2>2. g \in [N!Slots -> NetifSlot]
    BY <2>1 DEF NetifEntry
  <2>3. [g EXCEPT ![0] = r] = g
    BY <1>4, <2>2
  <2>4. [nif[a] EXCEPT !.ip6 = g] = nif[a]
    BY <2>1 DEF NetifEntry
  <2>5. nif' = nif
    BY <1>2, <2>1, <2>3, <2>4
  <2> QED
    BY <1>2, <2>5 DEF NetifInv
<1> QED
  BY <1>3, <1>4

LEMMA NetifRouter ==
    ASSUME NetifInv, NEW a \in Netifs, N!RouterChange(a), ver' = ver
    PROVE  NetifInv'
<1>1. /\ UNCHANGED <<netif_list, netif_default, nif>>
      /\ \/ a \in N!Listed /\ nif[a].up /\ routers' = routers \cup {a}
         \/ routers' = routers \ {a}
  BY DEF N!RouterChange, N!lists, N!Usable
<1> QED
  BY <1>1, NetifOnList DEF NetifInv

LEMMA NetifNext ==
    ASSUME NetifInv, N!Next
    PROVE  NetifInv'
<1>1. ver' = ver
  BY DEF N!Next
<1>2. CASE \E a \in Netifs : a \in N!Listed /\ N!Common(a)
  <2>1. PICK a \in Netifs : a \in N!Listed /\ N!Common(a)
    BY <1>2
  <2>2. CASE N!netif_set_default(a)
    <3>1. netif_default' = a /\ UNCHANGED <<netif_list, nif, routers>>
      BY <2>2 DEF N!netif_set_default
    <3> QED
      BY <1>1, <2>1, <3>1, NetifOnList DEF NetifInv
  <2>3. CASE \E link \in BOOLEAN : N!netif_set_link(a, link)
    BY <1>1, <2>3, NetifSetLink
  <2> QED
    BY <1>1, <2>1, <2>2, <2>3, NetifRemove, NetifSetUp, NetifSetDown DEF N!Common
<1>3. CASE \E a \in Netifs : N!Over4(a)
  <2>1. PICK a \in Netifs : N!Over4(a)
    BY <1>3
  <2>2. PICK ip \in Ip4 \cup {NoAddr} : \E gw \in {NoAddr} \cup Hosts4 :
          \/ N!netif_set_addr(a, ip, gw)
          \/ gw # NoAddr /\ \E p \in N!Packets({gw}, {ip}) : N!Input(a, p)
          \/ \E broadcast, link, ok \in BOOLEAN : N!netif_add(a, ip, gw, broadcast, link, ok)
    BY <2>1 DEF N!Over4
  <2>3. PICK gw \in Hosts4 \cup {NoAddr} :
          \/ N!netif_set_addr(a, ip, gw)
          \/ gw # NoAddr /\ \E p \in N!Packets({gw}, {ip}) : N!Input(a, p)
          \/ \E broadcast, link, ok \in BOOLEAN : N!netif_add(a, ip, gw, broadcast, link, ok)
    BY <2>2
  <2>4. CASE \E p \in N!Packets({gw}, {ip}) : N!Input(a, p)
    <3>1. UNCHANGED <<netif_list, netif_default, nif, routers>>
      BY <2>4 DEF N!Input, N!lists
    <3> QED
      BY <1>1, <3>1 DEF NetifInv
  <2>5. CASE \E broadcast, link, ok \in BOOLEAN : N!netif_add(a, ip, gw, broadcast, link, ok)
    BY <1>1, <2>5, NetifAdd
  <2> QED
    BY <1>1, <2>3, <2>4, <2>5, NetifSetAddr
<1>4. CASE \E a \in Netifs : N!Over6(a)
  <2>1. PICK a \in Netifs : N!Over6(a)
    BY <1>4
  <2>2. CASE \E link, ok \in BOOLEAN : N!netif_add(a, NoAddr, NoAddr, FALSE, link, ok)
    <3>1. PICK ip \in Ip4 \cup {NoAddr}, gw \in Hosts4 \cup {NoAddr}, broadcast \in BOOLEAN :
            ip = NoAddr /\ gw = NoAddr /\ broadcast = FALSE
      BY Zenon
    <3>2. PICK link \in BOOLEAN, ok \in BOOLEAN : N!netif_add(a, ip, gw, broadcast, link, ok)
      BY <2>2, <3>1, Zenon
    <3> QED
      BY <1>1, <3>2, NetifAdd
  <2>3. CASE \E k \in N!Slots, z \in {"invalid", "tentative", "valid"} :
               N!netif_ip6_addr_set_state(a, k, z)
    BY <1>1, <2>3, NetifSetState
  <2>4. CASE \E k \in N!Slots \ {0}, z \in Ip6 : N!netif_ip6_addr_set(a, k, z)
    BY <1>1, <2>4, NetifSetSlot
  <2>5. CASE \E z \in Ip6 : N!netif_add_ip6_address(a, z)
    BY <1>1, <2>5, NetifAddSlot
  <2>6. CASE \E p \in N!Packets(Hosts6, Ip6) : N!Input(a, p)
    <3>1. UNCHANGED <<netif_list, netif_default, nif, routers>>
      BY <2>6 DEF N!Input, N!lists
    <3> QED
      BY <1>1, <3>1 DEF NetifInv
  <2> QED
    BY <1>1, <2>1, <2>2, <2>3, <2>4, <2>5, <2>6, NetifLinkLocal, NetifRouter DEF N!Over6
<1>5. CASE N!netif_set_default(NoNetif)
  BY <1>1, <1>5 DEF N!netif_set_default, NetifInv
<1> QED
  BY <1>2, <1>3, <1>4, <1>5 DEF N!Next

-----------------------------------------------------------------------------
(* The interfaces: what is sent.                                           *)

\* The interface of a set that comes first is of the set.
LEMMA NetifFirst ==
    ASSUME NetifInv, NEW S, S \subseteq N!Listed, S # {}
    PROVE  N!FirstListed(S) \in S
<1> DEFINE T == {i \in DOMAIN netif_list : netif_list[i] \in S}
<1>1. T \subseteq Nat /\ T # {}
  BY NetifOnList DEF InList
<1>2. N!Min(T) \in T
  BY <1>1, NetifLeast
<1> QED
  BY <1>2 DEF N!FirstListed

LEMMA NetifDefault ==
    ASSUME NetifInv
    PROVE  LET d == N!Default
           IN  d = NoNetif \/ (d \in N!Listed /\ N!Usable(d) /\ d \in Netifs)
BY NetifOnList DEF N!Default, NetifInv

LEMMA NetifDangles ==
    ASSUME NetifInv
    PROVE  N!NothingDangles
<1>1. \A i, j \in DOMAIN netif_list : netif_list[i] = netif_list[j] => i = j
  BY NetifOnList DEF NetifInv, NetifListed
<1>2. netif_default \in N!Listed \cup {NoNetif} /\ routers \subseteq N!Listed
  BY NetifOnList DEF NetifInv
<1> QED
  BY <1>1, <1>2 DEF N!NothingDangles

LEMMA NetifRoute4 ==
    ASSUME NetifInv, NEW d
    PROVE  LET a == N!ip4_route(d)
           IN  a = NoNetif \/ (a \in N!Listed /\ N!Usable(a) /\ nif[a].ip # NoAddr)
<1> DEFINE S == {m \in N!Listed : /\ N!Usable(m) /\ nif[m].ip # NoAddr
                                  /\ \/ nif[m].ip.net = d.net
                                     \/ ~nif[m].broadcast /\ nif[m].gw = d}
           a == N!ip4_route(d)
<1>1. a = IF S # {} THEN N!FirstListed(S)
          ELSE IF N!Default # NoNetif /\ nif[N!Default].ip # NoAddr THEN N!Default ELSE NoNetif
  BY DEF N!ip4_route
<1>2. S \subseteq N!Listed /\ \A m \in S : N!Usable(m) /\ nif[m].ip # NoAddr
  OBVIOUS
<1> HIDE DEF S, a
<1>3. CASE S # {}
  <2>1. a \in S
    BY <1>1, <1>2, <1>3, NetifFirst
  <2> QED
    BY <1>2, <2>1 DEF a
<1>4. CASE S = {}
  BY <1>1, <1>4, NetifDefault DEF a
<1> QED
  BY <1>3, <1>4

LEMMA NetifRoute6 ==
    ASSUME NetifInv, NEW s, NEW d, NEW f \in routers \cup {NoNetif}
    PROVE  LET a == N!ip6_route(s, d, f)
           IN  a = NoNetif \/ (a \in N!Listed /\ N!Usable(a))
<1> DEFINE O == {m \in N!Listed : N!Usable(m) /\ s \in N!Addresses(m)}
           S == {m \in N!Listed : N!Usable(m) /\ \E z \in N!Addresses(m) : z.net = d.net}
           a == N!ip6_route(s, d, f)
           good(m) == m = NoNetif \/ (m \in N!Listed /\ N!Usable(m))
<1>1. \/ Len(netif_list) = 1 /\ a = IF N!Usable(netif_list[1]) THEN netif_list[1] ELSE NoNetif
      \/ Len(netif_list) # 1 /\ a = IF O # {} THEN N!FirstListed(O) ELSE N!Default
      \/ a = IF S # {} THEN N!FirstListed(S)
             ELSE IF f # NoNetif /\ N!Usable(f) THEN f
             ELSE IF O # {} THEN N!FirstListed(O)
             ELSE N!Default
  <2>1. CASE Len(netif_list) = 1
    BY <2>1 DEF N!ip6_route
  <2>2. CASE Len(netif_list) # 1 /\ N!IsLinkLocal(d)
    BY <2>2 DEF N!ip6_route
  <2>3. CASE Len(netif_list) # 1 /\ ~N!IsLinkLocal(d)
    BY <2>3 DEF N!ip6_route
  <2> QED
    BY <2>1, <2>2, <2>3
<1>2. O \subseteq N!Listed /\ S \subseteq N!Listed /\ (\A m \in O : N!Usable(m)) /\ \A m \in S : N!Usable(m)
  OBVIOUS
<1> HIDE DEF O, S, a
<1>3. O # {} => good(N!FirstListed(O))
  BY <1>2, NetifFirst
<1>4. S # {} => good(N!FirstListed(S))
  BY <1>2, NetifFirst
<1>5. good(N!Default)
  BY NetifDefault
<1>6. f # NoNetif /\ N!Usable(f) => good(f)
  BY NetifOnList DEF NetifInv
<1>7. Len(netif_list) = 1 => netif_list[1] \in N!Listed
  BY NetifOnList DEF InList
<1>8. good(a)
  BY <1>1, <1>3, <1>4, <1>5, <1>6, <1>7
<1> QED
  BY <1>8 DEF a

LEMMA NetifRouted ==
    ASSUME NetifInv
    PROVE  N!RoutedOverUsable
<1>1. CASE ver = 4
  BY <1>1, NetifRoute4 DEF N!RoutedOverUsable
<1>2. CASE ver # 4
  <2>1. \A s, d : \A f \in routers \cup {NoNetif} :
          LET a == N!ip6_route(s, d, f) IN a = NoNetif \/ (a \in N!Listed /\ N!Usable(a))
    BY NetifRoute6
  <2> QED
    BY <1>2, <2>1 DEF N!RoutedOverUsable, N!Found
<1> QED
  BY <1>1, <1>2

LEMMA NetifAnswer4 ==
    ASSUME NetifInv, NEW d \in Hosts4, N!ip4_output(d).over # NoNetif
    PROVE  LET o == N!ip4_output(d) IN N!ip4_input(o.over, N!Answer(d, o.src)) = "up"
<1> DEFINE a == N!ip4_route(d)
           p == N!Answer(d, nif[a].ip)
<1>1. N!ip4_output(d).over = a /\ a # NoNetif /\ N!ip4_output(d).src = nif[a].ip
  BY DEF N!ip4_output, N!Sent
<1>2. a \in N!Listed /\ nif[a].ip # NoAddr
  BY <1>1, NetifRoute4
<1> HIDE DEF a
<1>3. nif[a].ip \in Ip4
  <2>1. nif[a] \in NetifEntry
    BY <1>2, NetifEntryOf
  <2> QED
    BY <1>2, <2>1 DEF NetifEntry
<1>4. nif[a].ip.net # "multicast" /\ d.net # "multicast" /\ d # NoAddr /\ d.host # "broadcast"
  BY <1>3, IpAssumption DEF N!NetifAssumption
<1>5. d # N!Broadcast(a)
  BY <1>4 DEF N!Broadcast
<1>6. p.ok /\ p.dest = nif[a].ip /\ p.src = d
  BY DEF N!Answer
<1> HIDE DEF p
<1>7. N!ip4_input(a, p) = "up"
  BY <1>4, <1>5, <1>6 DEF N!ip4_input, N!IsMulticast
<1> QED
  BY <1>1, <1>7 DEF p

\* What a slot of an interface holds.
LEMMA NetifSlots ==
    ASSUME NetifInv, NEW a \in N!Listed, NEW k \in N!Slots
    PROVE  nif[a].ip6[k].addr \in Ip6 \cup {NoAddr} \cup {N!LinkLocal(m) : m \in Netifs}
<1>1. nif[a] \in NetifEntry
  BY NetifEntryOf
<1> QED
  BY <1>1 DEF NetifEntry, NetifSlot

\* The source has the destination's scope and is an address of the interface.
LEMMA NetifSource ==
    ASSUME NetifInv, NEW a \in N!Listed, NEW d \in Hosts6,
           N!ip6_select_source_address(a, d) # NoAddr
    PROVE  LET z == N!ip6_select_source_address(a, d)
           IN  z.scope = d.scope /\ z \in N!Addresses(a) /\ z.net # "multicast"
<1> DEFINE A == {i \in N!ValidAt(a) : nif[a].ip6[i].addr.scope = d.scope}
           B == {i \in N!ValidAt(a) : nif[a].ip6[i].addr.net = d.net}
           z == N!ip6_select_source_address(a, d)
<1>1. d.scope \in {"link", "unique", "global"}
  BY IpAssumption DEF N!NetifAssumption
<1>2. \E S \in {A, A \cap B, B} : z = N!AddressAt(a, S)
  <2> DEFINE G == IF A \cap B # {} THEN A \cap B ELSE A
             best == CASE d.scope = "link" -> A
                       [] d.scope = "unique" -> A \cap B
                       [] d.scope = "global" -> G
  <2>1. z = N!AddressAt(a, IF best # {} THEN best ELSE B)
    BY DEF N!ip6_select_source_address
  <2>2. best \in {A, A \cap B}
    <3> HIDE DEF A, B
    <3>1. CASE d.scope = "link"
      BY <3>1
    <3>2. CASE d.scope = "unique"
      BY <3>2
    <3>3. CASE d.scope = "global"
      BY <3>3
    <3> QED
      BY <1>1, <3>1, <3>2, <3>3
  <2> HIDE DEF best, A, B, z
  <2> QED
    BY <2>1, <2>2
<1>3. PICK S \in {A, A \cap B, B} : z = N!AddressAt(a, S)
  BY <1>2
<1>4. S \subseteq N!ValidAt(a) /\ N!ValidAt(a) \subseteq N!Slots
  BY DEF N!ValidAt
<1>5. \A i \in S : nif[a].ip6[i].addr.scope = d.scope \/ nif[a].ip6[i].addr.net = d.net
  OBVIOUS
<1> HIDE DEF A, B, z
<1>6. S # {} /\ z = nif[a].ip6[N!Min(S)].addr
  BY <1>3 DEF N!AddressAt, z
<1>7. N!Min(S) \in S
  <2>1. S \subseteq Nat
    BY <1>4 DEF N!Slots
  <2> QED
    BY <1>6, <2>1, NetifLeast
<1> DEFINE i == N!Min(S)
<1>8. i \in N!Slots /\ i \in N!ValidAt(a) /\ (z.scope = d.scope \/ z.net = d.net)
  BY <1>4, <1>5, <1>6, <1>7
<1>9. z \in N!Addresses(a)
  BY <1>6, <1>8 DEF N!Addresses
<1>10. z \in Ip6 \cup {N!LinkLocal(m) : m \in Netifs}
  <2>1. z \in Ip6 \cup {NoAddr} \cup {N!LinkLocal(m) : m \in Netifs}
    BY <1>6, <1>8, NetifSlots
  <2> QED
    BY <2>1 DEF z
<1>11. z.scope = d.scope
  BY <1>8, <1>10, IpAssumption DEF N!NetifAssumption
<1>12. z.net # "multicast"
  BY <1>10, IpAssumption DEF N!NetifAssumption, N!LinkLocal
<1> QED
  BY <1>9, <1>11, <1>12 DEF z

LEMMA NetifAnswer6 ==
    ASSUME NetifInv, NEW d \in Hosts6, NEW f \in routers \cup {NoNetif}, N!ip6_output(d, f).src # NoAddr
    PROVE  LET o == N!ip6_output(d, f)
           IN  /\ o.src.scope = d.scope
               /\ N!IsMulticast(d) \/ N!ip6_input(o.over, N!Answer(d, o.src)) = "up"
<1> DEFINE a == N!ip6_route(NoAddr, d, f)
           z == N!ip6_select_source_address(a, d)
           p == N!Answer(d, z)
<1>1. a # NoNetif /\ N!ip6_output(d, f).over = a /\ N!ip6_output(d, f).src = z /\ z # NoAddr
  BY DEF N!ip6_output, N!Sent
<1>2. a \in N!Listed /\ N!Usable(a)
  BY <1>1, NetifRoute6
<1> HIDE DEF a
<1>3. z.scope = d.scope /\ z \in N!Addresses(a) /\ z.net # "multicast"
  BY <1>1, <1>2, NetifSource
<1> HIDE DEF z
<1>4. p.ok /\ p.src = d /\ p.dest = z /\ d # NoAddr
  BY IpAssumption DEF N!Answer, N!NetifAssumption
<1> HIDE DEF p
<1>5. N!Askable(p) /\ ~N!IsMulticast(p.dest) /\ N!Takes(a, p.dest)
  BY <1>2, <1>3, <1>4 DEF N!Askable, N!IsMulticast, N!Takes, N!Usable
<1>6. N!IsMulticast(d) \/ N!ip6_input(a, p) = "up"
  BY <1>4, <1>5 DEF N!ip6_input
<1> QED
  BY <1>1, <1>3, <1>6 DEF p

LEMMA NetifAnswered ==
    ASSUME NetifInv
    PROVE  N!AnswerTaken
<1>1. CASE ver = 4
  BY <1>1, NetifAnswer4 DEF N!AnswerTaken
<1>2. CASE ver # 4
  BY <1>2, NetifAnswer6 DEF N!AnswerTaken, N!Found
<1> QED
  BY <1>1, <1>2

-----------------------------------------------------------------------------
(* The interfaces: the theorem.                                            *)

LEMMA NetifInit ==
    ASSUME MCInit
    PROVE  NetifInv
<1>1. ver \in {4, 6} /\ netif_list = <<>> /\ netif_default = NoNetif /\ routers = {}
      /\ nif = [m \in Netifs |-> N!Cleared]
  BY DEF MCInit, N!Init
<1>2. nif \in [Netifs -> NetifEntry]
  BY <1>1, NetifClearedOK
<1>3. netif_list \in Seq(Netifs) /\ Len(netif_list) = 0
  BY <1>1
<1> QED
  BY <1>1, <1>2, <1>3 DEF NetifInv, NetifListed

LEMMA NetifStep == NetifInv /\ [MCNext]_allVars => NetifInv'
<1> SUFFICES ASSUME NetifInv, [MCNext]_allVars PROVE NetifInv'
  OBVIOUS
<1>1. CASE N!Next
  BY <1>1, NetifNext
<1>2. CASE UNCHANGED <<netif_list, netif_default, nif, routers>> /\ ver' \in {4, 6}
  BY <1>2 DEF NetifInv
<1>3. R!Next => ver' = ver
  BY DEF R!Next, R!Input, R!ip_reass_tmr
<1> QED
  BY <1>1, <1>2, <1>3 DEF MCNext, allVars, netifVars, NetifInv

LEMMA NetifAlways == MCSpec => []NetifInv
<1>1. MCInit => NetifInv
  BY NetifInit
<1> QED
  BY <1>1, NetifStep, PTL DEF MCSpec

\* Through any order of interfaces coming and going, getting and losing addresses, links
\* and routers, nothing that routing follows points at a removed interface, ip4_route and
\* ip6_route lead over one that is up with its link, and what is sent from the source
\* IP chooses can be answered over the same interface and has the destination's scope:
\* for any number of interfaces, addresses and hosts.
THEOREM IpRoutesUsable == MCSpec => []RoutesUsable
<1>1. NetifInv => RoutesUsable
  BY NetifDangles, NetifRouted, NetifAnswered DEF RoutesUsable
<1> QED
  BY <1>1, NetifAlways, PTL

-----------------------------------------------------------------------------
(* Reassembly: the list of datagrams and the pbufs in it.                  *)

\* The fragments of a datagram are its own and in order, and it knows whether the last
\* is among them.
RsEntryOK(r) ==
    /\ \A i \in 1..Len(r.p) : r.p[i].id = r.id
    /\ \A i, j \in 1..Len(r.p) : i < j => r.p[i].start < r.p[j].start
    /\ r.last => r.datagram_len = Parts
    /\ r.last <=> \E i \in 1..Len(r.p) : r.p[i].start = Parts - 1

\* No datagram is there twice or has all of its parts, and the newest is first.
RsListOK(l) ==
    /\ l \in Seq(R!ip_reassdata)
    /\ \A i, j \in 1..Len(l) : l[i].id = l[j].id => i = j
    /\ \A i, j \in 1..Len(l) : i < j => l[j].timer <= l[i].timer
    /\ \A i \in 1..Len(l) : RsEntryOK(l[i]) /\ Len(l[i].p) < Parts

\* The list and the count belong together, and only the datagrams of S may be empty.
RsGood(s, S) ==
    /\ RsListOK(s.list)
    /\ s.count = R!PbufsIn(s.list)
    /\ s.ok = TRUE
    /\ \A i \in 1..Len(s.list) : s.list[i].p = <<>> => s.list[i].id \in S

\* A datagram that is older than the limit allows is not kept.
RsAged(r) == timed => r.age + r.timer = IP_REASS_MAXAGE

RsInv ==
    /\ ver \in {4, 6}
    /\ RsGood([list |-> reassdatagrams, count |-> ip_reass_pbufcount, ok |-> asserted], {})
    /\ ip_reass_pbufcount <= IP_REASS_MAX_PBUFS
    /\ \A i \in 1..Len(reassdatagrams) : RsAged(reassdatagrams[i])

LEMMA RsConstants ==
    /\ Parts \in Nat /\ Parts >= 2
    /\ IP_REASS_MAX_PBUFS \in Nat /\ IP_REASS_MAX_PBUFS >= 1
    /\ IP_REASS_MAXAGE \in Nat /\ IP_REASS_MAXAGE >= 1
BY IpAssumption DEF R!ReassAssumption

LEMMA RsFragment ==
    ASSUME NEW f \in R!Fragments
    PROVE  /\ f.id \in Ids /\ f.start \in 0..(Parts - 1) /\ f.end = f.start + 1
           /\ f.more <=> f.start + 1 < Parts
           /\ f = [id |-> f.id, start |-> f.start, end |-> f.start + 1, more |-> f.start + 1 < Parts]
<1>1. PICK d \in Ids, k \in 0..(Parts - 1) :
          f = [id |-> d, start |-> k, end |-> k + 1, more |-> k + 1 < Parts]
  BY DEF R!Fragments
<1>2. f.id = d /\ f.start = k /\ f.end = k + 1
  BY <1>1
<1>3. f.more <=> k + 1 < Parts
  BY <1>1
<1>4. f = [id |-> f.id, start |-> f.start, end |-> f.start + 1, more |-> f.start + 1 < Parts]
  BY <1>1, <1>2
<1> QED
  BY <1>2, <1>3, <1>4

LEMMA RsEntry ==
    ASSUME NEW l \in Seq(R!ip_reassdata), NEW i \in 1..Len(l)
    PROVE  /\ l[i] \in R!ip_reassdata /\ l[i].id \in Ids
           /\ l[i].p \in Seq(R!Fragments) /\ Len(l[i].p) \in Nat
           /\ l[i].timer \in Nat /\ l[i].timer <= IP_REASS_MAXAGE /\ l[i].age \in Nat
<1>1. l[i] \in R!ip_reassdata
  BY ElementOfSeq
<1>2. /\ l[i].id \in Ids /\ l[i].p \in Seq(R!Fragments)
      /\ l[i].timer \in 0..IP_REASS_MAXAGE /\ l[i].age \in 0..(IP_REASS_MAXAGE + 1)
  BY <1>1 DEF R!ip_reassdata
<1>3. Len(l[i].p) \in Nat
  BY <1>2, LenProperties
<1> QED
  BY <1>1, <1>2, <1>3, RsConstants

\* PbufsIn is a sum.
RsLens(l) == [k \in 0..(Len(l) - 1) |-> Len(l[k + 1].p)]

LEMMA RsSum ==
    ASSUME NEW l \in Seq(R!ip_reassdata)
    PROVE  /\ Len(l) \in Nat /\ RsLens(l) \in [0..(Len(l) - 1) -> Nat]
           /\ \A k \in 0..(Len(l) - 1) : RsLens(l)[k] = Len(l[k + 1].p)
           /\ R!PbufsIn(l) = SumOf(RsLens(l), Len(l)) /\ R!PbufsIn(l) \in Nat
<1> DEFINE n == Len(l)
           f == RsLens(l)
           Is(g) == g = [k \in 0..n |-> IF k = 0 THEN 0 ELSE g[k - 1] + Len(l[k].p)]
           sum == CHOOSE g : Is(g)
<1>1. n \in Nat
  BY LenProperties
<1>2. \A k \in 1..n : Len(l[k].p) \in Nat
  BY RsEntry
<1>3. f \in [0..(n - 1) -> Nat] /\ \A k \in 0..(n - 1) : f[k] = Len(l[k + 1].p)
  <2>1. \A k \in 0..(n - 1) : k + 1 \in 1..n
    BY <1>1
  <2> HIDE DEF n
  <2>2. f = [k \in 0..(n - 1) |-> Len(l[k + 1].p)]
    BY DEF n, RsLens
  <2> QED
    BY <1>2, <2>1, <2>2
<1>4. f \in [0..(n - 1) -> Int]
  BY <1>3
<1>5. R!PbufsIn(l) = sum[n]
  BY DEF R!PbufsIn
<1> HIDE DEF n, f
<1>6. PICK g : AddsUp(g, f, n) /\ SumOf(f, n) = g[n]
  BY <1>1, <1>4, SumAdds
<1>7. \A k \in 1..n : f[k - 1] = Len(l[k].p)
  <2>1. \A k \in 1..n : k - 1 \in 0..(n - 1) /\ (k - 1) + 1 = k
    BY <1>1
  <2> QED
    BY <1>3, <2>1
<1>8. Is(g)
  <2>1. \A k \in 0..n : g[k] = IF k = 0 THEN 0 ELSE g[k - 1] + Len(l[k].p)
    BY <1>1, <1>6, <1>7 DEF AddsUp
  <2>2. g = [k \in 0..n |-> g[k]]
    BY <1>6 DEF AddsUp
  <2> QED
    BY <2>1, <2>2
<1>9. Is(sum)
  <2> HIDE DEF Is
  <2> QED
    BY <1>8, Zenon
<1> HIDE DEF sum
<1>10. \A k \in 0..n : sum[k] = IF k = 0 THEN 0 ELSE sum[k - 1] + Len(l[k].p)
  BY <1>9
<1> DEFINE U == {k \in 0..n : sum[k] = g[k]}
<1>11. 0 \in U
  BY <1>1, <1>6, <1>10 DEF AddsUp
<1>12. ASSUME NEW k \in 0..(n - 1), k \in U
       PROVE  k + 1 \in U
  <2>1. k + 1 \in 1..n /\ k + 1 \in 0..n /\ (k + 1) - 1 = k /\ k + 1 # 0
    BY <1>1
  <2>2. sum[k + 1] = sum[k] + Len(l[k + 1].p)
    BY <1>10, <2>1
  <2>3. g[k + 1] = g[k] + Len(l[k + 1].p)
    BY <1>6, <1>7, <2>1 DEF AddsUp
  <2> QED
    BY <1>12, <2>1, <2>2, <2>3
<1> HIDE DEF U
<1>13. 0..n \subseteq U
  <2>1. 0 \in Int /\ n \in Int
    BY <1>1
  <2>2. \A k \in 0..(n - 1) : k \in U => k + 1 \in U
    BY <1>12
  <2> QED
    BY <1>11, <2>1, <2>2, IntervalInduction
<1>14. sum[n] = g[n]
  BY <1>1, <1>13 DEF U
<1>15. SumOf(f, n) \in Nat
  BY <1>1, <1>3, SumOfNaturals
<1> QED
  BY <1>1, <1>3, <1>5, <1>6, <1>14, <1>15 DEF n, f

\* One datagram goes.
LEMMA RsWithout ==
    ASSUME NEW l \in Seq(R!ip_reassdata), NEW i \in 1..Len(l), NEW t \in Seq(R!ip_reassdata),
           Len(t) = Len(l) - 1,
           \A k \in 1..(i - 1) : t[k] = l[k],
           \A k \in i..(Len(l) - 1) : t[k] = l[k + 1]
    PROVE  /\ R!PbufsIn(t) = R!PbufsIn(l) - Len(l[i].p)
           /\ R!PbufsIn(t) \in Nat /\ R!PbufsIn(l) \in Nat /\ Len(l[i].p) \in Nat
<1> DEFINE n == Len(l)
           f == RsLens(l)
           h == RsLens(t)
           m == i - 1
<1>1. /\ n \in Nat /\ f \in [0..(n - 1) -> Nat] /\ R!PbufsIn(l) = SumOf(f, n) /\ R!PbufsIn(l) \in Nat
      /\ \A k \in 0..(n - 1) : f[k] = Len(l[k + 1].p)
  BY RsSum
<1>2. /\ h \in [0..(Len(t) - 1) -> Nat] /\ R!PbufsIn(t) = SumOf(h, Len(t)) /\ R!PbufsIn(t) \in Nat
      /\ \A k \in 0..(Len(t) - 1) : h[k] = Len(t[k + 1].p)
  BY RsSum
<1>3. n \in Nat \ {0} /\ m \in 0..(n - 1) /\ i = m + 1
  BY <1>1
<1>4. Len(t) = n - 1 /\ Len(t) - 1 = n - 2
  BY <1>3
<1>5. h \in [0..(n - 2) -> Nat] /\ R!PbufsIn(t) = SumOf(h, n - 1)
      /\ \A k \in 0..(n - 2) : h[k] = Len(t[k + 1].p)
  BY <1>2, <1>4
<1>6. \A k \in 0..(n - 2) : h[k] = IF k < m THEN f[k] ELSE f[k + 1]
  <2> SUFFICES ASSUME NEW k \in 0..(n - 2) PROVE h[k] = IF k < m THEN f[k] ELSE f[k + 1]
    OBVIOUS
  <2>1. k \in 0..(n - 1) /\ k + 1 \in 0..(n - 1) /\ (k + 1) + 1 \in Nat
    BY <1>3
  <2>2. CASE k < m
    <3>1. t[k + 1] = l[k + 1]
      BY <1>3, <2>2
    <3> QED
      BY <1>1, <1>5, <2>1, <2>2, <3>1
  <2>3. CASE ~(k < m)
    <3>1. t[k + 1] = l[(k + 1) + 1]
      BY <1>3, <2>3
    <3> QED
      BY <1>1, <1>5, <2>1, <2>3, <3>1
  <2> QED
    BY <2>2, <2>3
<1>7. f[m] = Len(l[i].p) /\ f[m] \in Nat
  BY <1>1, <1>3
<1> HIDE DEF n, f, h, m
<1>8. f \in [0..(n - 1) -> Int] /\ h \in [0..(n - 2) -> Int]
  BY <1>1, <1>5
<1>9. SumOf(h, n - 1) = SumOf(f, n) - f[m]
  BY <1>3, <1>6, <1>8, SumWithout
<1> QED
  BY <1>1, <1>2, <1>5, <1>7, <1>9

\* One datagram changes.
LEMMA RsChanged ==
    ASSUME NEW l \in Seq(R!ip_reassdata), NEW i \in 1..Len(l), NEW t \in Seq(R!ip_reassdata),
           Len(t) = Len(l), \A k \in 1..Len(l) : k # i => t[k] = l[k]
    PROVE  R!PbufsIn(t) = R!PbufsIn(l) - Len(l[i].p) + Len(t[i].p)
<1> DEFINE n == Len(l)
           f == RsLens(l)
           h == RsLens(t)
           m == i - 1
<1>1. /\ n \in Nat /\ f \in [0..(n - 1) -> Nat] /\ R!PbufsIn(l) = SumOf(f, n)
      /\ \A k \in 0..(n - 1) : f[k] = Len(l[k + 1].p)
  BY RsSum
<1>2. /\ h \in [0..(n - 1) -> Nat] /\ R!PbufsIn(t) = SumOf(h, n)
      /\ \A k \in 0..(n - 1) : h[k] = Len(t[k + 1].p)
  BY RsSum
<1>3. m \in 0..(n - 1) /\ i = m + 1
  BY <1>1
<1>4. \A k \in 0..(n - 1) : k # m => h[k] = f[k]
  <2> SUFFICES ASSUME NEW k \in 0..(n - 1), k # m PROVE h[k] = f[k]
    OBVIOUS
  <2>1. k + 1 \in 1..n /\ k + 1 # i
    BY <1>1, <1>3
  <2>2. t[k + 1] = l[k + 1]
    BY <2>1
  <2> HIDE DEF n, f, h, m
  <2> QED
    BY <1>1, <1>2, <2>2
<1>5. f[m] = Len(l[i].p) /\ h[m] = Len(t[i].p) /\ h[m] \in Int
  BY <1>1, <1>2, <1>3
<1> HIDE DEF n, f, h, m
<1>6. f \in [0..(n - 1) -> Int] /\ h \in [0..(n - 1) -> Int]
  BY <1>1, <1>2
<1>7. SumOf(h, n) = SumOf(f, n) - f[m] + h[m]
  BY <1>1, <1>3, <1>4, <1>5, <1>6, SumChanged
<1> QED
  BY <1>1, <1>2, <1>5, <1>7

\* The pbufs depend on nothing but the fragments.
LEMMA RsSamePbufs ==
    ASSUME NEW l \in Seq(R!ip_reassdata), NEW t \in Seq(R!ip_reassdata),
           Len(t) = Len(l), \A k \in 1..Len(l) : t[k].p = l[k].p
    PROVE  R!PbufsIn(t) = R!PbufsIn(l)
<1>1. Len(l) \in Nat /\ \A k \in 0..(Len(l) - 1) : k + 1 \in 1..Len(l)
  BY LenProperties
<1>2. RsLens(t) = RsLens(l)
  BY <1>1 DEF RsLens
<1> QED
  BY <1>2, RsSum

\* Without fragments there is no pbuf.
LEMMA RsNoPbufs ==
    ASSUME NEW l \in Seq(R!ip_reassdata), \A k \in 1..Len(l) : l[k].p = <<>>
    PROVE  R!PbufsIn(l) = 0
<1>1. /\ Len(l) \in Nat /\ RsLens(l) \in [0..(Len(l) - 1) -> Nat] /\ R!PbufsIn(l) = SumOf(RsLens(l), Len(l))
      /\ \A k \in 0..(Len(l) - 1) : RsLens(l)[k] = Len(l[k + 1].p)
  BY RsSum
<1>2. \A k \in 0..(Len(l) - 1) : RsLens(l)[k] = 0
  <2> TAKE k \in 0..(Len(l) - 1)
  <2>1. k + 1 \in 1..Len(l)
    BY <1>1
  <2> QED
    BY <1>1, <2>1
<1> DEFINE n == Len(l)
           f == RsLens(l)
<1>3. n \in Nat /\ f \in [0..(n - 1) -> Int] /\ \A k \in 0..(n - 1) : f[k] = 0
  BY <1>1, <1>2
<1>4. R!PbufsIn(l) = SumOf(f, n)
  BY <1>1
<1> HIDE DEF n, f
<1>5. SumOf(f, n) = 0
  BY <1>3, SumNothing
<1> QED
  BY <1>4, <1>5

\* Part of a list, in the same order.
LEMMA RsSubList ==
    ASSUME NEW l, RsListOK(l), NEW t \in Seq(R!ip_reassdata), NEW o \in [1..Len(t) -> 1..Len(l)],
           \A k \in 1..Len(t) : t[k] = l[o[k]],
           \A a, b \in 1..Len(t) : a < b => o[a] < o[b]
    PROVE  RsListOK(t)
<1>1. Len(t) \in Nat /\ Len(l) \in Nat
  BY LenProperties DEF RsListOK
<1>2. ASSUME NEW a \in 1..Len(t), NEW b \in 1..Len(t), t[a].id = t[b].id
      PROVE  a = b
  <2>1. o[a] = o[b]
    BY <1>2 DEF RsListOK
  <2>2. ~(a < b) /\ ~(b < a)
    BY <1>1, <2>1
  <2> QED
    BY <1>1, <2>2
<1>3. ASSUME NEW a \in 1..Len(t), NEW b \in 1..Len(t), a < b
      PROVE  t[b].timer <= t[a].timer
  BY <1>3 DEF RsListOK
<1>4. \A a \in 1..Len(t) : RsEntryOK(t[a]) /\ Len(t[a].p) < Parts
  BY DEF RsListOK
<1> QED
  BY <1>2, <1>3, <1>4 DEF RsListOK

\* A datagram goes.
LEMMA RsShorter ==
    ASSUME NEW l, RsListOK(l), NEW i \in 1..Len(l)
    PROVE  LET t == R!RemoveAt(l, i)
           IN  /\ RsListOK(t) /\ Len(l) \in Nat /\ Len(t) = Len(l) - 1
               /\ \A k \in 1..(i - 1) : t[k] = l[k]
               /\ \A k \in i..(Len(l) - 1) : t[k] = l[k + 1]
               /\ R!PbufsIn(t) = R!PbufsIn(l) - Len(l[i].p)
               /\ R!PbufsIn(t) \in Nat /\ R!PbufsIn(l) \in Nat /\ Len(l[i].p) \in Nat
<1> DEFINE t == R!RemoveAt(l, i)
           o == [k \in 1..Len(t) |-> IF k < i THEN k ELSE k + 1]
<1>1. l \in Seq(R!ip_reassdata) /\ t = RemoveAt(l, i)
  BY DEF RsListOK, R!RemoveAt, RemoveAt
<1>2. /\ Len(l) \in Nat /\ t \in Seq(R!ip_reassdata) /\ Len(t) = Len(l) - 1
      /\ \A k \in 1..(i - 1) : t[k] = l[k]
      /\ \A k \in i..(Len(l) - 1) : t[k] = l[k + 1]
  BY <1>1, TakenOut
<1> HIDE DEF t
<1>3. /\ R!PbufsIn(t) = R!PbufsIn(l) - Len(l[i].p)
      /\ R!PbufsIn(t) \in Nat /\ R!PbufsIn(l) \in Nat /\ Len(l[i].p) \in Nat
  BY <1>1, <1>2, RsWithout
<1>4. o \in [1..Len(t) -> 1..Len(l)] /\ \A a, b \in 1..Len(t) : a < b => o[a] < o[b]
  BY <1>2
<1>5. \A k \in 1..Len(t) : t[k] = l[o[k]]
  <2> TAKE k \in 1..Len(t)
  <2>1. o[k] = IF k < i THEN k ELSE k + 1
    OBVIOUS
  <2> QED
    BY <1>2, <2>1
<1> HIDE DEF o
<1>6. RsListOK(t)
  BY <1>2, <1>4, <1>5, RsSubList
<1> QED
  BY <1>2, <1>3, <1>6 DEF t

\* A new datagram comes in front.
LEMMA RsLonger ==
    ASSUME NEW l, RsListOK(l), NEW f \in R!Fragments, \A i \in 1..Len(l) : l[i].id # f.id
    PROVE  LET t == <<R!NewDatagram(f)>> \o l
           IN  /\ RsListOK(t) /\ Len(l) \in Nat /\ Len(t) = Len(l) + 1
               /\ t[1] = R!NewDatagram(f) /\ t[1].id = f.id /\ t[1].p = <<>> /\ RsAged(t[1])
               /\ \A k \in 1..Len(l) : t[k + 1] = l[k]
               /\ R!PbufsIn(t) = R!PbufsIn(l)
<1> DEFINE e == R!NewDatagram(f)
           t == <<e>> \o l
<1>1. /\ e.id = f.id /\ e.p = <<>> /\ ~e.last /\ e.timer = IP_REASS_MAXAGE /\ e.age = 0
      /\ f.id \in Ids
  BY RsFragment DEF R!NewDatagram
<1>2. e \in R!ip_reassdata
  <2>1. <<>> \in Seq(R!Fragments) /\ 0 \in 0..Parts /\ IP_REASS_MAXAGE \in 0..IP_REASS_MAXAGE
        /\ 0 \in 0..(IP_REASS_MAXAGE + 1)
    BY RsConstants
  <2> QED
    BY <1>1, <2>1 DEF R!NewDatagram, R!ip_reassdata
<1>3. Len(e.p) = 0
  BY <1>1
<1>4. RsEntryOK(e)
  BY <1>1, <1>3 DEF RsEntryOK
<1>5. l \in Seq(R!ip_reassdata)
  BY DEF RsListOK
<1> HIDE DEF e
<1>6. /\ Len(l) \in Nat /\ t \in Seq(R!ip_reassdata) /\ Len(t) = Len(l) + 1 /\ t[1] = e
      /\ \A k \in 1..Len(l) : t[k + 1] = l[k]
  BY <1>2, <1>5, OneInFront
<1> HIDE DEF t
<1>7. \A k \in 1..Len(t) : k = 1 \/ (k - 1 \in 1..Len(l) /\ t[k] = l[k - 1])
  <2> TAKE k \in 1..Len(t)
  <2> SUFFICES ASSUME k # 1 PROVE k - 1 \in 1..Len(l) /\ t[k] = l[k - 1]
    OBVIOUS
  <2>1. k - 1 \in 1..Len(l) /\ (k - 1) + 1 = k
    BY <1>6
  <2> QED
    BY <1>6, <2>1
<1>8. ASSUME NEW a \in 1..Len(t), NEW b \in 1..Len(t), t[a].id = t[b].id
      PROVE  a = b
  <2>1. a # 1 => t[a].id # f.id
    BY <1>7
  <2>2. b # 1 => t[b].id # f.id
    BY <1>7
  <2>3. CASE a = 1 \/ b = 1
    BY <1>1, <1>6, <1>8, <2>1, <2>2, <2>3
  <2>4. CASE a # 1 /\ b # 1
    <3>1. a - 1 = b - 1
      BY <1>7, <1>8, <2>4 DEF RsListOK
    <3> QED
      BY <3>1
  <2> QED
    BY <2>3, <2>4
<1>9. ASSUME NEW a \in 1..Len(t), NEW b \in 1..Len(t), a < b
      PROVE  t[b].timer <= t[a].timer
  <2>1. b - 1 \in 1..Len(l) /\ t[b] = l[b - 1]
    BY <1>7, <1>9
  <2>2. CASE a = 1
    BY <1>1, <1>5, <1>6, <2>1, <2>2, RsEntry
  <2>3. CASE a # 1
    <3>1. a - 1 \in 1..Len(l) /\ t[a] = l[a - 1] /\ a - 1 < b - 1
      BY <1>7, <1>9, <2>3
    <3> QED
      BY <2>1, <3>1 DEF RsListOK
  <2> QED
    BY <2>2, <2>3
<1>10. \A a \in 1..Len(t) : RsEntryOK(t[a]) /\ Len(t[a].p) < Parts
  <2> TAKE a \in 1..Len(t)
  <2>1. CASE a = 1
    BY <1>3, <1>4, <1>6, <2>1, RsConstants
  <2>2. CASE a # 1
    BY <1>7, <2>2 DEF RsListOK
  <2> QED
    BY <2>1, <2>2
<1>11. RsListOK(t)
  BY <1>6, <1>8, <1>9, <1>10 DEF RsListOK
<1>12. R!PbufsIn(t) = R!PbufsIn(l)
  <2>1. 1 \in 1..Len(t) /\ Len(l) = Len(t) - 1 /\ Len(t) \in Nat
    BY <1>6
  <2>2. \A k \in 1..(1 - 1) : l[k] = t[k]
    OBVIOUS
  <2>3. \A k \in 1..(Len(t) - 1) : l[k] = t[k + 1]
    BY <1>6
  <2>4. R!PbufsIn(l) = R!PbufsIn(t) - Len(t[1].p) /\ R!PbufsIn(t) \in Nat
    BY <1>5, <1>6, <2>1, <2>2, <2>3, RsWithout
  <2> QED
    BY <1>3, <1>6, <2>4
<1>13. RsAged(e)
  BY <1>1, RsConstants DEF RsAged
<1> QED
  BY <1>1, <1>6, <1>11, <1>12, <1>13 DEF t, e

-----------------------------------------------------------------------------
(* Reassembly: the oldest datagrams are freed.                             *)

LEMMA RsFree ==
    ASSUME ver \in {4, 6}, NEW s, NEW S, RsGood(s, S), NEW i \in 1..Len(s.list),
           s.list[i].p # <<>>
    PROVE  LET l == R!RemoveAt(s.list, i)
               c == s.count - Len(s.list[i].p)
           IN  /\ R!ip_reass_free_complete_datagram(s, i) =
                      [s EXCEPT !.list = l, !.count = c, !.ok = TRUE]
               /\ RsGood([list |-> l, count |-> c, ok |-> TRUE], S)
               /\ c \in Nat /\ c <= s.count /\ Len(s.list) \in Nat /\ Len(l) = Len(s.list) - 1
               /\ \A k \in 1..(i - 1) : l[k] = s.list[k]
               /\ \A k \in i..(Len(s.list) - 1) : l[k] = s.list[k + 1]
<1> DEFINE l == R!RemoveAt(s.list, i)
           c == s.count - Len(s.list[i].p)
           w == [list |-> l, count |-> c, ok |-> TRUE]
<1>1. /\ RsListOK(l) /\ Len(s.list) \in Nat /\ Len(l) = Len(s.list) - 1
      /\ \A k \in 1..(i - 1) : l[k] = s.list[k]
      /\ \A k \in i..(Len(s.list) - 1) : l[k] = s.list[k + 1]
      /\ R!PbufsIn(l) = R!PbufsIn(s.list) - Len(s.list[i].p)
      /\ R!PbufsIn(l) \in Nat /\ R!PbufsIn(s.list) \in Nat /\ Len(s.list[i].p) \in Nat
  BY RsShorter DEF RsGood
<1>2. s.count = R!PbufsIn(s.list) /\ s.ok = TRUE
  BY DEF RsGood
<1>3. c \in Nat /\ c <= s.count /\ s.count >= Len(s.list[i].p) /\ c = R!PbufsIn(l)
  BY <1>1, <1>2
<1>4. R!ip_reass_free_complete_datagram(s, i) = [s EXCEPT !.list = l, !.count = c, !.ok = TRUE]
  <2> DEFINE a == s.ok /\ s.count >= Len(s.list[i].p) /\ (ver = 6 => s.list[i].p # <<>>)
  <2>1. a = TRUE
    BY <1>2, <1>3
  <2>2. R!ip_reass_free_complete_datagram(s, i) = [s EXCEPT !.list = l, !.count = c, !.ok = a]
    BY DEF R!ip_reass_free_complete_datagram
  <2> HIDE DEF a, l, c
  <2> QED
    BY <2>1, <2>2
<1>5. \A k \in 1..Len(l) : l[k].p = <<>> => l[k].id \in S
  <2> TAKE k \in 1..Len(l)
  <2>1. CASE k < i
    BY <1>1, <2>1 DEF RsGood
  <2>2. CASE ~(k < i)
    <3>1. k \in i..(Len(s.list) - 1) /\ k + 1 \in 1..Len(s.list)
      BY <1>1, <2>2
    <3> QED
      BY <1>1, <3>1 DEF RsGood
  <2> QED
    BY <2>1, <2>2
<1> HIDE DEF l, c
<1>6. w.list = l /\ w.count = c /\ w.ok = TRUE
  OBVIOUS
<1>7. RsGood(w, S)
  <2> HIDE DEF w
  <2> QED
    BY <1>1, <1>3, <1>5, <1>6 DEF RsGood
<1> QED
  BY <1>1, <1>3, <1>4, <1>7 DEF l, c

\* Of the list l the datagrams up to some place are left, and that of d.
RsKept(l, t, d) ==
    \E c \in 0..Len(l) :
        /\ \A k \in 1..c : t[k] = l[k]
        /\ \/ Len(t) = c /\ \A k \in (c + 1)..Len(l) : l[k].id # d
           \/ Len(t) = c + 1 /\ \E o \in (c + 1)..Len(l) : l[o].id = d /\ t[c + 1] = l[o]

LEMMA RsKeptAll ==
    ASSUME NEW l, Len(l) \in Nat, NEW d
    PROVE  RsKept(l, l, d)
<1>1. Len(l) \in 0..Len(l) /\ (Len(l) + 1)..Len(l) = {}
  OBVIOUS
<1> QED
  BY <1>1 DEF RsKept

\* One more goes, the last that is not d's.
LEMMA RsKeptLess ==
    ASSUME NEW l, RsListOK(l), NEW t, RsListOK(t), NEW d, RsKept(l, t, d), NEW m \in 1..Len(t),
           t[m].id # d, \A k \in 1..Len(t) : t[k].id # d => k <= m,
           NEW r, Len(r) = Len(t) - 1,
           \A k \in 1..(m - 1) : r[k] = t[k],
           \A k \in m..(Len(t) - 1) : r[k] = t[k + 1]
    PROVE  RsKept(l, r, d)
<1>1. Len(l) \in Nat /\ Len(t) \in Nat
  BY LenProperties DEF RsListOK
<1>2. PICK c \in 0..Len(l) :
        /\ \A k \in 1..c : t[k] = l[k]
        /\ \/ Len(t) = c /\ \A k \in (c + 1)..Len(l) : l[k].id # d
           \/ Len(t) = c + 1 /\ \E o \in (c + 1)..Len(l) : l[o].id = d /\ t[c + 1] = l[o]
  BY DEF RsKept
<1>3. m >= Len(t) - 1
  <2> SUFFICES ASSUME m < Len(t) - 1 PROVE FALSE
    BY <1>1
  <2>1. Len(t) \in 1..Len(t) /\ Len(t) - 1 \in 1..Len(t) /\ ~(Len(t) <= m) /\ ~(Len(t) - 1 <= m)
    BY <1>1
  <2>2. t[Len(t)].id = d /\ t[Len(t) - 1].id = d
    BY <2>1
  <2>3. Len(t) = Len(t) - 1
    BY <2>1, <2>2 DEF RsListOK
  <2> QED
    BY <1>1, <2>3
<1>4. CASE Len(t) = c /\ \A k \in (c + 1)..Len(l) : l[k].id # d
  <2>1. CASE m = c
    <3>1. c - 1 \in 0..Len(l) /\ Len(r) = c - 1 /\ (c - 1) + 1 = c
      BY <1>1, <1>4, <2>1
    <3>2. \A k \in 1..(c - 1) : r[k] = l[k]
      BY <1>1, <1>2, <2>1
    <3>3. \A k \in c..Len(l) : l[k].id # d
      <4> TAKE k \in c..Len(l)
      <4>1. CASE k = c
        BY <1>2, <2>1, <4>1
      <4>2. CASE k # c
        BY <1>4, <4>2
      <4> QED
        BY <4>1, <4>2
    <3> QED
      BY <3>1, <3>2, <3>3 DEF RsKept
  <2>2. CASE m # c
    <3>1. m = c - 1 /\ c - 2 \in 0..Len(l) /\ Len(r) = (c - 2) + 1 /\ (c - 2) + 1 = c - 1
          /\ c \in 1..Len(t) /\ c \in (c - 1)..Len(l)
      BY <1>1, <1>3, <1>4, <2>2
    <3>2. \A k \in 1..(c - 2) : r[k] = l[k]
      BY <1>1, <1>2, <3>1
    <3>3. r[c - 1] = t[c] /\ t[c] = l[c]
      <4>1. c - 1 \in m..(Len(t) - 1) /\ (c - 1) + 1 = c
        BY <1>1, <1>4, <3>1
      <4> QED
        BY <1>2, <1>4, <3>1, <4>1
    <3>4. l[c].id = d
      BY <3>1, <3>3
    <3> DEFINE b == c - 2
    <3>5. b \in 0..Len(l) /\ b + 1 = c - 1 /\ Len(r) = b + 1 /\ c \in (b + 1)..Len(l)
      BY <3>1
    <3>6. \A k \in 1..b : r[k] = l[k]
      BY <3>2
    <3>7. r[b + 1] = l[c]
      BY <3>3, <3>5
    <3> HIDE DEF b
    <3> QED
      BY <3>4, <3>5, <3>6, <3>7 DEF RsKept
  <2> QED
    BY <2>1, <2>2
<1>5. CASE Len(t) = c + 1 /\ \E o \in (c + 1)..Len(l) : l[o].id = d /\ t[c + 1] = l[o]
  <2>1. PICK o \in (c + 1)..Len(l) : l[o].id = d /\ t[c + 1] = l[o]
    BY <1>5
  <2>2. m # c + 1
    BY <2>1
  <2>3. m = c /\ c - 1 \in 0..Len(l) /\ Len(r) = c /\ (c - 1) + 1 = c /\ o \in c..Len(l)
    BY <1>1, <1>3, <1>5, <2>2
  <2>4. \A k \in 1..(c - 1) : r[k] = l[k]
    BY <1>1, <1>2, <2>3
  <2>5. r[c] = t[c + 1]
    BY <1>1, <1>5, <2>3
  <2> DEFINE b == c - 1
  <2>6. b \in 0..Len(l) /\ Len(r) = b + 1 /\ o \in (b + 1)..Len(l) /\ b + 1 = c
    BY <2>3
  <2>7. \A k \in 1..b : r[k] = l[k]
    BY <2>4
  <2>8. r[b + 1] = l[o]
    BY <2>1, <2>5, <2>6
  <2> HIDE DEF b
  <2> QED
    BY <2>1, <2>6, <2>7, <2>8 DEF RsKept
<1> QED
  BY <1>2, <1>4, <1>5

\* Timers run out in the order of the list, so the oldest is the last.
LEMMA RsOldest ==
    ASSUME NEW l, RsListOK(l), NEW d, NEW S, S = {i \in DOMAIN l : l[i].id # d}, S # {}
    PROVE  LET m == R!Oldest(l, S)
           IN  /\ m \in 1..Len(l) /\ l[m].id # d
               /\ \A k \in 1..Len(l) : l[k].id # d => k <= m
<1> DEFINE U == {i \in S : \A j \in S : l[i].timer <= l[j].timer}
<1>1. DOMAIN l = 1..Len(l) /\ Len(l) \in Nat
  BY LenProperties DEF RsListOK
<1>2. S = {i \in 1..Len(l) : l[i].id # d} /\ S \subseteq Int /\ \A k \in S : k <= Len(l)
  BY <1>1
<1>3. Max(S) \in S /\ \A k \in S : k <= Max(S)
  BY <1>1, <1>2, MaxIsGreatest
<1> DEFINE g == Max(S)
<1> HIDE DEF g
<1>4. g \in U
  <2>1. g \in S /\ \A k \in S : k <= g
    BY <1>3 DEF g
  <2>2. \A j \in S : l[g].timer <= l[j].timer
    <3> TAKE j \in S
    <3>1. CASE j = g
      BY <1>2, <2>1, <3>1, RsEntry DEF RsListOK
    <3>2. CASE j # g
      <4>1. j < g
        BY <1>2, <2>1, <3>2
      <4> QED
        BY <1>2, <2>1, <4>1 DEF RsListOK
    <3> QED
      BY <3>1, <3>2
  <2> QED
    BY <2>1, <2>2
<1>5. U \subseteq Int /\ U # {} /\ \A k \in U : k <= Len(l)
  BY <1>2, <1>4
<1>6. Max(U) \in U /\ \A k \in U : k <= Max(U)
  <2> DEFINE b == Len(l)
  <2>1. b \in Int /\ \A k \in U : k <= b
    BY <1>1, <1>5
  <2> HIDE DEF U, b
  <2> QED
    BY <1>5, <2>1, MaxIsGreatest
<1>7. Max(U) = g
  <2>1. Max(U) \in S /\ g <= Max(U)
    BY <1>4, <1>6
  <2>2. Max(U) <= g
    BY <1>3, <2>1 DEF g
  <2> QED
    BY <1>2, <1>3, <2>1, <2>2 DEF g
<1>8. R!Oldest(l, S) = Max(U)
  BY DEF R!Oldest, R!Max, Max
<1> HIDE DEF U
<1> QED
  BY <1>2, <1>3, <1>7, <1>8 DEF g

\* The states of the loop that makes room for d in a list that was l with c pbufs.
RsStates == [list : Seq(R!ip_reassdata), count : Nat, ok : BOOLEAN, freed : Int, go : BOOLEAN]

RsOnly(t, d) == \A i \in 1..Len(t) : t[i].id = d

RsRoomFor(s, l, c, d) ==
    /\ RsGood(s, {d}) /\ s.count <= c /\ RsKept(l, s.list, d)
    /\ s.go \/ ver = 4 \/ s.count + 1 <= IP_REASS_MAX_PBUFS \/ RsOnly(s.list, d)

RsRoom(l, c, d) == {s \in RsStates : RsRoomFor(s, l, c, d)}

\* It ends, or one datagram less is there.
LEMMA RsTurn ==
    ASSUME ver \in {4, 6}, NEW l, RsListOK(l), NEW c \in Nat, NEW d, NEW s \in RsRoom(l, c, d)
    PROVE  LET t == R!FreeOldest(s, d, 1)
           IN  /\ t \in RsRoom(l, c, d)
               /\ t.go => s.go /\ Len(t.list) = Len(s.list) - 1
<1> DEFINE S == {i \in DOMAIN s.list : s.list[i].id # d}
           m == R!Oldest(s.list, S)
           a == R!RemoveAt(s.list, m)
           b == s.count - Len(s.list[m].p)
           t == R!FreeOldest(s, d, 1)
           u == R!ip_reass_free_complete_datagram(s, m)
<1>1. s \in RsStates /\ RsGood(s, {d}) /\ s.count <= c /\ RsKept(l, s.list, d)
      /\ (s.go \/ ver = 4 \/ s.count + 1 <= IP_REASS_MAX_PBUFS \/ RsOnly(s.list, d))
  BY DEF RsRoom, RsRoomFor
<1>2. RsListOK(s.list) /\ s.list \in Seq(R!ip_reassdata) /\ DOMAIN s.list = 1..Len(s.list)
      /\ s.count \in Nat /\ s.freed \in Int /\ Len(s.list) \in Nat
  BY <1>1, LenProperties DEF RsStates, RsGood, RsListOK
<1>3. t = IF ~s.go \/ S = {} THEN [s EXCEPT !.go = FALSE]
          ELSE [u EXCEPT !.freed = s.freed + s.count - u.count,
                  !.go = IF ver = 4 THEN s.freed + s.count - u.count < 1 /\ R!Cardinality(S) > 1
                         ELSE u.count + 1 > IP_REASS_MAX_PBUFS]
  BY DEF R!FreeOldest
<1> HIDE DEF t, u
<1>4. CASE ~s.go \/ S = {}
  <2>1. t = [s EXCEPT !.go = FALSE]
    BY <1>3, <1>4
  <2>2. t \in RsStates /\ t.list = s.list /\ t.count = s.count /\ t.ok = s.ok /\ ~t.go
    BY <1>1, <2>1 DEF RsStates
  <2>3. RsGood(t, {d})
    BY <1>1, <2>2 DEF RsGood
  <2>4. ver = 4 \/ t.count + 1 <= IP_REASS_MAX_PBUFS \/ RsOnly(t.list, d)
    <3>1. S = {} => RsOnly(s.list, d)
      BY <1>2 DEF RsOnly
    <3> HIDE DEF S
    <3> QED
      BY <1>1, <1>4, <2>2, <3>1
  <2>5. RsRoomFor(t, l, c, d)
    BY <1>1, <2>2, <2>3, <2>4 DEF RsRoomFor
  <2> QED
    BY <2>2, <2>5 DEF RsRoom, t
<1>5. CASE ~(~s.go \/ S = {})
  <2>1. m \in 1..Len(s.list) /\ s.list[m].id # d /\ \A k \in 1..Len(s.list) : s.list[k].id # d => k <= m
    <3>1. S # {}
      BY <1>5
    <3> QED
      BY <1>2, <3>1, RsOldest
  <2>2. s.list[m].p # <<>>
    BY <1>1, <2>1 DEF RsGood
  <2> HIDE DEF m
  <2>3. /\ u = [s EXCEPT !.list = a, !.count = b, !.ok = TRUE]
        /\ RsGood([list |-> a, count |-> b, ok |-> TRUE], {d})
        /\ b \in Nat /\ b <= s.count /\ Len(a) = Len(s.list) - 1
        /\ \A k \in 1..(m - 1) : a[k] = s.list[k]
        /\ \A k \in m..(Len(s.list) - 1) : a[k] = s.list[k + 1]
    BY <1>1, <2>1, <2>2, RsFree DEF u
  <2> HIDE DEF a, b
  <2>4. RsListOK(a) /\ a \in Seq(R!ip_reassdata) /\ b = R!PbufsIn(a)
        /\ \A i \in 1..Len(a) : a[i].p = <<>> => a[i].id \in {d}
    <3> DEFINE w == [list |-> a, count |-> b, ok |-> TRUE]
    <3>1. w.list = a /\ w.count = b
      OBVIOUS
    <3>2. RsGood(w, {d})
      BY <2>3
    <3> HIDE DEF w
    <3> QED
      BY <3>1, <3>2 DEF RsGood, RsListOK
  <2>5. RsKept(l, a, d)
    BY <1>1, <1>2, <2>1, <2>3, RsKeptLess
  <2>6. u.count = b
    BY <1>1, <2>3 DEF RsStates
  <2> DEFINE e == s.freed + s.count - b
             q == IF ver = 4 THEN e < 1 /\ R!Cardinality(S) > 1 ELSE b + 1 > IP_REASS_MAX_PBUFS
  <2>7. t = [u EXCEPT !.freed = e, !.go = q]
    BY <1>3, <1>5, <2>6
  <2>8. e \in Int
    BY <1>2, <2>3
  <2>9. PICK v \in BOOLEAN : v = q
    <3>1. q \in BOOLEAN
      <4>1. CASE ver = 4
        <5>1. q = (e < 1 /\ R!Cardinality(S) > 1)
          BY <4>1
        <5> HIDE DEF q
        <5> QED
          BY <5>1, Zenon
      <4>2. CASE ver # 4
        <5>1. q = (b + 1 > IP_REASS_MAX_PBUFS)
          BY <4>2
        <5>2. (b + 1 > IP_REASS_MAX_PBUFS) \in BOOLEAN
          OBVIOUS
        <5> HIDE DEF q
        <5> QED
          BY <5>1, <5>2, Zenon
      <4> QED
        BY <4>1, <4>2
    <3> HIDE DEF q
    <3> QED
      BY <3>1, Zenon
  <2>10. ver # 4 /\ ~v => b + 1 <= IP_REASS_MAX_PBUFS
    <3>1. ver # 4 => (q <=> b + 1 > IP_REASS_MAX_PBUFS)
      OBVIOUS
    <3>2. v <=> q
      BY <2>9
    <3> HIDE DEF q
    <3> QED
      BY <2>3, <3>1, <3>2, RsConstants
  <2> HIDE DEF e, q, S
  <2>11. t = [s EXCEPT !.list = a, !.count = b, !.ok = TRUE, !.freed = e, !.go = v]
    BY <1>1, <2>3, <2>7, <2>9 DEF RsStates
  <2>12. t \in RsStates /\ t.list = a /\ t.count = b
    BY <1>1, <2>3, <2>4, <2>8, <2>11 DEF RsStates
  <2>13. t.ok = TRUE
    BY <1>1, <2>11 DEF RsStates
  <2>14. t.go <=> v
    BY <1>1, <2>11 DEF RsStates
  <2>15. RsGood(t, {d})
    BY <2>4, <2>12, <2>13 DEF RsGood
  <2>16. t.count <= c
    BY <1>1, <1>2, <2>3, <2>12
  <2>17. RsRoomFor(t, l, c, d)
    BY <2>5, <2>10, <2>12, <2>14, <2>15, <2>16 DEF RsRoomFor
  <2>18. s.go
    BY <1>5
  <2> QED
    BY <2>3, <2>12, <2>17, <2>18 DEF RsRoom, t
<1> QED
  BY <1>4, <1>5

\* When the loop has ended there is room, or IPv6 has nothing left to free.
LEMMA RsLoop ==
    ASSUME ver \in {4, 6}, NEW l, RsListOK(l), NEW d, NEW list, NEW count, NEW ok \in BOOLEAN,
           RsGood([list |-> list, count |-> count, ok |-> ok], {d}), RsKept(l, list, d)
    PROVE  LET t == R!ip_reass_remove_oldest_datagram(list, count, ok, d, 1)
           IN  /\ t \in RsRoom(l, count, d) /\ count \in Nat
               /\ ver = 4 \/ t.count + 1 <= IP_REASS_MAX_PBUFS \/ RsOnly(t.list, d)
<1> DEFINE a == [list |-> list, count |-> count, ok |-> ok]
           z == [list |-> list, count |-> count, ok |-> ok, freed |-> 0, go |-> TRUE]
           n == Len(list)
           T == RsRoom(l, count, d)
           Is(g) == g = [k \in 0..n |-> IF k = 0 THEN z ELSE R!FreeOldest(g[k - 1], d, 1)]
           free == CHOOSE g : Is(g)
           F == [k \in 1..n |-> [s \in T |-> R!FreeOldest(s, d, 1)]]
<1>1. R!ip_reass_remove_oldest_datagram(list, count, ok, d, 1) = free[n]
  BY DEF R!ip_reass_remove_oldest_datagram
<1>2. a.list = list /\ a.count = count /\ a.ok = ok /\ RsGood(a, {d})
  OBVIOUS
<1> HIDE DEF a
<1>3. /\ RsListOK(list) /\ list \in Seq(R!ip_reassdata) /\ count = R!PbufsIn(list) /\ ok = TRUE
      /\ \A i \in 1..Len(list) : list[i].p = <<>> => list[i].id \in {d}
  BY <1>2 DEF RsGood, RsListOK
<1>4. n \in Nat /\ count \in Nat
  BY <1>3, RsSum
<1>5. z \in T
  <2>1. z \in RsStates
    BY <1>3, <1>4 DEF RsStates
  <2>2. z.list = list /\ z.count = count /\ z.ok = ok /\ z.go
    OBVIOUS
  <2> HIDE DEF z
  <2>3. RsGood(z, {d})
    BY <1>3, <2>2 DEF RsGood
  <2>4. RsRoomFor(z, l, count, d)
    BY <1>4, <2>2, <2>3 DEF RsRoomFor
  <2> QED
    BY <2>1, <2>4 DEF RsRoom
<1>6. z.list = list
  OBVIOUS
<1> HIDE DEF z, n, T
<1>7. \A s \in T : /\ R!FreeOldest(s, d, 1) \in T
                   /\ R!FreeOldest(s, d, 1).go => s.go /\ Len(R!FreeOldest(s, d, 1).list) = Len(s.list) - 1
  BY <1>4, RsTurn DEF T
<1>8. F \in [1..n -> [T -> T]] /\ \A k \in 1..n, s \in T : F[k][s] = R!FreeOldest(s, d, 1)
  BY <1>7
<1> HIDE DEF F
<1>9. PICK g : Walk(g, n, T, z, F)
  BY <1>4, <1>5, <1>8, Repeated
<1>10. /\ g \in [0..n -> T] /\ g[0] = z
       /\ \A k \in 1..n : k - 1 \in 0..n /\ g[k - 1] \in T /\ g[k] = R!FreeOldest(g[k - 1], d, 1)
  <2>1. g \in [0..n -> T] /\ g[0] = z /\ \A k \in 1..n : g[k] = F[k][g[k - 1]]
    BY <1>9 DEF Walk
  <2>2. \A k \in 1..n : k - 1 \in 0..n /\ g[k - 1] \in T
    BY <1>4, <2>1
  <2> QED
    BY <1>8, <2>1, <2>2
<1>11. Is(g)
  <2>1. \A k \in 0..n : g[k] = IF k = 0 THEN z ELSE R!FreeOldest(g[k - 1], d, 1)
    BY <1>4, <1>10
  <2>2. g = [k \in 0..n |-> g[k]]
    BY <1>10
  <2> QED
    BY <2>1, <2>2
<1>12. Is(free)
  <2> HIDE DEF Is
  <2> QED
    BY <1>11, Zenon
<1> HIDE DEF free
<1>13. \A k \in 0..n : free[k] = IF k = 0 THEN z ELSE R!FreeOldest(free[k - 1], d, 1)
  BY <1>12
<1> DEFINE Shrunk(k) == g[k].go => Len(g[k].list) = n - k
           U == {k \in 0..n : free[k] = g[k] /\ Shrunk(k)}
<1>14. 0 \in U
  BY <1>4, <1>6, <1>10, <1>13 DEF n
<1>15. ASSUME NEW k \in 0..(n - 1), k \in U
       PROVE  k + 1 \in U
  <2>1. k + 1 \in 1..n /\ k + 1 \in 0..n /\ (k + 1) - 1 = k /\ k + 1 # 0
    BY <1>4
  <2>2. free[k + 1] = R!FreeOldest(free[k], d, 1)
    BY <1>13, <2>1
  <2>3. g[k] \in T /\ g[k + 1] = R!FreeOldest(g[k], d, 1)
    BY <1>10, <2>1
  <2>4. g[k + 1].go => g[k].go /\ Len(g[k + 1].list) = Len(g[k].list) - 1
    BY <1>7, <2>3
  <2>5. g[k + 1].go => Len(g[k + 1].list) = n - (k + 1)
    <3> SUFFICES ASSUME g[k + 1].go PROVE Len(g[k + 1].list) = n - (k + 1)
      OBVIOUS
    <3>1. g[k].go /\ Len(g[k + 1].list) = Len(g[k].list) - 1
      BY <2>4
    <3>2. Shrunk(k)
      BY <1>15
    <3>3. Len(g[k].list) = n - k
      BY <3>1, <3>2
    <3> QED
      BY <1>4, <3>1, <3>3
  <2>6. free[k] = g[k]
    BY <1>15
  <2>7. free[k + 1] = g[k + 1]
    BY <2>2, <2>3, <2>6
  <2>8. Shrunk(k + 1)
    BY <2>5
  <2> HIDE DEF Shrunk
  <2> QED
    BY <2>1, <2>7, <2>8
<1> HIDE DEF U
<1>16. 0..n \subseteq U
  <2>1. 0 \in Int /\ n \in Int
    BY <1>4
  <2>2. \A k \in 0..(n - 1) : k \in U => k + 1 \in U
    BY <1>15
  <2> QED
    BY <1>14, <2>1, <2>2, IntervalInduction
<1> DEFINE t == free[n]
<1>17. t = g[n] /\ t \in T /\ (t.go => Len(t.list) = 0)
  BY <1>4, <1>10, <1>16 DEF U
<1> HIDE DEF t
<1>18. t \in RsRoom(l, count, d) /\ RsRoomFor(t, l, count, d)
  BY <1>17 DEF T, RsRoom
<1>19. ver = 4 \/ t.count + 1 <= IP_REASS_MAX_PBUFS \/ RsOnly(t.list, d)
  BY <1>17, <1>18 DEF RsRoomFor, RsOnly
<1> QED
  BY <1>1, <1>4, <1>18, <1>19 DEF t

-----------------------------------------------------------------------------
(* Reassembly: a fragment comes into the chain of its datagram.            *)

RsChain(p, d) ==
    /\ p \in Seq(R!Fragments)
    /\ \A i \in 1..Len(p) : p[i].id = d
    /\ \A i, j \in 1..Len(p) : i < j => p[i].start < p[j].start

LEMMA RsStart ==
    ASSUME NEW p \in Seq(R!Fragments), NEW i \in 1..Len(p)
    PROVE  /\ p[i] \in R!Fragments /\ p[i].start \in Int /\ 0 <= p[i].start /\ p[i].start <= Parts - 1
           /\ p[i].end = p[i].start + 1
<1>1. p[i] \in R!Fragments
  BY ElementOfSeq
<1> QED
  BY <1>1, RsFragment, RsConstants

\* What increases, increases by 1 or more at every step.
LEMMA RsSpread ==
    ASSUME NEW n \in Nat, NEW g \in [1..n -> Int], \A i, j \in 1..n : i < j => g[i] < g[j],
           NEW i \in 1..n, NEW j \in i..n
    PROVE  g[j] - g[i] >= j - i
<1> DEFINE U == {k \in i..n : g[k] - g[i] >= k - i}
<1>1. i \in U
  OBVIOUS
<1>2. ASSUME NEW k \in i..(n - 1), k \in U
      PROVE  k + 1 \in U
  <2>1. k \in 1..n /\ k + 1 \in 1..n /\ k + 1 \in i..n /\ g[k] \in Int /\ g[k + 1] \in Int /\ g[i] \in Int
    OBVIOUS
  <2>2. g[k] < g[k + 1] /\ g[k] - g[i] >= k - i
    BY <1>2, <2>1
  <2> QED
    BY <2>1, <2>2
<1> HIDE DEF U
<1>3. i..n \subseteq U
  <2>1. i \in Int /\ n \in Int
    OBVIOUS
  <2>2. \A k \in i..(n - 1) : k \in U => k + 1 \in U
    BY <1>2
  <2> QED
    BY <1>1, <2>1, <2>2, IntervalInduction
<1> QED
  BY <1>3 DEF U

\* There are no more fragments than parts; if there are as many, they are all there.
LEMMA RsParts ==
    ASSUME NEW p, NEW d, RsChain(p, d)
    PROVE  /\ Len(p) \in Nat /\ Len(p) <= Parts
           /\ \A k \in 1..Len(p) : k - 1 <= p[k].start /\ p[k].start <= Parts - 1 - (Len(p) - k)
<1> DEFINE n == Len(p)
           g == [k \in 1..n |-> p[k].start]
<1>1. n \in Nat /\ \A k \in 1..n : p[k].start \in Int /\ 0 <= p[k].start /\ p[k].start <= Parts - 1
  BY RsStart, LenProperties DEF RsChain
<1>2. g \in [1..n -> Int] /\ (\A k \in 1..n : g[k] = p[k].start)
  BY <1>1
<1>3. \A i, j \in 1..n : i < j => g[i] < g[j]
  BY <1>2 DEF RsChain
<1> HIDE DEF g, n
<1>4. \A k \in 1..n : k - 1 <= p[k].start /\ p[k].start <= Parts - 1 - (n - k)
  <2> TAKE k \in 1..n
  <2>1. 1 \in 1..n /\ n \in 1..n /\ k \in 1..n /\ n \in k..n
    BY <1>1
  <2>2. g[k] - g[1] >= k - 1
    BY <1>1, <1>2, <1>3, <2>1, RsSpread
  <2>3. g[n] - g[k] >= n - k
    BY <1>1, <1>2, <1>3, <2>1, RsSpread
  <2>4. g[1] = p[1].start /\ g[n] = p[n].start /\ g[k] = p[k].start /\ g[k] \in Int /\ g[1] \in Int
        /\ g[n] \in Int /\ 0 <= g[1] /\ g[n] <= Parts - 1
    BY <1>1, <1>2, <2>1
  <2> QED
    BY <1>1, <2>2, <2>3, <2>4, RsConstants
<1>5. n <= Parts
  <2>1. CASE n = 0
    BY <2>1, RsConstants
  <2>2. CASE n # 0
    <3>1. 1 \in 1..n
      BY <1>1, <2>2
    <3>2. 1 - 1 <= p[1].start /\ p[1].start <= Parts - 1 - (n - 1)
      BY <1>4, <3>1
    <3> QED
      BY <1>1, <3>1, <3>2, RsConstants
  <2> QED
    BY <2>1, <2>2
<1> QED
  BY <1>1, <1>4, <1>5 DEF n

\* The place of a fragment: there already, or between those before and those behind it.
LEMMA RsPlace ==
    ASSUME NEW p, NEW d, RsChain(p, d), NEW f \in R!Fragments
    PROVE  LET n == R!Place(p, f)
           IN  \/ n = -1 /\ \E i \in 1..Len(p) : p[i].start = f.start
               \/ /\ n \in 0..Len(p)
                  /\ \A i \in 1..n : p[i].start < f.start
                  /\ \A i \in (n + 1)..Len(p) : f.start < p[i].start
<1> DEFINE U == {k \in 0..Len(p) : \A i \in 1..k : p[i].start <= f.start}
           q == R!PassedBy(p, f)
           n == R!Place(p, f)
<1>1. Len(p) \in Nat /\ \A i \in 1..Len(p) : p[i].start \in Int /\ p[i].end = p[i].start + 1
  BY RsStart, LenProperties DEF RsChain
<1>2. f.start \in Int /\ f.end = f.start + 1
  BY RsFragment, RsConstants
<1>3. 0 \in U /\ U \subseteq Int /\ \A k \in U : k <= Len(p)
  BY <1>1
<1>4. q \in U /\ \A k \in U : k <= q
  <2>1. q = Max(U)
    BY DEF R!PassedBy, R!Max, Max
  <2> DEFINE b == Len(p)
  <2>2. b \in Int /\ U # {} /\ U \subseteq Int /\ \A k \in U : k <= b
    BY <1>1, <1>3
  <2> HIDE DEF U, b, q
  <2> QED
    BY <2>1, <2>2, MaxIsGreatest
<1> HIDE DEF q
<1>5. q \in 0..Len(p) /\ \A i \in 1..q : p[i].start <= f.start
  BY <1>4
<1>6. q < Len(p) => f.start < p[q + 1].start
  <2> SUFFICES ASSUME q < Len(p), ~(f.start < p[q + 1].start) PROVE FALSE
    OBVIOUS
  <2>1. q + 1 \in 1..Len(p) /\ p[q + 1].start <= f.start
    BY <1>1, <1>2, <1>5
  <2>2. \A i \in 1..(q + 1) : p[i].start <= f.start
    <3> TAKE i \in 1..(q + 1)
    <3>1. i = q + 1 \/ i \in 1..q
      BY <1>5
    <3> QED
      BY <1>5, <2>1, <3>1
  <2>3. q + 1 \in U
    BY <2>1, <2>2
  <2> QED
    BY <1>4, <1>5, <2>3
<1>7. \A i \in (q + 1)..Len(p) : f.start < p[i].start
  <2> TAKE i \in (q + 1)..Len(p)
  <2>1. q + 1 \in 1..Len(p) /\ i \in 1..Len(p) /\ q < Len(p)
    BY <1>1, <1>5
  <2>2. q + 1 < i => p[q + 1].start < p[i].start
    BY <2>1 DEF RsChain
  <2> QED
    BY <1>1, <1>2, <1>6, <2>1, <2>2
<1> HIDE DEF U
<1>8. n = IF \/ q > 0 /\ f.start < p[q].end
             \/ q < Len(p) /\ f.end > p[q + 1].start /\ (ver = 6 \/ q > 0)
          THEN -1 ELSE q
  BY DEF R!Place, q
<1>9. ~(q < Len(p) /\ f.end > p[q + 1].start)
  <2> SUFFICES ASSUME q < Len(p) PROVE ~(f.end > p[q + 1].start)
    OBVIOUS
  <2>1. q + 1 \in 1..Len(p) /\ f.start < p[q + 1].start
    BY <1>1, <1>5, <1>6
  <2> QED
    BY <1>1, <1>2, <2>1
<1> HIDE DEF n
<1>10. CASE q > 0 /\ f.start < p[q].end
  <2>1. n = -1
    BY <1>8, <1>10
  <2>2. q \in 1..Len(p) /\ q \in 1..q
    BY <1>5, <1>10
  <2>3. p[q].start = f.start
    BY <1>1, <1>2, <1>5, <1>10, <2>2
  <2> QED
    BY <2>1, <2>2, <2>3 DEF n
<1>11. CASE ~(q > 0 /\ f.start < p[q].end)
  <2>1. n = q
    BY <1>8, <1>9, <1>11
  <2>2. \A i \in 1..q : p[i].start < f.start
    <3> TAKE i \in 1..q
    <3>1. q \in 1..Len(p) /\ i \in 1..Len(p) /\ q > 0
      BY <1>5
    <3>2. p[q].start < f.start
      BY <1>1, <1>2, <1>11, <3>1
    <3>3. i < q => p[i].start < p[q].start
      BY <3>1 DEF RsChain
    <3> QED
      BY <1>1, <1>2, <3>1, <3>2, <3>3
  <2> QED
    BY <1>5, <1>7, <2>1, <2>2 DEF n
<1> QED
  BY <1>10, <1>11

\* The place of f in the chain p is after its first n parts.
RsSplit(p, f, n) ==
    /\ n \in 0..Len(p)
    /\ \A i \in 1..n : p[i].start < f.start
    /\ \A i \in (n + 1)..Len(p) : f.start < p[i].start

\* f put behind the first n parts of p makes a chain of datagram d.
RsPutIn(p, d, f, n) ==
    LET t == R!InsertAt(p, n + 1, f)
    IN  /\ RsChain(t, d) /\ Len(p) \in Nat /\ Len(t) = Len(p) + 1 /\ t[n + 1] = f
        /\ \A i \in 1..n : t[i] = p[i]
        /\ \A i \in (n + 1)..Len(p) : t[i + 1] = p[i]

LEMMA RsInserted ==
    ASSUME NEW p, NEW d, RsChain(p, d), NEW f \in R!Fragments, f.id = d, NEW n, RsSplit(p, f, n)
    PROVE  RsPutIn(p, d, f, n)
<1> USE DEF RsSplit
<1> DEFINE t == R!InsertAt(p, n + 1, f)
           m == n + 1
<1>1. p \in Seq(R!Fragments) /\ t = InsertAt(p, m, f) /\ Len(p) \in Nat
  BY LenProperties DEF RsChain, R!InsertAt, InsertAt
<1>2. m \in 1..(Len(p) + 1) /\ m - 1 = n
  BY <1>1
<1> HIDE DEF t, m
<1>3. /\ t \in Seq(R!Fragments) /\ Len(t) = Len(p) + 1 /\ t[m] = f
      /\ \A k \in 1..(m - 1) : t[k] = p[k]
      /\ \A k \in m..Len(p) : t[k + 1] = p[k]
  <2> DEFINE S == R!Fragments
             r == InsertAt(p, m, f)
  <2>1. p \in Seq(S) /\ f \in S
    BY <1>1
  <2> HIDE DEF S
  <2>2. /\ r \in Seq(S) /\ Len(r) = Len(p) + 1 /\ r[m] = f
        /\ \A k \in 1..(m - 1) : r[k] = p[k]
        /\ \A k \in m..Len(p) : r[k + 1] = p[k]
    BY <1>2, <2>1, PutIn
  <2>3. t = r
    BY <1>1
  <2> HIDE DEF r
  <2> QED
    BY <2>2, <2>3 DEF S
<1>4. \A k \in 1..Len(t) : \/ k \in 1..n /\ k \in 1..Len(p) /\ t[k] = p[k]
                           \/ k = m /\ t[k] = f
                           \/ k - 1 \in (n + 1)..Len(p) /\ k - 1 \in 1..Len(p) /\ t[k] = p[k - 1]
  <2> TAKE k \in 1..Len(t)
  <2>1. CASE k < m
    BY <1>1, <1>2, <1>3, <2>1
  <2>2. CASE k = m
    BY <1>3, <2>2
  <2>3. CASE k > m
    <3>1. k - 1 \in m..Len(p) /\ (k - 1) + 1 = k
      BY <1>1, <1>2, <1>3, <2>3
    <3> QED
      BY <1>2, <1>3, <3>1 DEF m
  <2> QED
    BY <1>2, <2>1, <2>2, <2>3
<1>5. \A k \in 1..Len(t) : t[k].id = d
  BY <1>4 DEF RsChain
<1>6. ASSUME NEW i \in 1..Len(t), NEW j \in 1..Len(t), i < j
      PROVE  t[i].start < t[j].start
  <2>1. CASE i \in 1..n /\ i \in 1..Len(p) /\ t[i] = p[i]
    <3>1. CASE j \in 1..n /\ j \in 1..Len(p) /\ t[j] = p[j]
      BY <1>6, <2>1, <3>1 DEF RsChain
    <3>2. CASE j = m /\ t[j] = f
      BY <2>1, <3>2
    <3>3. CASE j - 1 \in (n + 1)..Len(p) /\ j - 1 \in 1..Len(p) /\ t[j] = p[j - 1]
      <4>1. i < j - 1
        BY <2>1, <3>3
      <4> QED
        BY <2>1, <3>3, <4>1 DEF RsChain
    <3> QED
      BY <1>4, <3>1, <3>2, <3>3
  <2>2. CASE i = m /\ t[i] = f
    <3>1. j - 1 \in (n + 1)..Len(p) /\ t[j] = p[j - 1]
      BY <1>4, <1>6, <2>2 DEF m
    <3> QED
      BY <2>2, <3>1
  <2>3. CASE i - 1 \in (n + 1)..Len(p) /\ i - 1 \in 1..Len(p) /\ t[i] = p[i - 1]
    <3>1. j - 1 \in 1..Len(p) /\ t[j] = p[j - 1]
      BY <1>4, <1>6, <2>3 DEF m
    <3>2. i - 1 < j - 1
      BY <1>6
    <3> QED
      BY <2>3, <3>1, <3>2 DEF RsChain
  <2> QED
    BY <1>4, <2>1, <2>2, <2>3
<1>7. RsChain(t, d)
  BY <1>3, <1>5, <1>6 DEF RsChain
<1> QED
  BY <1>1, <1>2, <1>3, <1>7 DEF t, m, RsPutIn

\* The checks for holes pass a chain of all parts.
LEMMA RsAll ==
    ASSUME NEW t, NEW d, RsChain(t, d), Len(t) = Parts
    PROVE  /\ \A n \in 0..(Parts - 1) : R!Valid(t, n)
           /\ \E i \in 1..Len(t) : t[i].start = Parts - 1
<1>1. Len(t) \in Nat /\ \A k \in 1..Len(t) : t[k].start = k - 1
  <2>1. Len(t) \in Nat /\ \A k \in 1..Len(t) : k - 1 <= t[k].start /\ t[k].start <= Parts - 1 - (Len(t) - k)
    BY RsParts
  <2>2. \A k \in 1..Len(t) : t[k].start \in Int
    BY RsStart DEF RsChain
  <2> QED
    BY <2>1, <2>2, RsConstants
<1>2. t \in Seq(R!Fragments)
  BY DEF RsChain
<1>3. \A k \in 1..Parts : t[k] = [id |-> d, start |-> k - 1, end |-> k, more |-> k < Parts]
  <2> TAKE k \in 1..Parts
  <2>1. t[k] \in R!Fragments /\ t[k].id = d /\ t[k].start = k - 1
    BY <1>1, <1>2, ElementOfSeq DEF RsChain
  <2>2. t[k] = [id |-> t[k].id, start |-> t[k].start, end |-> t[k].start + 1, more |-> t[k].start + 1 < Parts]
    BY <2>1, RsFragment
  <2>3. t[k].start + 1 = k
    BY <2>1, RsConstants
  <2> QED
    BY <2>1, <2>2, <2>3
<1>5. ASSUME NEW n \in 0..(Parts - 1)
      PROVE  R!Valid(t, n)
  <2>1. 1 \in 1..Parts /\ t[1].start = 0
    BY <1>1, RsConstants
  <2>2. \A i \in 1..(Parts - 1) : t[i].end = t[i + 1].start
    <3> TAKE i \in 1..(Parts - 1)
    <3>1. i \in 1..Parts /\ i + 1 \in 1..Parts
      BY RsConstants
    <3>2. t[i].end = i /\ t[i + 1].start = (i + 1) - 1
      BY <1>3, <3>1
    <3> QED
      BY <3>1, <3>2, RsConstants
  <2>3. n \in Int /\ Len(t) = Parts
    BY RsConstants
  <2>4. \A i \in 1..(n - 1) : t[i].end = t[i + 1].start
    <3>1. \A i \in 1..(n - 1) : i \in 1..(Parts - 1)
      BY RsConstants
    <3> QED
      BY <2>2, <3>1
  <2>5. \A i \in (n + 1)..(Len(t) - 1) : t[i].end = t[i + 1].start
    <3>1. \A i \in (n + 1)..(Len(t) - 1) : i \in 1..(Parts - 1)
      BY <2>3, RsConstants
    <3> QED
      BY <2>2, <3>1
  <2>6. n + 1 = Len(t) /\ n > 0 => t[n].end = t[n + 1].start
    <3>1. n > 0 => n \in 1..(Parts - 1)
      BY RsConstants
    <3> QED
      BY <2>2, <3>1
  <2> QED
    BY <2>1, <2>4, <2>5, <2>6 DEF R!Valid
<1>6. Parts \in 1..Len(t) /\ t[Parts].start = Parts - 1
  BY <1>1, RsConstants
<1> QED
  BY <1>5, <1>6

\* What is handed up is in order, with no hole but before f.
RsUp(u, f) == u # <<>> => R!InOrder(u, f)

\* A chain that the code takes for whole when f came in behind the first n has the
\* first part and the last, and a part can be missing just before f only.
LEMMA RsComplete ==
    ASSUME NEW t, NEW f \in R!Fragments, RsChain(t, f.id), NEW n \in 0..(Len(t) - 1), t[n + 1] = f,
           R!Valid(t, n), \E i \in 1..Len(t) : t[i].start = Parts - 1
    PROVE  Len(t) > 1 /\ R!Last(t).end = Parts /\ RsUp(t, f)
<1> DEFINE m == Len(t)
<1>1. m \in Nat /\ m <= Parts /\ \A k \in 1..m : k - 1 <= t[k].start /\ t[k].start <= Parts - 1 - (m - k)
  BY RsParts
<1>2. \A k \in 1..m : t[k].start \in Int /\ t[k].end = t[k].start + 1
  BY RsStart DEF RsChain
<1>3. PICK i \in 1..m : t[i].start = Parts - 1
  OBVIOUS
<1>4. i = m
  <2>1. Parts - 1 <= Parts - 1 - (m - i)
    BY <1>1, <1>3
  <2> QED
    BY <1>1, <2>1, RsConstants
<1>5. 1 \in 1..m /\ t[1].start = 0
  BY <1>1, <1>3 DEF R!Valid
<1>6. m > 1
  <2>1. m # 1
    BY <1>3, <1>4, <1>5, RsConstants
  <2>2. m \in Nat /\ 1 <= m
    BY <1>1, <1>5
  <2> HIDE DEF m
  <2> QED
    BY <2>1, <2>2
<1>7. t[m].start = Parts - 1 /\ t[m].end = Parts
  <2>1. m \in 1..m /\ t[m].start = Parts - 1
    BY <1>3, <1>4
  <2>2. t[m].end = t[m].start + 1
    BY <1>2, <2>1
  <2> QED
    BY <2>1, <2>2, RsConstants
<1>8. R!Last(t) = t[m]
  BY DEF R!Last
<1>9. \A k \in DOMAIN t : t[k] \in R!Fragments /\ t[k].id = f.id
  <2>1. t \in Seq(R!Fragments) /\ DOMAIN t = 1..Len(t)
    BY DEF RsChain
  <2> QED
    BY <2>1, ElementOfSeq DEF RsChain
<1>10. ASSUME NEW k \in 1..(m - 1), ~(t[k].end = t[k + 1].start)
       PROVE  t[k + 1] = f /\ f.more /\ t[k].end < f.start
  <2>1. k = n /\ k + 1 < m
    <3>1. ~(k \in 1..(n - 1)) /\ ~(k \in (n + 1)..(m - 1)) /\ ~(n + 1 = m /\ n > 0 /\ k = n)
      BY <1>10 DEF R!Valid
    <3>2. n \in 0..(m - 1) /\ m \in Nat /\ k \in 1..(m - 1)
      BY <1>1
    <3> HIDE DEF m
    <3> QED
      BY <3>1, <3>2
  <2>2. k \in 1..m /\ k + 1 \in 1..m /\ m \in 1..m /\ t[k + 1] = f
    BY <1>1, <2>1
  <2>3. t[k].start < t[k + 1].start /\ t[k + 1].start < t[m].start
    BY <2>1, <2>2 DEF RsChain
  <2>4. f.start < Parts - 1 /\ t[k].end < f.start
    <3>1. t[k].start \in Int /\ f.start \in Int /\ t[k].end = t[k].start + 1
      BY <1>2, <2>2
    <3> DEFINE a == t[k].start
               b == f.start
    <3>2. a \in Int /\ b \in Int /\ a < b /\ b < Parts - 1 /\ a + 1 # b
      BY <1>7, <1>10, <2>2, <2>3, <3>1
    <3> HIDE DEF a, b
    <3>3. b < Parts - 1 /\ a + 1 < b
      BY <3>2
    <3> QED
      BY <3>1, <3>3 DEF a, b
  <2>5. f.more
    BY <2>4, RsFragment, RsConstants
  <2> QED
    BY <2>2, <2>4, <2>5
<1>11. R!InOrder(t, f)
  BY <1>5, <1>7, <1>9, <1>10 DEF R!InOrder
<1> QED
  BY <1>6, <1>7, <1>8, <1>11 DEF RsUp

\* What is noted of the last fragment.
LEMMA RsNoted ==
    ASSUME NEW r \in R!ip_reassdata, RsEntryOK(r), NEW f \in R!Fragments
    PROVE  LET w == IF f.more THEN r ELSE [r EXCEPT !.last = TRUE, !.datagram_len = f.end]
           IN  /\ w \in R!ip_reassdata /\ w.id = r.id /\ w.p = r.p /\ w.timer = r.timer /\ w.age = r.age
               /\ w.last <=> r.last \/ f.start = Parts - 1
               /\ w.last => w.datagram_len = Parts
<1> DEFINE w == IF f.more THEN r ELSE [r EXCEPT !.last = TRUE, !.datagram_len = f.end]
<1>1. CASE f.more
  <2>1. w = r
    BY <1>1
  <2>2. f.start # Parts - 1
    BY <1>1, RsFragment, RsConstants
  <2> HIDE DEF w
  <2> QED
    BY <2>1, <2>2 DEF RsEntryOK, w
<1>2. CASE ~f.more
  <2>1. w = [r EXCEPT !.last = TRUE, !.datagram_len = f.end]
    BY <1>2
  <2>2. f.start = Parts - 1 /\ f.end = Parts /\ f.end \in 0..Parts
    BY <1>2, RsFragment, RsConstants
  <2> HIDE DEF w
  <2>3. w \in R!ip_reassdata /\ w.id = r.id /\ w.p = r.p /\ w.timer = r.timer /\ w.age = r.age
        /\ w.datagram_len = Parts
    BY <2>1, <2>2 DEF R!ip_reassdata
  <2>4. w.last = TRUE
    BY <2>1 DEF R!ip_reassdata
  <2>5. w.last
    BY <2>4
  <2> QED
    BY <2>2, <2>3, <2>5 DEF w
<1> QED
  BY <1>1, <1>2

LEMMA RsReplaced ==
    ASSUME NEW l, RsListOK(l), NEW i \in 1..Len(l), NEW e \in R!ip_reassdata,
           e.id = l[i].id, e.timer = l[i].timer
    PROVE  LET t == [l EXCEPT ![i] = e]
           IN  /\ t \in Seq(R!ip_reassdata) /\ Len(t) = Len(l) /\ Len(l) \in Nat /\ t[i] = e
               /\ \A k \in 1..Len(l) : k # i => t[k] = l[k]
               /\ R!PbufsIn(t) = R!PbufsIn(l) - Len(l[i].p) + Len(e.p)
               /\ RsEntryOK(e) /\ Len(e.p) < Parts => RsListOK(t)
<1> DEFINE t == [l EXCEPT ![i] = e]
<1>1. l \in Seq(R!ip_reassdata) /\ Len(l) \in Nat /\ DOMAIN l = 1..Len(l)
  BY LenProperties DEF RsListOK
<1>2. t \in Seq(R!ip_reassdata) /\ Len(t) = Len(l)
  BY <1>1, ExceptSeq
<1>3. t[i] = e /\ \A k \in 1..Len(l) : k # i => t[k] = l[k]
  BY <1>1
<1> HIDE DEF t
<1>4. R!PbufsIn(t) = R!PbufsIn(l) - Len(l[i].p) + Len(t[i].p)
  BY <1>1, <1>2, <1>3, RsChanged
<1>5. \A k \in 1..Len(t) : t[k].id = l[k].id /\ t[k].timer = l[k].timer
  BY <1>2, <1>3
<1>6. ASSUME RsEntryOK(e), Len(e.p) < Parts
      PROVE  RsListOK(t)
  BY <1>2, <1>3, <1>5, <1>6 DEF RsListOK
<1> QED
  BY <1>1, <1>2, <1>3, <1>4, <1>6 DEF t

RsInputs == [list : Seq(R!ip_reassdata), count : Nat, ok : BOOLEAN, up : Seq(R!Fragments)]

\* c is what the fragment f leaves of the list l.
RsResult(c, l, f) ==
    /\ RsGood(c, {}) /\ c.count <= IP_REASS_MAX_PBUFS
    /\ \A k \in 1..Len(c.list) : RsAged(c.list[k]) /\ \E j \in 1..Len(l) : c.list[k].id = l[j].id
    /\ \A j \in 1..Len(l) : l[j].id # f.id \/ c.up = <<>> => \E k \in 1..Len(c.list) : c.list[k].id = l[j].id
    /\ RsUp(c.up, f)

LEMMA RsResultKept ==
    ASSUME NEW l, RsListOK(l), NEW i \in 1..Len(l), NEW f, NEW d, d = f.id, l[i].id = d,
           \A k \in 1..Len(l) : RsAged(l[k]) /\ (l[k].p = <<>> => l[k].id = d),
           NEW e \in R!ip_reassdata, e.id = d, e.timer = l[i].timer, e.age = l[i].age,
           RsEntryOK(e), Len(e.p) < Parts, e.p # <<>>,
           NEW c, c.list = [l EXCEPT ![i] = e], c.ok = TRUE, c.up = <<>>,
           c.count = R!PbufsIn(l) - Len(l[i].p) + Len(e.p), c.count <= IP_REASS_MAX_PBUFS
    PROVE  RsResult(c, l, f)
<1> DEFINE t == [l EXCEPT ![i] = e]
<1>1. /\ Len(t) = Len(l) /\ Len(l) \in Nat /\ t[i] = e /\ RsListOK(t)
      /\ \A k \in 1..Len(l) : k # i => t[k] = l[k]
      /\ R!PbufsIn(t) = R!PbufsIn(l) - Len(l[i].p) + Len(e.p)
  BY RsReplaced
<1>2. c.list = t
  OBVIOUS
<1> HIDE DEF t
<1>3. \A k \in 1..Len(t) : t[k].p # <<>> /\ t[k].id = l[k].id
  <2> TAKE k \in 1..Len(t)
  <2>1. CASE k = i
    BY <1>1, <2>1
  <2>2. CASE k # i
    <3>1. k \in 1..Len(l) /\ t[k] = l[k]
      BY <1>1, <2>2
    <3>2. l[k].id # d
      BY <2>2, <3>1 DEF RsListOK
    <3> QED
      BY <3>1, <3>2
  <2> QED
    BY <2>1, <2>2
<1>4. \A k \in 1..Len(t) : RsAged(t[k])
  <2> TAKE k \in 1..Len(t)
  <2>1. k \in 1..Len(l) /\ t[k].age = l[k].age /\ t[k].timer = l[k].timer
    BY <1>1
  <2> QED
    BY <2>1 DEF RsAged
<1>5. RsGood(c, {})
  BY <1>1, <1>2, <1>3 DEF RsGood
<1> QED
  BY <1>1, <1>2, <1>3, <1>4, <1>5 DEF RsResult, RsUp

LEMMA RsResultUp ==
    ASSUME NEW l, RsListOK(l), NEW i \in 1..Len(l), NEW f, NEW d, d = f.id, l[i].id = d,
           \A k \in 1..Len(l) : RsAged(l[k]) /\ (l[k].p = <<>> => l[k].id = d),
           NEW c, c.list = R!RemoveAt(l, i), c.ok = TRUE, c.up # <<>>,
           c.count = R!PbufsIn(l) - Len(l[i].p), c.count <= IP_REASS_MAX_PBUFS,
           RsUp(c.up, f)
    PROVE  RsResult(c, l, f)
<1> DEFINE t == R!RemoveAt(l, i)
<1>1. /\ RsListOK(t) /\ Len(l) \in Nat /\ Len(t) = Len(l) - 1
      /\ \A k \in 1..(i - 1) : t[k] = l[k]
      /\ \A k \in i..(Len(l) - 1) : t[k] = l[k + 1]
      /\ R!PbufsIn(t) = R!PbufsIn(l) - Len(l[i].p)
  BY RsShorter
<1>2. c.list = t
  OBVIOUS
<1> HIDE DEF t
<1>3. \A k \in 1..Len(t) : \E j \in 1..Len(l) : j # i /\ t[k] = l[j]
  <2> TAKE k \in 1..Len(t)
  <2>1. CASE k < i
    BY <1>1, <2>1
  <2>2. CASE ~(k < i)
    <3>1. k \in i..(Len(l) - 1) /\ k + 1 \in 1..Len(l) /\ k + 1 # i
      BY <1>1, <2>2
    <3> QED
      BY <1>1, <3>1
  <2> QED
    BY <2>1, <2>2
<1>4. \A j \in 1..Len(l) : l[j].id # d => \E k \in 1..Len(t) : t[k].id = l[j].id
  <2> TAKE j \in 1..Len(l)
  <2> SUFFICES ASSUME l[j].id # d PROVE \E k \in 1..Len(t) : t[k] = l[j]
    BY Zenon
  <2>1. CASE j < i
    <3>1. j \in 1..(i - 1) /\ j \in 1..Len(t)
      BY <1>1, <2>1
    <3> QED
      BY <1>1, <3>1
  <2>2. CASE ~(j < i)
    <3>1. j - 1 \in i..(Len(l) - 1) /\ j - 1 \in 1..Len(t) /\ (j - 1) + 1 = j
      BY <1>1, <2>2
    <3> QED
      BY <1>1, <3>1
  <2> QED
    BY <2>1, <2>2
<1>5. \A j \in 1..Len(l) : j # i => l[j].id # d
  BY DEF RsListOK
<1>6. \A k \in 1..Len(t) : t[k].p # <<>> /\ RsAged(t[k])
  BY <1>3, <1>5
<1>7. RsGood(c, {})
  BY <1>1, <1>2, <1>6 DEF RsGood
<1> QED
  BY <1>2, <1>3, <1>4, <1>6, <1>7 DEF RsResult

LEMMA RsChained ==
    ASSUME ver \in {4, 6}, NEW s \in RsInputs, NEW f \in R!Fragments, RsGood(s, {f.id}),
           s.count + 1 <= IP_REASS_MAX_PBUFS, s.up = <<>>, NEW i \in 1..Len(s.list), s.list[i].id = f.id,
           \A k \in 1..Len(s.list) : RsAged(s.list[k])
    PROVE  RsResult(R!Chain(s, i, f), s.list, f)
<1> DEFINE l == s.list
           d == f.id
           r == l[i]
           n == R!Place(r.p, f)
           t == R!InsertAt(r.p, n + 1, f)
           w == IF f.more THEN r ELSE [r EXCEPT !.last = TRUE, !.datagram_len = f.end]
           e == [w EXCEPT !.p = t]
           kept1 == [s EXCEPT !.list = [@ EXCEPT ![i] = e], !.count = @ + 1]
           c == R!Chain(s, i, f)
<1>1. /\ RsListOK(l) /\ l \in Seq(R!ip_reassdata) /\ s.count = R!PbufsIn(l) /\ s.ok = TRUE /\ s.count \in Nat
      /\ \A k \in 1..Len(l) : RsAged(l[k]) /\ (l[k].p = <<>> => l[k].id = d)
  <2>1. RsListOK(l) /\ s.count = R!PbufsIn(l) /\ s.ok = TRUE
    BY DEF RsGood
  <2>2. \A k \in 1..Len(l) : l[k].p = <<>> => l[k].id = d
    BY DEF RsGood
  <2> QED
    BY <2>1, <2>2 DEF RsListOK, RsInputs
<1>2. /\ r \in R!ip_reassdata /\ RsEntryOK(r) /\ Len(r.p) < Parts /\ r.p \in Seq(R!Fragments)
      /\ Len(r.p) \in Nat /\ RsChain(r.p, d)
  <2>1. r \in R!ip_reassdata /\ r.p \in Seq(R!Fragments) /\ Len(r.p) \in Nat
    BY <1>1, RsEntry
  <2>2. RsEntryOK(r) /\ Len(r.p) < Parts
    BY <1>1 DEF RsListOK
  <2> HIDE DEF r
  <2>3. RsChain(r.p, d)
    BY <2>1, <2>2 DEF RsEntryOK, RsChain, r
  <2> QED
    BY <2>1, <2>2, <2>3
<1>3. c = IF n = -1 THEN [s EXCEPT !.list = [@ EXCEPT ![i] = IF ver = 4 THEN w ELSE r]]
          ELSE IF ~(w.last /\ R!Valid(t, n)) THEN kept1 ELSE R!HandUp(kept1, i)
  BY DEF R!Chain
<1>4. /\ w \in R!ip_reassdata /\ w.id = r.id /\ w.p = r.p /\ w.timer = r.timer /\ w.age = r.age
      /\ w.last <=> r.last \/ f.start = Parts - 1
      /\ w.last => w.datagram_len = Parts
  <2> HIDE DEF r
  <2> QED
    BY <1>2, RsNoted
<1> HIDE DEF w, c
<1>5. \/ n = -1 /\ \E j \in 1..Len(r.p) : r.p[j].start = f.start
      \/ /\ n \in 0..Len(r.p)
         /\ \A j \in 1..n : r.p[j].start < f.start
         /\ \A j \in (n + 1)..Len(r.p) : f.start < r.p[j].start
  <2> DEFINE p == r.p
  <2> HIDE DEF r, l, d, p
  <2>1. RsChain(p, d)
    BY <1>2 DEF p
  <2>2. n = R!Place(p, f)
    BY DEF p
  <2> HIDE DEF n
  <2> QED
    BY <2>1, <2>2, RsPlace DEF p
<1> HIDE DEF n
<1>6. CASE n = -1 /\ \E j \in 1..Len(r.p) : r.p[j].start = f.start
  <2> DEFINE v == IF ver = 4 THEN w ELSE r
             h == [l EXCEPT ![i] = v]
  <2>1. c = [s EXCEPT !.list = h]
    BY <1>3, <1>6
  <2>2. RsEntryOK(w)
    <3>1. w.last <=> \E j \in 1..Len(w.p) : w.p[j].start = Parts - 1
      <4>1. r.last <=> \E j \in 1..Len(r.p) : r.p[j].start = Parts - 1
        BY <1>2 DEF RsEntryOK
      <4>2. f.start = Parts - 1 => \E j \in 1..Len(r.p) : r.p[j].start = Parts - 1
        BY <1>6
      <4> HIDE DEF r
      <4> QED
        BY <1>4, <4>1, <4>2
    <3> HIDE DEF r
    <3> QED
      BY <1>2, <1>4, <3>1 DEF RsEntryOK
  <2>3. /\ v \in R!ip_reassdata /\ v.id = r.id /\ v.p = r.p /\ v.timer = r.timer /\ v.age = r.age
        /\ RsEntryOK(v)
    <3>1. CASE ver = 4
      BY <1>4, <2>2, <3>1
    <3>2. CASE ver # 4
      BY <1>2, <3>2
    <3> QED
      BY <3>1, <3>2
  <2> HIDE DEF v
  <2>4. v.p # <<>> /\ Len(v.p) < Parts /\ v.id = d
    <3>1. Len(r.p) # 0
      BY <1>2, <1>6
    <3> QED
      BY <1>2, <2>3, <3>1
  <2>5. c.list = h /\ c.count = s.count /\ c.ok = s.ok /\ c.up = s.up
    BY <2>1 DEF RsInputs
  <2>6. c.count = R!PbufsIn(l) - Len(l[i].p) + Len(v.p) /\ c.count <= IP_REASS_MAX_PBUFS
    BY <1>1, <1>2, <2>3, <2>5, RsConstants
  <2> HIDE DEF l, d
  <2>7. RsResult(c, l, f)
    BY <1>1, <2>3, <2>4, <2>5, <2>6, RsResultKept DEF l, d
  <2> QED
    BY <2>7 DEF c, l, d
<1>7. CASE /\ n \in 0..Len(r.p)
           /\ \A j \in 1..n : r.p[j].start < f.start
           /\ \A j \in (n + 1)..Len(r.p) : f.start < r.p[j].start
  <2>1. /\ RsChain(t, d) /\ Len(t) = Len(r.p) + 1 /\ t[n + 1] = f
        /\ \A j \in 1..n : t[j] = r.p[j]
        /\ \A j \in (n + 1)..Len(r.p) : t[j + 1] = r.p[j]
    <3> DEFINE p == r.p
    <3>1. RsChain(p, d) /\ n \in 0..Len(p) /\ (\A j \in 1..n : p[j].start < f.start)
          /\ (\A j \in (n + 1)..Len(p) : f.start < p[j].start) /\ f.id = d /\ t = R!InsertAt(p, n + 1, f)
      BY <1>2, <1>7
    <3>1a. RsSplit(p, f, n)
      BY <3>1 DEF RsSplit
    <3> DEFINE u == R!InsertAt(p, n + 1, f)
    <3> HIDE DEF p, t, r, l, d
    <3>2. /\ RsChain(u, d) /\ Len(u) = Len(p) + 1 /\ u[n + 1] = f
          /\ \A j \in 1..n : u[j] = p[j]
          /\ \A j \in (n + 1)..Len(p) : u[j + 1] = p[j]
      <4>1. RsPutIn(p, d, f, n)
        BY <3>1, <3>1a, RsInserted
      <4> QED
        BY <4>1 DEF RsPutIn
    <3>3. t = u
      BY <3>1
    <3> HIDE DEF u
    <3> QED
      BY <3>2, <3>3 DEF p
  <2> HIDE DEF t
  <2>2. n # -1 /\ n \in 0..(Len(t) - 1) /\ Len(t) \in Nat /\ Len(t) <= Parts /\ t # <<>> /\ t \in Seq(R!Fragments)
    <3>1. t \in Seq(R!Fragments)
      BY <2>1 DEF RsChain
    <3>2. Len(t) # 0
      BY <1>2, <2>1
    <3> QED
      BY <1>2, <1>7, <2>1, <3>1, <3>2, RsConstants
  <2>3. /\ e \in R!ip_reassdata /\ e.id = d /\ e.p = t /\ e.timer = r.timer /\ e.age = r.age
        /\ e.datagram_len = w.datagram_len
    BY <1>4, <2>2 DEF R!ip_reassdata
  <2>4. e.last = w.last
    BY <1>4 DEF R!ip_reassdata
  <2>5. w.last <=> \E j \in 1..Len(t) : t[j].start = Parts - 1
    <3>1. r.last <=> \E j \in 1..Len(r.p) : r.p[j].start = Parts - 1
      BY <1>2 DEF RsEntryOK
    <3> HIDE DEF r
    <3>2. ASSUME NEW j \in 1..Len(r.p), r.p[j].start = Parts - 1
          PROVE  \E k \in 1..Len(t) : t[k].start = Parts - 1
      <4>1. CASE j <= n
        <5>1. j \in 1..n /\ j \in 1..Len(t)
          BY <1>2, <2>1, <4>1, <1>7
        <5> QED
          BY <2>1, <3>2, <5>1
      <4>2. CASE ~(j <= n)
        <5>1. j \in (n + 1)..Len(r.p) /\ j + 1 \in 1..Len(t)
          BY <1>2, <2>1, <4>2, <1>7
        <5> QED
          BY <2>1, <3>2, <5>1
      <4> QED
        BY <4>1, <4>2
    <3>3. f.start = Parts - 1 => \E k \in 1..Len(t) : t[k].start = Parts - 1
      <4>1. n + 1 \in 1..Len(t)
        BY <2>2
      <4> QED
        BY <2>1, <4>1
    <3>4. ASSUME NEW k \in 1..Len(t), t[k].start = Parts - 1
          PROVE  w.last
      <4>1. CASE k <= n
        <5>1. k \in 1..n /\ k \in 1..Len(r.p)
          BY <1>2, <1>7, <4>1
        <5> QED
          BY <1>4, <2>1, <3>1, <3>4, <5>1
      <4>2. CASE k = n + 1
        BY <1>4, <2>1, <3>4, <4>2
      <4>3. CASE k > n + 1
        <5>1. k - 1 \in (n + 1)..Len(r.p) /\ k - 1 \in 1..Len(r.p) /\ (k - 1) + 1 = k
          BY <1>2, <1>7, <2>1, <4>3
        <5> QED
          BY <1>4, <2>1, <3>1, <3>4, <5>1
      <4> QED
        BY <1>7, <2>2, <4>1, <4>2, <4>3
    <3> QED
      BY <1>4, <3>1, <3>2, <3>3, <3>4
  <2>6. RsEntryOK(e)
    <3>1. \A j \in 1..Len(e.p) : e.p[j].id = e.id
      BY <2>1, <2>3 DEF RsChain
    <3>2. \A j, k \in 1..Len(e.p) : j < k => e.p[j].start < e.p[k].start
      BY <2>1, <2>3 DEF RsChain
    <3>3. e.last => e.datagram_len = Parts
      BY <1>4, <2>3, <2>4
    <3>4. e.last <=> \E j \in 1..Len(e.p) : e.p[j].start = Parts - 1
      BY <2>3, <2>4, <2>5
    <3> HIDE DEF e
    <3> QED
      BY <3>1, <3>2, <3>3, <3>4 DEF RsEntryOK
  <2> HIDE DEF e
  <2> DEFINE h == [l EXCEPT ![i] = e]
  <2>7. kept1.list = h /\ kept1.count = s.count + 1 /\ kept1.ok = s.ok /\ kept1.up = s.up
        /\ kept1 = [s EXCEPT !.list = h, !.count = s.count + 1]
    BY DEF RsInputs
  <2>8. /\ h \in Seq(R!ip_reassdata) /\ Len(h) = Len(l) /\ Len(l) \in Nat /\ h[i] = e
        /\ \A k \in 1..Len(l) : k # i => h[k] = l[k]
    <3>1. e.id = l[i].id /\ e.timer = l[i].timer
      BY <2>3
    <3> HIDE DEF l
    <3> QED
      BY <1>1, <2>3, <3>1, RsReplaced DEF l
  <2>9. CASE ~(w.last /\ R!Valid(t, n))
    <3>1. c = kept1
      BY <1>3, <2>2, <2>9
    <3>2. Len(e.p) < Parts
      <4> SUFFICES ASSUME Len(t) = Parts PROVE FALSE
        BY <2>2, <2>3, RsConstants
      <4>1. R!Valid(t, n)
        BY <2>1, <2>2, RsAll
      <4>2. w.last
        BY <2>1, <2>5, RsAll
      <4> QED
        BY <2>9, <4>1, <4>2
    <3>3. c.count = R!PbufsIn(l) - Len(l[i].p) + Len(e.p)
      BY <1>1, <1>2, <2>1, <2>3, <2>7, <3>1
    <3>4. c.list = h /\ c.ok = TRUE /\ c.up = <<>> /\ c.count <= IP_REASS_MAX_PBUFS
      BY <1>1, <2>7, <3>1
    <3>5. e.timer = l[i].timer /\ e.age = l[i].age /\ e.p # <<>>
      BY <2>2, <2>3
    <3> HIDE DEF l, d, kept1
    <3>6. RsResult(c, l, f)
      BY <1>1, <2>3, <2>6, <3>2, <3>3, <3>4, <3>5, RsResultKept DEF l, d
    <3> QED
      BY <3>6 DEF c, l, d
  <2>10. CASE w.last /\ R!Valid(t, n)
    <3>1. c = R!HandUp(kept1, i)
      BY <1>3, <2>2, <2>10
    <3>2. Len(t) > 1 /\ R!Last(t).end = Parts /\ RsUp(t, f)
      <4>1. \E j \in 1..Len(t) : t[j].start = Parts - 1
        BY <2>5, <2>10
      <4>2. RsChain(t, f.id)
        BY <2>1
      <4> HIDE DEF d
      <4> QED
        BY <2>1, <2>2, <2>10, <4>1, <4>2, RsComplete
    <3>3. e.datagram_len = Parts
      BY <1>4, <2>3, <2>10
    <3> DEFINE g == kept1.list[i]
               a == kept1.ok /\ (ver = 4 => Len(g.p) > 1 /\ R!Last(g.p).end = g.datagram_len)
    <3>4. a = TRUE
      <4>1. g = e /\ g.p = t /\ kept1.ok = TRUE
        BY <1>1, <2>3, <2>7, <2>8
      <4> HIDE DEF g, kept1
      <4> QED
        BY <3>2, <3>3, <4>1
    <3>5. R!HandUp(kept1, i) = [kept1 EXCEPT !.list = R!RemoveAt(kept1.list, i), !.count = kept1.count - Len(g.p),
                                 !.up = g.p, !.ok = a]
      BY DEF R!HandUp
    <3>6. g.p = t
      BY <2>3, <2>7, <2>8
    <3> HIDE DEF a, h, g
    <3>61. c.list = R!RemoveAt(h, i) /\ c.count = s.count + 1 - Len(t) /\ c.up = t /\ c.ok = TRUE
      <4>1. kept1 = [s EXCEPT !.list = h, !.count = s.count + 1] /\ kept1.list = h /\ kept1.count = s.count + 1
        BY <2>7
      <4> HIDE DEF kept1
      <4>2. DOMAIN s = {"list", "count", "ok", "up"}
        BY DEF RsInputs
      <4> DEFINE v == R!RemoveAt(kept1.list, i)
                 b == kept1.count - Len(g.p)
                 o == g.p
      <4>3. c = [kept1 EXCEPT !.list = v, !.count = b, !.up = o, !.ok = a]
        BY <3>1, <3>5
      <4>4. v = R!RemoveAt(h, i) /\ b = s.count + 1 - Len(t) /\ o = t
        <5>1. v = R!RemoveAt(h, i)
          BY <4>1
        <5>2. o = t
          BY <3>6
        <5>3. b = s.count + 1 - Len(t)
          BY <1>1, <2>2, <3>6, <4>1
        <5> QED
          BY <5>1, <5>2, <5>3
      <4> HIDE DEF v, b, o, l, d
      <4>5. c.list = v
        BY <4>1, <4>2, <4>3
      <4>6. c.count = b
        BY <4>1, <4>2, <4>3
      <4>7. c.up = o
        BY <4>1, <4>2, <4>3
      <4>8. c.ok = a
        BY <4>1, <4>2, <4>3
      <4> QED
        BY <3>4, <4>4, <4>5, <4>6, <4>7, <4>8
    <3>7. R!RemoveAt(h, i) = R!RemoveAt(l, i)
      <4> DEFINE b == RemoveAt(h, i)
                 q == RemoveAt(l, i)
      <4>1. b = R!RemoveAt(h, i) /\ q = R!RemoveAt(l, i)
        BY DEF RemoveAt, R!RemoveAt
      <4>2. /\ b \in Seq(R!ip_reassdata) /\ Len(b) = Len(h) - 1
            /\ \A k \in 1..(i - 1) : b[k] = h[k]
            /\ \A k \in i..(Len(h) - 1) : b[k] = h[k + 1]
        <5> DEFINE S == R!ip_reassdata
        <5>1. h \in Seq(S) /\ i \in 1..Len(h)
          BY <2>8
        <5> HIDE DEF S
        <5> QED
          BY <5>1, TakenOut DEF S
      <4>3. /\ q \in Seq(R!ip_reassdata) /\ Len(q) = Len(l) - 1
            /\ \A k \in 1..(i - 1) : q[k] = l[k]
            /\ \A k \in i..(Len(l) - 1) : q[k] = l[k + 1]
        BY <1>1, TakenOut
      <4> HIDE DEF b, q, l
      <4>4. \A k \in 1..Len(b) : b[k] = q[k]
        <5> TAKE k \in 1..Len(b)
        <5>1. CASE k < i
          <6>1. k \in 1..(i - 1) /\ k \in 1..Len(l) /\ k # i
            BY <2>8, <4>2, <5>1
          <6> QED
            BY <2>8, <4>2, <4>3, <6>1
        <5>2. CASE ~(k < i)
          <6>1. k \in i..(Len(l) - 1) /\ k + 1 \in 1..Len(l) /\ k + 1 # i
            BY <2>8, <4>2, <5>2
          <6> QED
            BY <2>8, <4>2, <4>3, <6>1
        <5> QED
          BY <5>1, <5>2
      <4>5. b = q
        BY <2>8, <4>2, <4>3, <4>4, SeqEqual
      <4> QED
        BY <4>1, <4>5
    <3>8. c.count = R!PbufsIn(l) - Len(l[i].p) /\ c.count <= IP_REASS_MAX_PBUFS
      <4> DEFINE a1 == Len(l[i].p)
                 b1 == R!PbufsIn(l)
      <4>1. c.count = b1 + 1 - Len(t) /\ Len(t) = a1 + 1 /\ a1 \in Nat /\ b1 \in Nat
            /\ b1 + 1 <= IP_REASS_MAX_PBUFS
        BY <1>1, <1>2, <2>1, <3>61
      <4> HIDE DEF a1, b1
      <4>2. c.count = b1 - a1 /\ c.count <= IP_REASS_MAX_PBUFS
        BY <4>1, RsConstants
      <4> QED
        BY <4>2 DEF a1, b1
    <3>9. c.list = R!RemoveAt(l, i) /\ c.up # <<>> /\ RsUp(c.up, f)
      BY <2>2, <3>2, <3>61, <3>7
    <3> HIDE DEF l, d
    <3>10. RsResult(c, l, f)
      BY <1>1, <3>61, <3>8, <3>9, RsResultUp DEF l, d
    <3> QED
      BY <3>10 DEF c, l, d
  <2> QED
    BY <2>9, <2>10
<1> QED
  BY <1>5, <1>6, <1>7

-----------------------------------------------------------------------------
(* Reassembly: what a fragment does to the list.                           *)

RsIds(l) == {l[k].id : k \in 1..Len(l)}

\* Of the datagrams of l that are not in c any more, d's was handed up, and the others
\* were the oldest.
RsGiven(c, l, d) ==
    \A i \in 1..Len(l) : l[i].id \notin RsIds(c.list) =>
        IF l[i].id = d THEN c.up # <<>>
        ELSE \A j \in (i + 1)..Len(l) : l[j].id \notin RsIds(c.list) \/ l[j].id = d

RsAfter(c, l, f) ==
    /\ RsGood(c, {}) /\ c.count <= IP_REASS_MAX_PBUFS
    /\ \A k \in 1..Len(c.list) : RsAged(c.list[k])
    /\ RsUp(c.up, f)
    /\ RsGiven(c, l, f.id)

\* s is on the way, with room made in the list l.
RsMade(s, l, d) ==
    /\ s \in RsInputs /\ s.up = <<>> /\ RsGood(s, {d}) /\ s.count <= IP_REASS_MAX_PBUFS
    /\ RsKept(l, s.list, d)

\* What is left was there, the only datagram of d is left, and no datagram is left that
\* is older than one that is not, but d's.
RsPart(l, t) == \A k \in 1..Len(t) : \E j \in 1..Len(l) : t[k] = l[j]
RsOwn(l, t, d) ==
    \A i \in 1..Len(l) : l[i].id = d /\ (\A j \in 1..Len(l) : l[j].id = d => j = i) =>
        \E k \in 1..Len(t) : t[k] = l[i]
RsNewer(l, t, d) ==
    \A i \in 1..Len(l) : (\A k \in 1..Len(t) : t[k] # l[i]) /\ l[i].id # d =>
        \A k \in 1..Len(t) : t[k].id = d \/ \E m \in 1..(i - 1) : t[k] = l[m]

LEMMA RsKeptFrom ==
    ASSUME NEW l, Len(l) \in Nat, NEW t, NEW d, RsKept(l, t, d)
    PROVE  RsPart(l, t) /\ RsOwn(l, t, d) /\ RsNewer(l, t, d)
<1>1. PICK c \in 0..Len(l) :
        /\ \A k \in 1..c : t[k] = l[k]
        /\ \/ Len(t) = c /\ \A k \in (c + 1)..Len(l) : l[k].id # d
           \/ Len(t) = c + 1 /\ \E o \in (c + 1)..Len(l) : l[o].id = d /\ t[c + 1] = l[o]
  BY DEF RsKept
<1>2. CASE Len(t) = c /\ \A k \in (c + 1)..Len(l) : l[k].id # d
  <2>1. \A k \in 1..Len(t) : k \in 1..Len(l) /\ t[k] = l[k]
    BY <1>1, <1>2
  <2>2. \A i \in 1..Len(l) : l[i].id = d => i \in 1..Len(t) /\ t[i] = l[i]
    <3> TAKE i \in 1..Len(l)
    <3>1. i \in 1..c \/ i \in (c + 1)..Len(l)
      BY <1>1
    <3> QED
      BY <1>1, <1>2, <3>1
  <2>3. ASSUME NEW i \in 1..Len(l), \A k \in 1..Len(t) : t[k] # l[i], NEW k \in 1..Len(t)
        PROVE  \E m \in 1..(i - 1) : t[k] = l[m]
    <3>1. ~(i <= c)
      BY <1>1, <1>2, <2>1, <2>3
    <3>2. k \in 1..(i - 1)
      BY <1>1, <1>2, <3>1
    <3> QED
      BY <2>1, <3>2
  <2>4. RsPart(l, t)
    BY <2>1 DEF RsPart
  <2>5. RsOwn(l, t, d)
    BY <2>2 DEF RsOwn
  <2>6. RsNewer(l, t, d)
    BY <2>3 DEF RsNewer
  <2> QED
    BY <2>4, <2>5, <2>6
<1>3. CASE Len(t) = c + 1 /\ \E o \in (c + 1)..Len(l) : l[o].id = d /\ t[c + 1] = l[o]
  <2>1. PICK o \in (c + 1)..Len(l) : l[o].id = d /\ t[c + 1] = l[o]
    BY <1>3
  <2>2. \A k \in 1..Len(t) : (k \in 1..c /\ k \in 1..Len(l) /\ t[k] = l[k]) \/ (k = c + 1 /\ t[k] = l[o])
    <3> TAKE k \in 1..Len(t)
    <3>1. (k \in 1..c /\ k \in 1..Len(l)) \/ k = c + 1
      BY <1>1, <1>3
    <3>2. CASE k \in 1..c /\ k \in 1..Len(l)
      <4>1. \A m \in 1..c : t[m] = l[m]
        BY <1>1
      <4>2. t[k] = l[k]
        BY <3>2, <4>1
      <4> QED
        BY <3>2, <4>2
    <3>3. CASE k = c + 1
      BY <2>1, <3>3
    <3> QED
      BY <3>1, <3>2, <3>3
  <2>3. o \in 1..Len(l) /\ c + 1 \in 1..Len(t)
    BY <1>1, <1>3, <2>1
  <2>4. ASSUME NEW i \in 1..Len(l), \A k \in 1..Len(t) : t[k] # l[i], NEW k \in 1..Len(t), t[k].id # d
        PROVE  \E m \in 1..(i - 1) : t[k] = l[m]
    <3>1. ~(i <= c)
      <4> SUFFICES ASSUME i <= c PROVE FALSE
        OBVIOUS
      <4>1. i \in 1..c /\ i \in 1..Len(t)
        BY <1>1, <1>3
      <4> QED
        BY <1>1, <2>4, <4>1
    <3>2. k \in 1..c /\ t[k] = l[k]
      BY <2>1, <2>2, <2>4
    <3>3. k \in 1..(i - 1)
      BY <1>1, <3>1, <3>2
    <3> QED
      BY <3>2, <3>3
  <2>5. RsPart(l, t)
    BY <2>2, <2>3 DEF RsPart
  <2>6. RsOwn(l, t, d)
    BY <2>1, <2>3 DEF RsOwn
  <2>7. RsNewer(l, t, d)
    BY <2>4 DEF RsNewer
  <2> QED
    BY <2>5, <2>6, <2>7
<1> QED
  BY <1>1, <1>2, <1>3

LEMMA RsKeptGives ==
    ASSUME NEW l, RsListOK(l), NEW t, NEW d, RsKept(l, t, d)
    PROVE  /\ \A i \in 1..Len(l) : l[i].id = d => l[i].id \in RsIds(t)
           /\ \A i \in 1..Len(l) : l[i].id \notin RsIds(t) =>
                 \A j \in (i + 1)..Len(l) : l[j].id \notin RsIds(t) \/ l[j].id = d
           /\ RsIds(t) \subseteq RsIds(l)
<1>1. Len(l) \in Nat /\ \A i, j \in 1..Len(l) : l[i].id = l[j].id => i = j
  BY LenProperties DEF RsListOK
<1>2. RsPart(l, t) /\ RsOwn(l, t, d) /\ RsNewer(l, t, d)
  BY <1>1, RsKeptFrom
<1>3. \A i \in 1..Len(l) : l[i].id = d => l[i].id \in RsIds(t)
  BY <1>1, <1>2 DEF RsOwn, RsIds
<1>4. ASSUME NEW i \in 1..Len(l), l[i].id \notin RsIds(t), NEW j \in (i + 1)..Len(l),
             l[j].id \in RsIds(t), l[j].id # d
      PROVE  FALSE
  <2>1. l[i].id # d /\ \A k \in 1..Len(t) : t[k] # l[i]
    BY <1>3, <1>4 DEF RsIds
  <2>2. PICK k \in 1..Len(t) : t[k].id = l[j].id
    BY <1>4 DEF RsIds
  <2>3. PICK m \in 1..(i - 1) : t[k] = l[m]
    BY <1>2, <1>4, <2>1, <2>2 DEF RsNewer
  <2>4. m \in 1..Len(l) /\ j \in 1..Len(l) /\ m # j
    BY <1>1
  <2> QED
    BY <1>1, <2>2, <2>3, <2>4
<1>5. RsIds(t) \subseteq RsIds(l)
  BY <1>2 DEF RsPart, RsIds
<1> QED
  BY <1>3, <1>4, <1>5

LEMMA RsMadeGives ==
    ASSUME NEW l, RsListOK(l), NEW d, NEW s, RsMade(s, l, d)
    PROVE  /\ RsGiven(s, l, d)
           /\ (\A i \in 1..Len(l) : RsAged(l[i])) => \A k \in 1..Len(s.list) : RsAged(s.list[k])
           /\ \A i \in 1..Len(l) : l[i].id = d => \E k \in 1..Len(s.list) : s.list[k].id = d
           /\ \A k \in 1..Len(s.list) : s.list[k].id = d => \E i \in 1..Len(l) : l[i].id = d
           /\ (\A i \in 1..Len(l) : l[i].p # <<>>) => \A k \in 1..Len(s.list) : s.list[k].p # <<>>
<1> DEFINE t == s.list
<1>1. RsKept(l, t, d)
  BY DEF RsMade
<1>2. Len(l) \in Nat
  BY LenProperties DEF RsListOK
<1>3. \A k \in 1..Len(t) : \E j \in 1..Len(l) : t[k] = l[j]
  <2> HIDE DEF t
  <2>1. RsPart(l, t)
    BY <1>1, <1>2, RsKeptFrom
  <2> QED
    BY <2>1 DEF RsPart
<1>4. /\ \A i \in 1..Len(l) : l[i].id = d => l[i].id \in RsIds(t)
      /\ \A i \in 1..Len(l) : l[i].id \notin RsIds(t) =>
            \A j \in (i + 1)..Len(l) : l[j].id \notin RsIds(t) \/ l[j].id = d
  <2> HIDE DEF t
  <2> QED
    BY <1>1, RsKeptGives
<1>5. RsGiven(s, l, d)
  BY <1>4 DEF RsGiven
<1>6. (\A i \in 1..Len(l) : RsAged(l[i])) => \A k \in 1..Len(t) : RsAged(t[k])
  BY <1>3
<1>7. \A i \in 1..Len(l) : l[i].id = d => \E k \in 1..Len(t) : t[k].id = d
  <2> HIDE DEF t
  <2> QED
    BY <1>4 DEF RsIds
<1> QED
  BY <1>3, <1>5, <1>6, <1>7

\* Nothing came in, and what is left has fragments.
LEMMA RsMadeOnly ==
    ASSUME NEW l, RsListOK(l), \A i \in 1..Len(l) : RsAged(l[i]), NEW f, NEW d, d = f.id, NEW s, RsMade(s, l, d),
           \A k \in 1..Len(s.list) : s.list[k].p # <<>>
    PROVE  RsAfter(s, l, f)
<1>1. s.up = <<>> /\ RsGood(s, {}) /\ s.count <= IP_REASS_MAX_PBUFS
  BY DEF RsMade, RsGood
<1>2. RsGiven(s, l, f.id) /\ \A k \in 1..Len(s.list) : RsAged(s.list[k])
  BY RsMadeGives
<1> QED
  BY <1>1, <1>2 DEF RsAfter, RsUp

\* The fragment comes in.
LEMMA RsMadeIn ==
    ASSUME ver \in {4, 6}, NEW l, RsListOK(l), \A i \in 1..Len(l) : RsAged(l[i]),
           NEW f \in R!Fragments, NEW s, RsMade(s, l, f.id), s.count + 1 <= IP_REASS_MAX_PBUFS,
           \E k \in 1..Len(s.list) : s.list[k].id = f.id
    PROVE  RsAfter(R!Chain(s, R!Max(R!IndexOf(s.list, f.id)), f), l, f)
<1> DEFINE d == f.id
           t == s.list
           i == R!Max(R!IndexOf(t, d))
           c == R!Chain(s, i, f)
<1>1. PICK k \in 1..Len(t) : t[k].id = d
  OBVIOUS
<1>2. s \in RsInputs /\ RsGood(s, {d}) /\ RsListOK(t) /\ s.up = <<>>
  BY DEF RsMade, RsGood
<1>3. Len(t) \in Nat
  BY <1>2, LenProperties DEF RsListOK
<1>4. i = k
  <2> DEFINE S == {j \in DOMAIN t : t[j].id = d}
  <2>1. R!IndexOf(t, d) = S
    BY DEF R!IndexOf
  <2>2. DOMAIN t = 1..Len(t)
    BY <1>2, LenProperties DEF RsListOK
  <2>3. S = {k}
    BY <1>1, <1>2, <2>2 DEF RsListOK
  <2>4. R!Max({k}) = k
    BY <1>1, <1>3 DEF R!Max, Max
  <2> QED
    BY <2>1, <2>3, <2>4
<1>5. /\ RsGiven(s, l, d) /\ \A j \in 1..Len(t) : RsAged(t[j])
  BY RsMadeGives
<1>6. RsResult(R!Chain(s, k, f), t, f)
  BY <1>1, <1>2, <1>5, RsChained
<1>7. RsResult(c, t, f)
  BY <1>4, <1>6
<1> HIDE DEF c, i, t, d
<1>8. /\ RsGood(c, {}) /\ c.count <= IP_REASS_MAX_PBUFS
      /\ \A j \in 1..Len(c.list) : RsAged(c.list[j])
      /\ RsUp(c.up, f)
  BY <1>7 DEF RsResult
<1>9. /\ RsIds(c.list) \subseteq RsIds(t)
      /\ \A j \in 1..Len(t) : t[j].id # d \/ c.up = <<>> => t[j].id \in RsIds(c.list)
  <2>1. \A j \in 1..Len(c.list) : \E m \in 1..Len(t) : c.list[j].id = t[m].id
    BY <1>7 DEF RsResult
  <2>2. \A j \in 1..Len(t) : t[j].id # d \/ c.up = <<>> => \E m \in 1..Len(c.list) : c.list[m].id = t[j].id
    BY <1>7 DEF RsResult, d
  <2>3. RsIds(c.list) \subseteq RsIds(t)
    <3> SUFFICES ASSUME NEW e \in RsIds(c.list) PROVE e \in RsIds(t)
      OBVIOUS
    <3>1. PICK j \in 1..Len(c.list) : e = c.list[j].id
      BY DEF RsIds
    <3>2. PICK m \in 1..Len(t) : c.list[j].id = t[m].id
      BY <2>1
    <3> QED
      BY <3>1, <3>2 DEF RsIds
  <2>4. \A j \in 1..Len(t) : t[j].id # d \/ c.up = <<>> => t[j].id \in RsIds(c.list)
    BY <2>2 DEF RsIds
  <2> QED
    BY <2>3, <2>4
<1>10. \A e \in RsIds(t) : e # d \/ c.up = <<>> => e \in RsIds(c.list)
  BY <1>9 DEF RsIds
<1>11. RsGiven(c, l, d)
  <2> DEFINE O == RsIds(t)
             A == RsIds(c.list)
  <2>1. \A j \in 1..Len(l) : l[j].id \notin O =>
           IF l[j].id = d THEN s.up # <<>>
           ELSE \A m \in (j + 1)..Len(l) : l[m].id \notin O \/ l[m].id = d
    BY <1>5 DEF RsGiven, t
  <2>2. A \subseteq O /\ \A e \in O : e # d \/ c.up = <<>> => e \in A
    BY <1>9, <1>10
  <2> HIDE DEF O, A
  <2>3. ASSUME NEW j \in 1..Len(l), l[j].id \notin A
        PROVE  IF l[j].id = d THEN c.up # <<>>
               ELSE \A m \in (j + 1)..Len(l) : l[m].id \notin A \/ l[m].id = d
    <3>1. CASE l[j].id = d
      BY <1>2, <2>1, <2>2, <2>3, <3>1
    <3>2. CASE l[j].id # d
      BY <2>1, <2>2, <2>3, <3>2
    <3> QED
      BY <3>1, <3>2
  <2> QED
    BY <2>3 DEF RsGiven, A
<1> QED
  BY <1>8, <1>11 DEF RsAfter, c, i, t, d

LEMMA RsMadeNow ==
    ASSUME RsInv, NEW d
    PROVE  /\ RsMade(R!Now, reassdatagrams, d) /\ RsListOK(reassdatagrams)
           /\ R!Now.list = reassdatagrams /\ R!Now.count = ip_reass_pbufcount /\ R!Now.ok = asserted
           /\ \A i \in 1..Len(reassdatagrams) : RsAged(reassdatagrams[i]) /\ reassdatagrams[i].p # <<>>
           /\ asserted = TRUE
<1> DEFINE l == reassdatagrams
           w == [list |-> l, count |-> ip_reass_pbufcount, ok |-> asserted]
           z == [list |-> l, count |-> ip_reass_pbufcount, ok |-> asserted, up |-> <<>>]
<1>1. w.list = l /\ w.count = ip_reass_pbufcount /\ w.ok = asserted /\ RsGood(w, {})
  BY DEF RsInv
<1> HIDE DEF w
<1>2. /\ RsListOK(l) /\ l \in Seq(R!ip_reassdata) /\ ip_reass_pbufcount = R!PbufsIn(l) /\ asserted = TRUE
      /\ \A i \in 1..Len(l) : l[i].p # <<>>
  BY <1>1 DEF RsGood, RsListOK
<1>3. ip_reass_pbufcount \in Nat /\ Len(l) \in Nat
  BY <1>2, RsSum
<1>4. R!Now = z
  BY DEF R!Now
<1>5. z.list = l /\ z.count = ip_reass_pbufcount /\ z.ok = asserted /\ z.up = <<>>
  OBVIOUS
<1>6. z \in RsInputs
  <2>1. <<>> \in Seq(R!Fragments)
    OBVIOUS
  <2> QED
    BY <1>2, <1>3, <2>1 DEF RsInputs
<1> HIDE DEF z
<1>7. RsGood(z, {d})
  BY <1>2, <1>5 DEF RsGood
<1>8. RsKept(l, l, d)
  BY <1>3, RsKeptAll
<1>9. RsMade(z, l, d)
  BY <1>5, <1>6, <1>7, <1>8 DEF RsMade, RsInv
<1> QED
  BY <1>2, <1>4, <1>5, <1>9 DEF RsInv

\* More room is made.
LEMMA RsMadeMore ==
    ASSUME ver \in {4, 6}, NEW l, RsListOK(l), NEW d, NEW s, RsMade(s, l, d)
    PROVE  LET t == R!ip_reass_remove_oldest_datagram(s.list, s.count, s.ok, d, 1)
               u == R!With(s, t)
           IN  /\ RsMade(u, l, d) /\ u.count <= s.count /\ s.count \in Nat /\ u.count \in Nat
               /\ ver = 4 \/ u.count + 1 <= IP_REASS_MAX_PBUFS \/ RsOnly(u.list, d)
<1> DEFINE t == R!ip_reass_remove_oldest_datagram(s.list, s.count, s.ok, d, 1)
           u == R!With(s, t)
           a == s.list
           b == s.count
           e == s.ok
           w == [list |-> a, count |-> b, ok |-> e]
<1>1. s \in RsInputs /\ s.up = <<>> /\ RsGood(s, {d}) /\ b <= IP_REASS_MAX_PBUFS /\ RsKept(l, a, d)
  BY DEF RsMade
<1>2. e \in BOOLEAN /\ b \in Nat
  BY <1>1 DEF RsInputs
<1>3. w.list = a /\ w.count = b /\ w.ok = e
  OBVIOUS
<1>4. RsGood(w, {d})
  BY <1>1, <1>3 DEF RsGood
<1>5. t = R!ip_reass_remove_oldest_datagram(a, b, e, d, 1)
  OBVIOUS
<1>6. u = [s EXCEPT !.list = t.list, !.count = t.count, !.ok = t.ok]
  BY DEF R!With
<1> HIDE DEF t, u
<1>7. /\ t \in RsRoom(l, b, d)
      /\ ver = 4 \/ t.count + 1 <= IP_REASS_MAX_PBUFS \/ RsOnly(t.list, d)
  <2> HIDE DEF a, b, e
  <2> QED
    BY <1>1, <1>2, <1>4, <1>5, RsLoop DEF a, b, e
<1>8. /\ RsGood(t, {d}) /\ t.count <= b /\ RsKept(l, t.list, d)
      /\ t.list \in Seq(R!ip_reassdata) /\ t.count \in Nat /\ t.ok \in BOOLEAN
  BY <1>7 DEF RsRoom, RsRoomFor, RsStates
<1>9. u.list = t.list /\ u.count = t.count /\ u.ok = t.ok /\ u.up = s.up /\ u \in RsInputs
  BY <1>1, <1>6, <1>8 DEF RsInputs
<1>10. RsGood(u, {d})
  BY <1>8, <1>9 DEF RsGood
<1>11. u.count <= IP_REASS_MAX_PBUFS
  BY <1>1, <1>2, <1>8, <1>9, RsConstants
<1>12. RsMade(u, l, d)
  BY <1>1, <1>8, <1>9, <1>10, <1>11 DEF RsMade
<1> QED
  BY <1>2, <1>7, <1>8, <1>9, <1>12 DEF t, u

RsEnteredIn(l, f) == <<R!NewDatagram(f)>> \o l
RsEntered(s, f) == [s EXCEPT !.list = <<R!NewDatagram(f)>> \o @]
RsHas(l, d) == \E k \in 1..Len(l) : l[k].id = d
RsFront(a, l, d) ==
    /\ RsListOK(a) /\ Len(a) = Len(l) + 1 /\ Len(l) \in Nat
    /\ a[1].id = d /\ RsAged(a[1]) /\ \A k \in 1..Len(l) : a[k + 1] = l[k]

\* An entry for d is made, in front.
LEMMA RsMadeFront ==
    ASSUME NEW l, RsListOK(l), NEW f \in R!Fragments, NEW s, RsMade(s, l, f.id),
           \A i \in 1..Len(l) : l[i].id # f.id
    PROVE  /\ RsMade(RsEntered(s, f), RsEnteredIn(l, f), f.id) /\ RsEntered(s, f).count = s.count
           /\ RsFront(RsEnteredIn(l, f), l, f.id) /\ RsHas(RsEntered(s, f).list, f.id)
<1> DEFINE d == f.id
           e == <<R!NewDatagram(f)>>
           t == s.list
           b == e \o t
           a == e \o l
           u == [s EXCEPT !.list = b]
<1>1. s \in RsInputs /\ s.up = <<>> /\ RsGood(s, {d}) /\ s.count <= IP_REASS_MAX_PBUFS /\ RsKept(l, t, d)
  BY DEF RsMade
<1>2. RsListOK(t) /\ s.count = R!PbufsIn(t) /\ s.ok = TRUE
  BY <1>1 DEF RsGood
<1>3. \A k \in 1..Len(t) : t[k].id # d
  <2> SUFFICES ASSUME NEW k \in 1..Len(s.list), s.list[k].id = d PROVE FALSE
    OBVIOUS
  <2>1. RsMade(s, l, d)
    OBVIOUS
  <2>2. \E i \in 1..Len(l) : l[i].id = d
    <3> HIDE DEF d
    <3> QED
      BY <2>1, RsMadeGives
  <2> QED
    BY <2>2
<1>4. /\ RsListOK(a) /\ Len(l) \in Nat /\ Len(a) = Len(l) + 1
      /\ a[1] = R!NewDatagram(f) /\ a[1].id = f.id /\ a[1].p = <<>> /\ RsAged(a[1])
      /\ \A k \in 1..Len(l) : a[k + 1] = l[k]
  BY RsLonger
<1>14. RsEntered(s, f) = u /\ RsEnteredIn(l, f) = a
  BY DEF RsEntered, RsEnteredIn
<1>5. /\ RsListOK(b) /\ Len(t) \in Nat /\ Len(b) = Len(t) + 1
      /\ b[1] = R!NewDatagram(f) /\ b[1].id = d
      /\ \A k \in 1..Len(t) : b[k + 1] = t[k]
      /\ R!PbufsIn(b) = R!PbufsIn(t)
  <2> HIDE DEF t
  <2> QED
    BY <1>2, <1>3, RsLonger
<1> HIDE DEF a, b
<1>6. u.list = b /\ u.count = s.count /\ u.ok = TRUE /\ u.up = s.up /\ u \in RsInputs
  BY <1>1, <1>2, <1>5 DEF RsInputs, RsListOK, b
<1>7. RsGood(u, {d})
  <2>1. \A k \in 1..Len(b) : k # 1 => b[k].id # d /\ k - 1 \in 1..Len(t)
    <3> TAKE k \in 1..Len(b)
    <3> SUFFICES ASSUME k # 1 PROVE b[k].id # d /\ k - 1 \in 1..Len(t)
      OBVIOUS
    <3>1. k - 1 \in 1..Len(t) /\ (k - 1) + 1 = k
      BY <1>5
    <3>2. b[k] = t[k - 1]
      BY <1>5, <3>1
    <3> QED
      BY <1>3, <3>1, <3>2
  <2>2. \A k \in 1..Len(b) : b[k].p = <<>> => b[k].id \in {d}
    <3> TAKE k \in 1..Len(b)
    <3> SUFFICES ASSUME k # 1, b[k].p = <<>> PROVE FALSE
      BY <1>5
    <3>1. k - 1 \in 1..Len(t) /\ (k - 1) + 1 = k
      BY <1>5
    <3>2. b[k] = t[k - 1]
      BY <1>5, <3>1
    <3>3. t[k - 1].p = <<>> => t[k - 1].id \in {d}
      BY <1>1, <3>1 DEF RsGood
    <3> QED
      BY <1>3, <3>1, <3>2, <3>3
  <2> HIDE DEF u
  <2> QED
    BY <1>2, <1>5, <1>6, <2>2 DEF RsGood
<1> HIDE DEF u
<1>8. RsKept(a, b, d)
  <2>1. PICK c \in 0..Len(l) :
          /\ \A k \in 1..c : t[k] = l[k]
          /\ \/ Len(t) = c /\ \A k \in (c + 1)..Len(l) : l[k].id # d
             \/ Len(t) = c + 1 /\ \E o \in (c + 1)..Len(l) : l[o].id = d /\ t[c + 1] = l[o]
    BY <1>1 DEF RsKept
  <2>2. Len(t) = c
    <3>1. \A o \in (c + 1)..Len(l) : o \in 1..Len(l)
      BY <1>4, <2>1
    <3> QED
      BY <2>1, <3>1
  <2> DEFINE m == c + 1
  <2>3. m \in 0..Len(a) /\ Len(b) = m
    BY <1>4, <1>5, <2>1, <2>2
  <2>4. \A k \in 1..m : b[k] = a[k]
    <3> TAKE k \in 1..m
    <3>1. CASE k = 1
      BY <1>4, <1>5, <3>1
    <3>2. CASE k # 1
      <4>1. k - 1 \in 1..c /\ k - 1 \in 1..Len(l) /\ k - 1 \in 1..Len(t) /\ (k - 1) + 1 = k
        BY <1>4, <2>1, <2>2, <3>2
      <4> QED
        BY <1>4, <1>5, <2>1, <4>1
    <3> QED
      BY <3>1, <3>2
  <2>5. \A k \in (m + 1)..Len(a) : a[k].id # d
    <3> TAKE k \in (m + 1)..Len(a)
    <3>1. k - 1 \in 1..Len(l) /\ (k - 1) + 1 = k
      BY <1>4, <2>1
    <3>2. a[k] = l[k - 1]
      BY <1>4, <3>1
    <3> QED
      BY <3>1, <3>2
  <2> HIDE DEF m
  <2> QED
    BY <2>3, <2>4, <2>5 DEF RsKept
<1>9. RsMade(u, a, d)
  BY <1>1, <1>6, <1>7, <1>8 DEF RsMade
<1>10. 1 \in 1..Len(b)
  BY <1>5
<1>11. \E k \in 1..Len(u.list) : u.list[k].id = d
  BY <1>5, <1>6, <1>10
<1>12. RsHas(u.list, d)
  BY <1>11 DEF RsHas
<1>13. RsFront(a, l, d)
  BY <1>4 DEF RsFront
<1> QED
  BY <1>6, <1>9, <1>12, <1>13, <1>14

LEMMA RsAfterFront ==
    ASSUME NEW l, Len(l) \in Nat, NEW a, Len(a) = Len(l) + 1, \A k \in 1..Len(l) : a[k + 1] = l[k],
           NEW f, NEW c, RsAfter(c, a, f)
    PROVE  RsAfter(c, l, f)
<1>1. ASSUME NEW i \in 1..Len(l), l[i].id \notin RsIds(c.list)
      PROVE  IF l[i].id = f.id THEN c.up # <<>>
             ELSE \A j \in (i + 1)..Len(l) : l[j].id \notin RsIds(c.list) \/ l[j].id = f.id
  <2>1. i + 1 \in 1..Len(a) /\ a[i + 1] = l[i]
    OBVIOUS
  <2>2. IF a[i + 1].id = f.id THEN c.up # <<>>
        ELSE \A j \in ((i + 1) + 1)..Len(a) : a[j].id \notin RsIds(c.list) \/ a[j].id = f.id
    BY <1>1, <2>1 DEF RsAfter, RsGiven
  <2>3. \A j \in (i + 1)..Len(l) : j + 1 \in ((i + 1) + 1)..Len(a) /\ j \in 1..Len(l) /\ a[j + 1] = l[j]
    OBVIOUS
  <2>4. CASE l[i].id = f.id
    BY <2>1, <2>2, <2>4
  <2>5. CASE l[i].id # f.id
    BY <2>1, <2>2, <2>3, <2>5
  <2> QED
    BY <2>4, <2>5
<1> QED
  BY <1>1 DEF RsAfter, RsGiven

LEMMA RsInput4 ==
    ASSUME RsInv, ver = 4, NEW f \in R!Fragments, NEW oom \in 0..2
    PROVE  RsAfter(R!ip4_reass(f, oom), reassdatagrams, f)
<1> DEFINE l == reassdatagrams
           d == f.id
           full == ip_reass_pbufcount + 1 > IP_REASS_MAX_PBUFS
           room == R!ip_reass_remove_oldest_datagram(reassdatagrams, ip_reass_pbufcount, asserted, d, 1)
           s == IF full THEN R!With(R!Now, room) ELSE R!Now
           again == R!ip_reass_remove_oldest_datagram(s.list, s.count, s.ok, d, 1)
           new == R!IndexOf(s.list, d) = {}
           t == IF new /\ oom > 0 THEN R!With(s, again) ELSE s
           u == IF new THEN [t EXCEPT !.list = <<R!NewDatagram(f)>> \o @] ELSE t
           c == R!ip4_reass(f, oom)
           early == full /\ (room.freed = 0 \/ s.count + 1 > IP_REASS_MAX_PBUFS)
           none == new /\ oom > 0 /\ (oom = 2 \/ again.freed < 1)
<1>1. c = IF early THEN s ELSE IF none THEN t ELSE R!Chain(u, R!Max(R!IndexOf(u.list, d)), f)
  BY DEF R!ip4_reass
<1>2. /\ RsMade(R!Now, l, d) /\ RsListOK(l)
      /\ R!Now.list = l /\ R!Now.count = ip_reass_pbufcount /\ R!Now.ok = asserted
      /\ \A i \in 1..Len(l) : RsAged(l[i]) /\ l[i].p # <<>>
  BY RsMadeNow
<1> HIDE DEF c
<1>3. RsMade(s, l, d) /\ s.count \in Nat
  <2>1. CASE full
    <3> DEFINE q == R!Now
               o == R!ip_reass_remove_oldest_datagram(q.list, q.count, q.ok, d, 1)
    <3>1. o = room /\ s = R!With(q, o)
      BY <1>2, <2>1
    <3>2. RsMade(q, l, d) /\ ver \in {4, 6}
      BY <1>2
    <3>3. RsMade(R!With(q, o), l, d) /\ R!With(q, o).count \in Nat
      <4> HIDE DEF q, l, d
      <4> QED
        BY <1>2, <3>2, RsMadeMore DEF l
    <3> QED
      BY <3>1, <3>3
  <2>2. CASE ~full
    <3>1. s = R!Now
      BY <2>2
    <3>2. ip_reass_pbufcount \in Nat
      BY <1>2 DEF RsMade, RsInputs
    <3> QED
      BY <1>2, <3>1, <3>2
  <2> QED
    BY <2>1, <2>2
<1>4. ~early => s.count + 1 <= IP_REASS_MAX_PBUFS
  <2>1. CASE full
    BY <1>3, <2>1, RsConstants
  <2>2. CASE ~full
    <3>1. s.count = ip_reass_pbufcount /\ s.count \in Nat
      BY <1>2, <1>3, <2>2
    <3> QED
      BY <2>2, <3>1, RsConstants
  <2> QED
    BY <2>1, <2>2
<1> HIDE DEF s, early, room
<1>5. RsMade(t, l, d) /\ t.count <= s.count /\ t.count \in Nat
  <2>1. CASE new /\ oom > 0
    <3> DEFINE o == R!With(s, again)
    <3>1. RsMade(o, l, d) /\ o.count <= s.count /\ o.count \in Nat
      <4> HIDE DEF l, d
      <4> QED
        BY <1>2, <1>3, RsMadeMore DEF l
    <3>2. t = o
      BY <2>1
    <3> QED
      BY <3>1, <3>2
  <2>2. CASE ~(new /\ oom > 0)
    <3>1. t = s
      BY <2>2
    <3> QED
      BY <1>3, <3>1
  <2> QED
    BY <2>1, <2>2
<1>6. \A q : RsMade(q, l, d) => RsAfter(q, l, f)
  <2>1. d = f.id
    OBVIOUS
  <2> HIDE DEF l, d
  <2> TAKE q
  <2> HAVE RsMade(q, l, d)
  <2>2. \A k \in 1..Len(q.list) : q.list[k].p # <<>>
    BY <1>2, RsMadeGives
  <2> QED
    BY <1>2, <2>1, <2>2, RsMadeOnly
<1>7. CASE early \/ none
  <2>1. c = s \/ c = t
    BY <1>1, <1>7
  <2> QED
    BY <1>3, <1>5, <1>6, <2>1 DEF c, l, d
<1>8. CASE ~early /\ ~none /\ new
  <2> DEFINE w == [t EXCEPT !.list = <<R!NewDatagram(f)>> \o @]
             a == <<R!NewDatagram(f)>> \o l
  <2>1. c = R!Chain(w, R!Max(R!IndexOf(w.list, d)), f)
    BY <1>1, <1>8
  <2>2. \A i \in 1..Len(l) : l[i].id # d
    <3>1. \A k \in 1..Len(s.list) : s.list[k].id # d
      <4>1. DOMAIN s.list = 1..Len(s.list)
        BY <1>3 DEF RsMade, RsInputs
      <4> QED
        BY <1>8, <4>1 DEF R!IndexOf
    <3> HIDE DEF l, d, new
    <3> QED
      BY <1>2, <1>3, <3>1, RsMadeGives
  <2>3. /\ RsMade(w, a, d) /\ w.count = t.count /\ RsListOK(a)
        /\ Len(a) = Len(l) + 1 /\ Len(l) \in Nat
        /\ a[1].id = d /\ RsAged(a[1]) /\ \A k \in 1..Len(l) : a[k + 1] = l[k]
        /\ \E k \in 1..Len(w.list) : w.list[k].id = d
    <3>1. w = RsEntered(t, f) /\ a = RsEnteredIn(l, f)
      BY DEF RsEntered, RsEnteredIn
    <3> HIDE DEF l, t, w, a
    <3>2. /\ RsMade(RsEntered(t, f), RsEnteredIn(l, f), f.id) /\ RsEntered(t, f).count = t.count
          /\ RsFront(RsEnteredIn(l, f), l, f.id) /\ RsHas(RsEntered(t, f).list, f.id)
      BY <1>2, <1>5, <2>2, RsMadeFront
    <3> QED
      BY <3>1, <3>2 DEF RsFront, RsHas
  <2>4. \A i \in 1..Len(a) : RsAged(a[i])
    <3> TAKE i \in 1..Len(a)
    <3>1. CASE i = 1
      BY <2>3, <3>1
    <3>2. CASE i # 1
      <4>1. i - 1 \in 1..Len(l) /\ (i - 1) + 1 = i
        BY <2>3, <3>2
      <4>2. a[i] = l[i - 1] /\ RsAged(l[i - 1])
        BY <1>2, <2>3, <4>1
      <4> QED
        BY <4>2
    <3> QED
      BY <3>1, <3>2
  <2>5. w.count + 1 <= IP_REASS_MAX_PBUFS
    BY <1>3, <1>4, <1>5, <1>8, <2>3, RsConstants
  <2> HIDE DEF w, a, l
  <2>6. RsAfter(R!Chain(w, R!Max(R!IndexOf(w.list, f.id)), f), a, f)
    BY <2>3, <2>4, <2>5, RsMadeIn
  <2>7. RsAfter(c, a, f)
    BY <2>1, <2>6
  <2> HIDE DEF d
  <2>8. RsAfter(c, l, f)
    BY <2>3, <2>7, RsAfterFront
  <2> QED
    BY <2>8 DEF c, l, d
<1>9. CASE ~early /\ ~none /\ ~new
  <2>1. c = R!Chain(s, R!Max(R!IndexOf(s.list, d)), f)
    BY <1>1, <1>9
  <2>2. \E k \in 1..Len(s.list) : s.list[k].id = d
    <3>1. DOMAIN s.list = 1..Len(s.list)
      BY <1>3 DEF RsMade, RsInputs
    <3> QED
      BY <1>9, <3>1 DEF R!IndexOf
  <2> HIDE DEF l, new
  <2>3. RsAfter(R!Chain(s, R!Max(R!IndexOf(s.list, f.id)), f), l, f)
    BY <1>2, <1>3, <1>4, <1>9, <2>2, RsMadeIn
  <2> QED
    BY <2>1, <2>3 DEF c, l
<1> QED
  BY <1>7, <1>8, <1>9

LEMMA RsInput6 ==
    ASSUME RsInv, ver = 6, NEW f \in R!Fragments, NEW oom \in 0..2
    PROVE  RsAfter(R!ip6_reass(f, oom), reassdatagrams, f)
<1> DEFINE l == reassdatagrams
           d == f.id
           new == R!IndexOf(reassdatagrams, d) = {}
           room == R!ip_reass_remove_oldest_datagram(reassdatagrams, ip_reass_pbufcount, asserted, d, 1)
           s == IF new /\ oom > 0 THEN R!With(R!Now, room) ELSE R!Now
           t == IF new THEN [s EXCEPT !.list = <<R!NewDatagram(f)>> \o @] ELSE s
           full == t.count + 1 > IP_REASS_MAX_PBUFS
           more == R!ip_reass_remove_oldest_datagram(t.list, t.count, t.ok, d, 1)
           u == IF full THEN R!With(t, more) ELSE t
           c == R!ip6_reass(f, oom)
           none == new /\ oom > 0 /\ (oom = 2 \/ s.list = reassdatagrams)
           early == u.count + 1 > IP_REASS_MAX_PBUFS
           a == IF new THEN <<R!NewDatagram(f)>> \o l ELSE l
<1>1. c = IF none THEN s ELSE IF early THEN u ELSE R!Chain(u, R!Max(R!IndexOf(u.list, d)), f)
  BY DEF R!ip6_reass
<1>2. /\ RsMade(R!Now, l, d) /\ RsListOK(l) /\ l \in Seq(R!ip_reassdata)
      /\ R!Now.list = l /\ R!Now.count = ip_reass_pbufcount /\ R!Now.ok = asserted
      /\ \A i \in 1..Len(l) : RsAged(l[i]) /\ l[i].p # <<>>
  BY RsMadeNow DEF RsListOK
<1>3. new <=> \A i \in 1..Len(l) : l[i].id # d
  <2>1. DOMAIN l = 1..Len(l)
    BY <1>2
  <2> QED
    BY <2>1 DEF R!IndexOf
<1> HIDE DEF c, new
<1>4. RsMade(s, l, d) /\ s.count \in Nat
  <2>1. CASE new /\ oom > 0
    <3> DEFINE q == R!Now
               o == R!ip_reass_remove_oldest_datagram(q.list, q.count, q.ok, d, 1)
    <3>1. o = room /\ s = R!With(q, o)
      BY <1>2, <2>1
    <3>2. RsMade(q, l, d) /\ ver \in {4, 6}
      BY <1>2
    <3>3. RsMade(R!With(q, o), l, d) /\ R!With(q, o).count \in Nat
      <4> HIDE DEF q, l, d
      <4> QED
        BY <1>2, <3>2, RsMadeMore DEF l
    <3> QED
      BY <3>1, <3>3
  <2>2. CASE ~(new /\ oom > 0)
    <3>1. s = R!Now
      BY <2>2
    <3>2. ip_reass_pbufcount \in Nat
      BY <1>2 DEF RsMade, RsInputs
    <3> QED
      BY <1>2, <3>1, <3>2
  <2> QED
    BY <2>1, <2>2
<1> HIDE DEF s, room
<1>5. /\ RsMade(t, a, d) /\ RsListOK(a) /\ Len(a) \in Nat
      /\ \A i \in 1..Len(a) : RsAged(a[i])
      /\ \E i \in 1..Len(a) : a[i].id = d
      /\ \A q : RsAfter(q, a, f) => RsAfter(q, l, f)
  <2>1. CASE new
    <3> DEFINE w == [s EXCEPT !.list = <<R!NewDatagram(f)>> \o @]
               e == <<R!NewDatagram(f)>> \o l
    <3>1. /\ RsMade(w, e, d) /\ RsListOK(e)
          /\ Len(e) = Len(l) + 1 /\ Len(l) \in Nat
          /\ e[1].id = d /\ RsAged(e[1]) /\ \A k \in 1..Len(l) : e[k + 1] = l[k]
      <4>1. w = RsEntered(s, f) /\ e = RsEnteredIn(l, f)
        BY DEF RsEntered, RsEnteredIn
      <4> HIDE DEF l, w, e
      <4>2. RsMade(RsEntered(s, f), RsEnteredIn(l, f), f.id) /\ RsFront(RsEnteredIn(l, f), l, f.id)
        BY <1>2, <1>3, <1>4, <2>1, RsMadeFront
      <4> QED
        BY <4>1, <4>2 DEF RsFront
    <3>2. t = w /\ a = e
      BY <2>1
    <3> HIDE DEF w, e, t, a, l
    <3>3. \A i \in 1..Len(e) : RsAged(e[i])
      <4> TAKE i \in 1..Len(e)
      <4>1. CASE i = 1
        BY <3>1, <4>1
      <4>2. CASE i # 1
        <5>1. i - 1 \in 1..Len(l) /\ (i - 1) + 1 = i
          BY <3>1, <4>2
        <5>2. e[i] = l[i - 1] /\ RsAged(l[i - 1])
          BY <1>2, <3>1, <5>1
        <5> QED
          BY <5>2
      <4> QED
        BY <4>1, <4>2
    <3>4. \A q : RsAfter(q, e, f) => RsAfter(q, l, f)
      <4> HIDE DEF d
      <4> QED
        BY <3>1, RsAfterFront
    <3>5. 1 \in 1..Len(e)
      BY <3>1
    <3>6. \E i \in 1..Len(e) : e[i].id = d
      BY <3>1, <3>5
    <3>7. Len(e) \in Nat
      BY <3>1
    <3> QED
      BY <3>1, <3>2, <3>3, <3>4, <3>6, <3>7
  <2>2. CASE ~new
    <3>1. t = s /\ a = l
      BY <2>2
    <3>2. Len(l) \in Nat
      BY <1>2
    <3>3. \E i \in 1..Len(l) : l[i].id = d
      BY <1>3, <2>2
    <3> HIDE DEF t, a
    <3> QED
      BY <1>2, <1>4, <3>1, <3>2, <3>3
  <2> QED
    BY <2>1, <2>2
<1> HIDE DEF t, a
<1>6. /\ RsMade(u, a, d) /\ u.count \in Nat
      /\ early => RsOnly(u.list, d)
  <2>1. CASE full
    <3> DEFINE o == R!With(t, more)
    <3>1. RsMade(o, a, d) /\ o.count \in Nat
          /\ (ver = 4 \/ o.count + 1 <= IP_REASS_MAX_PBUFS \/ RsOnly(o.list, d))
      <4> HIDE DEF d, l
      <4> QED
        BY <1>5, RsMadeMore
    <3>2. u = o
      BY <2>1
    <3> HIDE DEF o, u
    <3>3. early => RsOnly(u.list, d)
      BY <3>1, <3>2, RsConstants
    <3> QED
      BY <3>1, <3>2, <3>3
  <2>2. CASE ~full
    <3>1. u = t
      BY <2>2
    <3>2. t.count \in Nat
      BY <1>5 DEF RsMade, RsInputs
    <3>3. ~early
      BY <2>2, <3>1, <3>2, RsConstants
    <3> QED
      BY <1>5, <3>1, <3>2, <3>3
  <2> QED
    BY <2>1, <2>2
<1> HIDE DEF u, more
<1>7. CASE none
  <2>1. c = s
    BY <1>1, <1>7
  <2>2. d = f.id
    OBVIOUS
  <2> HIDE DEF l, d
  <2>3. \A k \in 1..Len(s.list) : s.list[k].p # <<>>
    BY <1>2, <1>4, RsMadeGives
  <2>4. RsAfter(s, l, f)
    BY <1>2, <1>4, <2>2, <2>3, RsMadeOnly
  <2> QED
    BY <2>1, <2>4 DEF c, l, d
<1>8. CASE ~none /\ early
  <2>1. c = u /\ RsOnly(u.list, d)
    BY <1>1, <1>6, <1>8
  <2>2. RsListOK(u.list) /\ u.count = R!PbufsIn(u.list) /\ u.list \in Seq(R!ip_reassdata)
    BY <1>6 DEF RsMade, RsGood, RsListOK
  <2>3. ASSUME NEW k \in 1..Len(u.list), u.list[k].p = <<>>
        PROVE  FALSE
    <3> DEFINE v == u.list
    <3>1. \A j \in 1..Len(v) : j = k
      BY <2>1, <2>2 DEF RsOnly, RsListOK
    <3>2. \A j \in 1..Len(v) : v[j].p = <<>>
      BY <2>3, <3>1
    <3>3. v \in Seq(R!ip_reassdata) /\ u.count = R!PbufsIn(v)
      BY <2>2
    <3> HIDE DEF v
    <3>4. u.count = 0
      BY <3>2, <3>3, RsNoPbufs
    <3> QED
      BY <1>8, <3>4, RsConstants
  <2>4. d = f.id
    OBVIOUS
  <2> HIDE DEF d, l
  <2>5. RsAfter(u, a, f)
    BY <1>5, <1>6, <2>3, <2>4, RsMadeOnly
  <2> QED
    BY <1>5, <2>1, <2>5 DEF c, l, d
<1>9. CASE ~none /\ ~early
  <2>1. c = R!Chain(u, R!Max(R!IndexOf(u.list, d)), f)
    BY <1>1, <1>9
  <2>2. \E k \in 1..Len(u.list) : u.list[k].id = d
    <3> HIDE DEF d
    <3> QED
      BY <1>5, <1>6, RsMadeGives
  <2>3. u.count + 1 <= IP_REASS_MAX_PBUFS
    BY <1>6, <1>9, RsConstants
  <2> HIDE DEF l
  <2>4. RsAfter(R!Chain(u, R!Max(R!IndexOf(u.list, f.id)), f), a, f)
    BY <1>5, <1>6, <2>2, <2>3, RsMadeIn
  <2> QED
    BY <1>5, <2>1, <2>4 DEF c, l, d
<1> QED
  BY <1>7, <1>8, <1>9

-----------------------------------------------------------------------------
(* Reassembly: the timer.                                                  *)

LEMMA RsOlder ==
    ASSUME NEW l, RsListOK(l)
    PROVE  /\ RsListOK(R!Older(l)) /\ Len(R!Older(l)) = Len(l) /\ Len(l) \in Nat
           /\ R!PbufsIn(R!Older(l)) = R!PbufsIn(l)
           /\ \A i \in 1..Len(l) : R!Older(l)[i].p = l[i].p
           /\ \A i \in 1..Len(l) : RsAged(l[i]) /\ (timed => R!Kept(l)[i]) => RsAged(R!Older(l)[i])
<1> DEFINE S == R!ip_reassdata
           n == Len(l)
           t == R!Older(l)
           A(i) == IF ~timed \/ l[i].age > IP_REASS_MAXAGE THEN l[i].age ELSE l[i].age + 1
           M(i) == IF timed /\ l[i].timer > 0 THEN l[i].timer - 1 ELSE l[i].timer
           e(i) == [l[i] EXCEPT !.age = A(i), !.timer = M(i)]
<1>1. l \in Seq(S) /\ n \in Nat /\ DOMAIN l = 1..n
  BY LenProperties DEF RsListOK
<1>2. t = [i \in 1..n |-> e(i)]
  BY <1>1 DEF R!Older
<1>3. \A i \in 1..n : /\ l[i] \in S /\ l[i].timer \in Nat /\ l[i].timer <= IP_REASS_MAXAGE /\ l[i].age \in Nat
                      /\ l[i].age <= IP_REASS_MAXAGE + 1
  <2> TAKE i \in 1..n
  <2>1. l[i] \in S
    BY <1>1, RsEntry
  <2>2. l[i].age \in 0..(IP_REASS_MAXAGE + 1)
    BY <2>1 DEF R!ip_reassdata
  <2> QED
    BY <1>1, <2>1, <2>2, RsEntry, RsConstants
<1>4. \A i \in 1..n : A(i) \in 0..(IP_REASS_MAXAGE + 1) /\ M(i) \in 0..IP_REASS_MAXAGE
  BY <1>3, RsConstants
<1>5. \A i \in 1..n : M(i) = IF timed /\ l[i].timer > 0 THEN l[i].timer - 1 ELSE l[i].timer
  OBVIOUS
<1>6. \A i \in 1..n : A(i) = IF ~timed \/ l[i].age > IP_REASS_MAXAGE THEN l[i].age ELSE l[i].age + 1
  OBVIOUS
<1>7. \A i \in 1..n : e(i) = [l[i] EXCEPT !.age = A(i), !.timer = M(i)]
  OBVIOUS
<1> HIDE DEF n, t, A, M, e
<1>8. \A i \in 1..n : /\ e(i) \in S /\ e(i).id = l[i].id /\ e(i).p = l[i].p /\ e(i).last = l[i].last
                      /\ e(i).datagram_len = l[i].datagram_len /\ e(i).timer = M(i) /\ e(i).age = A(i)
  <2> TAKE i \in 1..n
  <2>1. l[i] \in S
    BY <1>3
  <2>2. A(i) \in 0..(IP_REASS_MAXAGE + 1) /\ M(i) \in 0..IP_REASS_MAXAGE
    BY <1>4
  <2> QED
    BY <1>7, <2>1, <2>2 DEF R!ip_reassdata
<1>9. t \in Seq(S) /\ Len(t) = n /\ \A i \in 1..n : t[i] = e(i)
  <2> HIDE DEF S
  <2> QED
    BY <1>1, <1>2, <1>8
<1>10. \A i, j \in 1..n : l[i].id = l[j].id => i = j
  BY DEF RsListOK, n
<1>11. \A i, j \in 1..n : i < j => l[j].timer <= l[i].timer
  BY DEF RsListOK, n
<1>12. \A i \in 1..n : RsEntryOK(l[i]) /\ Len(l[i].p) < Parts
  BY DEF RsListOK, n
<1>13. \A i, j \in 1..n : i < j => t[j].timer <= t[i].timer
  <2> TAKE i, j \in 1..n
  <2> HAVE i < j
  <2> DEFINE a == l[i].timer
             b == l[j].timer
  <2>1. a \in Nat /\ b \in Nat /\ b <= a
    BY <1>3, <1>11
  <2>2. M(i) = (IF timed /\ a > 0 THEN a - 1 ELSE a) /\ M(j) = (IF timed /\ b > 0 THEN b - 1 ELSE b)
    BY <1>5
  <2> HIDE DEF a, b
  <2>3. M(j) <= M(i)
    BY <2>1, <2>2
  <2> QED
    BY <1>8, <1>9, <2>3
<1>14. \A i \in 1..n : RsEntryOK(t[i]) /\ Len(t[i].p) < Parts
  <2> TAKE i \in 1..n
  <2>1. /\ t[i].id = l[i].id /\ t[i].p = l[i].p /\ t[i].last = l[i].last
        /\ t[i].datagram_len = l[i].datagram_len
    BY <1>8, <1>9
  <2> QED
    BY <1>12, <2>1 DEF RsEntryOK
<1>15. RsListOK(t)
  <2>1. \A i, j \in 1..n : t[i].id = t[j].id => i = j
    BY <1>8, <1>9, <1>10
  <2> QED
    BY <1>9, <1>13, <1>14, <2>1 DEF RsListOK
<1>16. R!PbufsIn(t) = R!PbufsIn(l)
  BY <1>1, <1>8, <1>9, RsSamePbufs DEF n
<1>17. ASSUME NEW i \in 1..n, RsAged(l[i]), timed => R!Kept(l)[i]
       PROVE  RsAged(t[i])
  <2> SUFFICES ASSUME timed PROVE A(i) + M(i) = IP_REASS_MAXAGE
    BY <1>8, <1>9 DEF RsAged
  <2>1. l[i].timer > 0
    BY <1>1, <1>17 DEF R!Kept
  <2>2. l[i].age + l[i].timer = IP_REASS_MAXAGE
    BY <1>17 DEF RsAged
  <2> DEFINE a == l[i].age
             b == l[i].timer
  <2>3. a \in Nat /\ b \in Nat /\ b > 0 /\ a + b = IP_REASS_MAXAGE
    BY <1>3, <2>1, <2>2
  <2>4. A(i) = (IF ~timed \/ a > IP_REASS_MAXAGE THEN a ELSE a + 1) /\ M(i) = (IF timed /\ b > 0 THEN b - 1 ELSE b)
    BY <1>5, <1>6
  <2> HIDE DEF a, b
  <2> QED
    BY <2>3, <2>4, RsConstants
<1> QED
  BY <1>1, <1>8, <1>9, <1>15, <1>16, <1>17 DEF n, t

RsTimes == {s \in [list : Seq(R!ip_reassdata), count : Nat, ok : BOOLEAN] : RsGood(s, {})}

\* One turn of the timer's loop, from the end of the list.
LEMMA RsExpire ==
    ASSUME ver \in {4, 6}, NEW s \in RsTimes, NEW i \in 1..Len(s.list), NEW kept
    PROVE  LET t == R!Expire(s, i, kept)
           IN  /\ t \in RsTimes /\ t.count <= s.count
               /\ Len(s.list) \in Nat
               /\ \/ ~(timed /\ ~kept[i]) /\ t = s
                  \/ /\ Len(t.list) = Len(s.list) - 1
                     /\ \A k \in 1..(i - 1) : t.list[k] = s.list[k]
                     /\ \A k \in i..(Len(s.list) - 1) : t.list[k] = s.list[k + 1]
<1> DEFINE l == R!RemoveAt(s.list, i)
           c == s.count - Len(s.list[i].p)
           w == [list |-> l, count |-> c, ok |-> TRUE]
           t == R!Expire(s, i, kept)
<1>1. /\ s \in [list : Seq(R!ip_reassdata), count : Nat, ok : BOOLEAN] /\ RsGood(s, {})
      /\ s.list \in Seq(R!ip_reassdata) /\ s.count \in Nat
  BY DEF RsTimes
<1>2. s.list[i].p # <<>> /\ Len(s.list) \in Nat
  BY <1>1 DEF RsGood
<1>3. CASE timed /\ ~kept[i]
  <2>1. t = R!ip_reass_free_complete_datagram(s, i)
    BY <1>3 DEF R!Expire
  <2> HIDE DEF t
  <2>2. /\ t = [s EXCEPT !.list = l, !.count = c, !.ok = TRUE]
        /\ RsGood([list |-> l, count |-> c, ok |-> TRUE], {})
        /\ c \in Nat /\ c <= s.count /\ Len(s.list) \in Nat /\ Len(l) = Len(s.list) - 1
        /\ \A k \in 1..(i - 1) : l[k] = s.list[k]
        /\ \A k \in i..(Len(s.list) - 1) : l[k] = s.list[k + 1]
    <3> HIDE DEF w
    <3>1. /\ R!ip_reass_free_complete_datagram(s, i) =
                [s EXCEPT !.list = l, !.count = c, !.ok = TRUE]
          /\ RsGood([list |-> l, count |-> c, ok |-> TRUE], {})
          /\ c \in Nat /\ c <= s.count /\ Len(s.list) \in Nat /\ Len(l) = Len(s.list) - 1
          /\ \A k \in 1..(i - 1) : l[k] = s.list[k]
          /\ \A k \in i..(Len(s.list) - 1) : l[k] = s.list[k + 1]
      BY <1>1, <1>2, RsFree
    <3> HIDE DEF l, c
    <3> QED
      BY <2>1, <3>1
  <2>3. w.list = l
    OBVIOUS
  <2>4. RsListOK(l)
    <3> HIDE DEF l, c
    <3> QED
      BY <2>2, <2>3 DEF RsGood
  <2>5. l \in Seq(R!ip_reassdata)
    BY <2>4 DEF RsListOK
  <2> HIDE DEF l, c
  <2>6. t = w
    BY <1>1, <2>2
  <2>7. w \in RsTimes
    BY <2>2, <2>5 DEF RsTimes
  <2>8. t.list = l /\ t.count = c
    BY <2>6
  <2> QED
    BY <2>2, <2>6, <2>7, <2>8 DEF t
<1>4. CASE ~(timed /\ ~kept[i])
  <2>1. t = s
    BY <1>4 DEF R!Expire
  <2> QED
    BY <1>1, <1>2, <1>4, <2>1
<1> QED
  BY <1>3, <1>4

LEMMA RsTimer ==
    ASSUME RsInv, R!ip_reass_tmr
    PROVE  /\ RsGood([list |-> reassdatagrams', count |-> ip_reass_pbufcount', ok |-> asserted'], {})
           /\ ip_reass_pbufcount' <= IP_REASS_MAX_PBUFS
           /\ \A i \in 1..Len(reassdatagrams') : RsAged(reassdatagrams'[i])
           /\ out'.up = <<>> /\ out'.f = R!NoFragment /\ ver' = ver /\ timed' = timed
<1> DEFINE l == reassdatagrams
           old == R!Older(l)
           kept == R!Kept(l)
           n == Len(old)
           z == [list |-> old, count |-> ip_reass_pbufcount, ok |-> asserted]
           T == RsTimes
           Is(g) == g = [m \in 0..n |-> IF m = 0 THEN z ELSE R!Expire(g[m - 1], n + 1 - m, kept)]
           free == CHOOSE g : Is(g)
           F == [m \in 1..n |-> [s \in T |-> IF n + 1 - m \in 1..Len(s.list)
                                              THEN R!Expire(s, n + 1 - m, kept) ELSE s]]
<1>1. /\ reassdatagrams' = free[n].list /\ ip_reass_pbufcount' = free[n].count /\ asserted' = free[n].ok
      /\ out' = [f |-> R!NoFragment, up |-> <<>>] /\ ver' = ver /\ timed' = timed
  BY DEF R!ip_reass_tmr
<1>2. /\ RsListOK(l) /\ \A i \in 1..Len(l) : RsAged(l[i]) /\ l[i].p # <<>>
      /\ ip_reass_pbufcount = R!PbufsIn(l) /\ asserted = TRUE
      /\ ver \in {4, 6} /\ ip_reass_pbufcount <= IP_REASS_MAX_PBUFS
  <2> DEFINE w == [list |-> l, count |-> ip_reass_pbufcount, ok |-> asserted]
  <2>1. w.list = l /\ w.count = ip_reass_pbufcount /\ w.ok = asserted /\ RsGood(w, {})
    BY DEF RsInv
  <2> HIDE DEF w
  <2> QED
    BY <2>1 DEF RsInv, RsGood
<1>3. /\ RsListOK(old) /\ n = Len(l) /\ n \in Nat /\ R!PbufsIn(old) = R!PbufsIn(l)
      /\ \A i \in 1..n : old[i].p = l[i].p
      /\ \A i \in 1..n : (timed => kept[i]) => RsAged(old[i])
  BY <1>2, RsOlder
<1> HIDE DEF old, kept
<1>4. z.list = old /\ z.count = ip_reass_pbufcount /\ z.ok = TRUE /\ z \in T
  <2>1. old \in Seq(R!ip_reassdata) /\ ip_reass_pbufcount \in Nat
    BY <1>2, <1>3, RsSum DEF RsListOK
  <2>2. z.list = old /\ z.count = ip_reass_pbufcount /\ z.ok = asserted
        /\ z \in [list : Seq(R!ip_reassdata), count : Nat, ok : BOOLEAN]
    BY <1>2, <2>1
  <2> HIDE DEF z
  <2>3. RsGood(z, {})
    BY <1>2, <1>3, <2>2 DEF RsGood
  <2> QED
    BY <1>2, <2>2, <2>3 DEF RsTimes
<1> HIDE DEF z, n, T
<1>5. \A m \in 1..n, s \in T :
        LET t == IF n + 1 - m \in 1..Len(s.list) THEN R!Expire(s, n + 1 - m, kept) ELSE s IN t \in T
  BY <1>2, RsExpire DEF T
<1>6. F \in [1..n -> [T -> T]]
      /\ \A m \in 1..n, s \in T : F[m][s] = IF n + 1 - m \in 1..Len(s.list)
                                            THEN R!Expire(s, n + 1 - m, kept) ELSE s
  BY <1>5
<1> HIDE DEF F
<1>7. PICK g : Walk(g, n, T, z, F)
  BY <1>3, <1>4, <1>6, Repeated
<1>8. /\ g \in [0..n -> T] /\ g[0] = z
      /\ \A m \in 1..n : /\ m - 1 \in 0..n /\ g[m - 1] \in T /\ g[m] \in T
                         /\ g[m] = IF n + 1 - m \in 1..Len(g[m - 1].list)
                                   THEN R!Expire(g[m - 1], n + 1 - m, kept) ELSE g[m - 1]
  <2>1. g \in [0..n -> T] /\ g[0] = z /\ \A m \in 1..n : g[m] = F[m][g[m - 1]]
    BY <1>7 DEF Walk
  <2>2. \A m \in 1..n : m \in 0..n /\ m - 1 \in 0..n /\ g[m - 1] \in T /\ g[m] \in T
    BY <1>3, <2>1
  <2> QED
    BY <1>6, <2>1, <2>2
<1> DEFINE Left(m) == /\ Len(g[m].list) \in Nat /\ Len(g[m].list) >= n - m
                      /\ g[m].count \in Nat /\ g[m].count <= ip_reass_pbufcount
                      /\ \A k \in 1..(n - m) : g[m].list[k] = old[k]
                      /\ \A k \in (n - m + 1)..Len(g[m].list) : RsAged(g[m].list[k])
           U == {m \in 0..n : Left(m)}
<1>9. 0 \in U
  <2>1. Len(g[0].list) = n
    BY <1>4, <1>8 DEF n
  <2>2. ip_reass_pbufcount \in Nat
    BY <1>4 DEF T, RsTimes
  <2> QED
    BY <1>3, <1>4, <1>8, <2>1, <2>2
<1>10. ASSUME NEW m \in 0..(n - 1), m \in U
       PROVE  /\ m + 1 \in U /\ n - m \in 1..Len(g[m].list)
              /\ g[m + 1] = R!Expire(g[m], n - m, kept)
  <2> DEFINE i == n - m
             s == g[m]
             t == R!Expire(s, i, kept)
  <2>1. /\ m + 1 \in 1..n /\ m + 1 \in 0..n /\ (m + 1) - 1 = m /\ n + 1 - (m + 1) = i /\ n - (m + 1) = i - 1
        /\ i \in Nat /\ i >= 1 /\ i <= n
    BY <1>3
  <2>2. Left(m)
    BY <1>10
  <2>3. i \in 1..Len(s.list)
    BY <2>1, <2>2
  <2>4. s \in T /\ g[m + 1] = t
    BY <1>8, <2>1, <2>3
  <2>5. /\ Len(s.list) \in Nat /\ Len(s.list) >= i
        /\ s.count \in Nat /\ s.count <= ip_reass_pbufcount
        /\ \A k \in 1..i : s.list[k] = old[k]
        /\ \A k \in (i + 1)..Len(s.list) : RsAged(s.list[k])
    BY <2>2
  <2> HIDE DEF s, t
  <2>6. /\ t \in T /\ t.count <= s.count
        /\ \/ ~(timed /\ ~kept[i]) /\ t = s
           \/ /\ Len(t.list) = Len(s.list) - 1
              /\ \A k \in 1..(i - 1) : t.list[k] = s.list[k]
              /\ \A k \in i..(Len(s.list) - 1) : t.list[k] = s.list[k + 1]
    BY <1>2, <2>3, <2>4, RsExpire DEF T, t
  <2>7. t.count \in Nat /\ ip_reass_pbufcount \in Nat
    <3>1. t.count \in Nat
      BY <2>6 DEF T, RsTimes
    <3>2. ip_reass_pbufcount \in Nat
      BY <1>4 DEF T, RsTimes
    <3> QED
      BY <3>1, <3>2
  <2>8. t.count <= ip_reass_pbufcount
    BY <2>5, <2>6, <2>7
  <2>11. ASSUME \A k \in i..Len(t.list) : RsAged(t.list[k]), \A k \in 1..(i - 1) : t.list[k] = old[k],
                Len(t.list) \in Nat, Len(t.list) >= i - 1
         PROVE  m + 1 \in U
    <3> DEFINE j == m + 1
               h == i - 1
    <3>1. j \in 0..n /\ n - j = h /\ h + 1 = i
      BY <2>1
    <3>2. g[j] = t
      BY <2>4
    <3> HIDE DEF i, j, h
    <3>3. Left(j)
      BY <2>7, <2>8, <2>11, <3>1, <3>2 DEF h
    <3> QED
      BY <3>1, <3>3 DEF j
  <2>9. CASE ~(timed /\ ~kept[i]) /\ t = s
    <3>1. RsAged(s.list[i])
      <4>1. i \in 1..i /\ i \in 1..n
        BY <2>1
      <4> QED
        BY <1>3, <2>5, <2>9, <4>1
    <3>2. \A k \in i..Len(t.list) : RsAged(t.list[k])
      <4> TAKE k \in i..Len(t.list)
      <4>1. k = i \/ k \in (i + 1)..Len(s.list)
        BY <2>1, <2>5, <2>9
      <4> QED
        BY <2>5, <2>9, <3>1, <4>1
    <3>3. \A k \in 1..(i - 1) : t.list[k] = old[k]
      BY <2>1, <2>5, <2>9
    <3>4. Len(t.list) \in Nat /\ Len(t.list) >= i - 1
      BY <2>1, <2>5, <2>9
    <3>5. m + 1 \in U
      <4> HIDE DEF U, i
      <4> QED
        BY <2>11, <3>2, <3>3, <3>4
    <3> HIDE DEF U
    <3> QED
      BY <2>3, <2>4, <3>5 DEF s, t
  <2>10. CASE /\ Len(t.list) = Len(s.list) - 1
              /\ \A k \in 1..(i - 1) : t.list[k] = s.list[k]
              /\ \A k \in i..(Len(s.list) - 1) : t.list[k] = s.list[k + 1]
    <3>2. \A k \in i..Len(t.list) : RsAged(t.list[k])
      <4> TAKE k \in i..Len(t.list)
      <4>1. k \in i..(Len(s.list) - 1) /\ k + 1 \in (i + 1)..Len(s.list)
        BY <2>1, <2>5, <2>10
      <4> QED
        BY <2>5, <2>10, <4>1
    <3>3. \A k \in 1..(i - 1) : t.list[k] = old[k]
      BY <2>1, <2>5, <2>10
    <3>4. Len(t.list) \in Nat /\ Len(t.list) >= i - 1
      BY <2>1, <2>5, <2>10
    <3>5. m + 1 \in U
      <4> HIDE DEF U, i
      <4> QED
        BY <2>11, <3>2, <3>3, <3>4
    <3> HIDE DEF U
    <3> QED
      BY <2>3, <2>4, <3>5 DEF s, t
  <2> QED
    BY <2>6, <2>9, <2>10
<1> HIDE DEF U
<1>11. 0..n \subseteq U
  <2>1. 0 \in Int /\ n \in Int
    BY <1>3
  <2>2. \A m \in 0..(n - 1) : m \in U => m + 1 \in U
    BY <1>10
  <2> QED
    BY <1>9, <2>1, <2>2, IntervalInduction
<1>12. Is(g)
  <2>1. \A m \in 1..n : g[m] = R!Expire(g[m - 1], n + 1 - m, kept)
    <3> TAKE m \in 1..n
    <3>1. m - 1 \in 0..(n - 1) /\ m - 1 \in 0..n /\ (m - 1) + 1 = m /\ n - (m - 1) = n + 1 - m
      BY <1>3
    <3> QED
      BY <1>10, <1>11, <3>1
  <2>2. \A m \in 0..n : g[m] = IF m = 0 THEN z ELSE R!Expire(g[m - 1], n + 1 - m, kept)
    BY <1>3, <1>8, <2>1
  <2>3. g = [m \in 0..n |-> g[m]]
    BY <1>8
  <2> QED
    BY <2>2, <2>3
<1>13. Is(free)
  <2> HIDE DEF Is
  <2> QED
    BY <1>12, Zenon
<1> HIDE DEF free
<1>14. \A m \in 0..n : free[m] = IF m = 0 THEN z ELSE R!Expire(free[m - 1], n + 1 - m, kept)
  BY <1>13
<1> DEFINE V == {m \in 0..n : free[m] = g[m]}
<1>15. 0 \in V
  BY <1>3, <1>8, <1>14
<1>16. \A m \in 0..(n - 1) : m \in V => m + 1 \in V
  <2> TAKE m \in 0..(n - 1)
  <2> HAVE m \in V
  <2>1. m + 1 \in 1..n /\ m + 1 \in 0..n /\ (m + 1) - 1 = m /\ n + 1 - (m + 1) = n - m /\ m + 1 # 0 /\ m \in 0..n
    BY <1>3
  <2>2. g[m + 1] = R!Expire(g[m], n - m, kept)
    BY <1>10, <1>11, <2>1
  <2>3. free[m + 1] = R!Expire(free[m], n - m, kept)
    BY <1>14, <2>1
  <2> QED
    BY <2>1, <2>2, <2>3
<1> HIDE DEF V
<1>17. 0..n \subseteq V
  <2>1. 0 \in Int /\ n \in Int
    BY <1>3
  <2> QED
    BY <1>15, <1>16, <2>1, IntervalInduction
<1>18. n \in 0..n
  BY <1>3
<1>19. free[n] = g[n] /\ Left(n) /\ g[n] \in T
  BY <1>8, <1>11, <1>17, <1>18 DEF U, V
<1> DEFINE s == g[n]
           w == [list |-> reassdatagrams', count |-> ip_reass_pbufcount', ok |-> asserted']
<1>20. s \in [list : Seq(R!ip_reassdata), count : Nat, ok : BOOLEAN] /\ RsGood(s, {})
  BY <1>19 DEF T, RsTimes
<1>21. w.list = s.list /\ w.count = s.count /\ w.ok = s.ok
  BY <1>1, <1>19
<1>22. \A k \in 1..Len(s.list) : RsAged(s.list[k])
  <2>1. n - n + 1 = 1
    BY <1>3
  <2> QED
    BY <1>19, <2>1
<1>23. ip_reass_pbufcount' <= IP_REASS_MAX_PBUFS
  <2>1. ip_reass_pbufcount \in Nat /\ s.count \in Nat /\ s.count <= ip_reass_pbufcount
    <3>1. ip_reass_pbufcount \in Nat
      BY <1>4 DEF T, RsTimes
    <3> QED
      BY <1>19, <3>1
  <2> QED
    BY <1>1, <1>2, <1>19, <2>1, RsConstants
<1> HIDE DEF w, s
<1>24. RsGood(w, {})
  BY <1>20, <1>21 DEF RsGood
<1>25. reassdatagrams' = s.list
  BY <1>1, <1>19 DEF s
<1> QED
  BY <1>1, <1>22, <1>23, <1>24, <1>25 DEF w

-----------------------------------------------------------------------------
(* Reassembly: the invariant.                                              *)

RsAlways == part = "reass" => RsInv /\ R!HandedUpInOrder

LEMMA RsInit == MCInit => RsAlways
<1> SUFFICES ASSUME MCInit PROVE RsAlways
  OBVIOUS
<1>1. /\ reassdatagrams = <<>> /\ ip_reass_pbufcount = 0 /\ asserted = TRUE /\ ver \in {4, 6}
      /\ out = [f |-> R!NoFragment, up |-> <<>>]
  BY IpAssumption DEF MCInit, R!Init, R!ReassAssumption
<1> DEFINE l == reassdatagrams
           w == [list |-> l, count |-> ip_reass_pbufcount, ok |-> asserted]
<1>2. w.list = l /\ w.count = 0 /\ w.ok = TRUE
  BY <1>1
<1>3. l \in Seq(R!ip_reassdata) /\ Len(l) = 0
  BY <1>1
<1>4. R!PbufsIn(l) = 0
  <2>1. \A k \in 1..Len(l) : l[k].p = <<>>
    BY <1>3
  <2> HIDE DEF l
  <2> QED
    BY <1>3, <2>1, RsNoPbufs
<1>5. RsListOK(l)
  BY <1>3 DEF RsListOK
<1> HIDE DEF w, l
<1>6. RsGood(w, {})
  BY <1>2, <1>3, <1>4, <1>5 DEF RsGood
<1>7. RsInv
  BY <1>1, <1>3, <1>6, RsConstants DEF RsInv, w, l
<1>8. R!HandedUpInOrder
  BY <1>1 DEF R!HandedUpInOrder
<1> QED
  BY <1>7, <1>8 DEF RsAlways

LEMMA RsFragmentIn ==
    ASSUME RsInv, R!Input
    PROVE  /\ RsInv' /\ R!HandedUpInOrder'
           /\ \E f \in R!Fragments :
                /\ out'.f = f
                /\ RsGiven([list |-> reassdatagrams', up |-> out'.up], reassdatagrams, f.id)
<1>1. PICK f \in R!Fragments, oom \in 0..2 :
        \E s \in {IF ver = 4 THEN R!ip4_reass(f, oom) ELSE R!ip6_reass(f, oom)} :
            /\ reassdatagrams' = s.list /\ ip_reass_pbufcount' = s.count /\ asserted' = s.ok
            /\ out' = [f |-> f, up |-> s.up] /\ ver' = ver /\ timed' = timed
  <2>1. PICK f \in R!Fragments :
          \E oom \in IF R!IndexOf(reassdatagrams, f.id) = {} THEN 0..2 ELSE {0} :
          \E s \in {IF ver = 4 THEN R!ip4_reass(f, oom) ELSE R!ip6_reass(f, oom)} :
              /\ reassdatagrams' = s.list /\ ip_reass_pbufcount' = s.count /\ asserted' = s.ok
              /\ out' = [f |-> f, up |-> s.up] /\ ver' = ver /\ timed' = timed
    BY Zenon DEF R!Input
  <2>2. (IF R!IndexOf(reassdatagrams, f.id) = {} THEN 0..2 ELSE {0}) \subseteq 0..2
    OBVIOUS
  <2> QED
    BY <2>1, <2>2, Zenon
<1>2. PICK s : /\ s = IF ver = 4 THEN R!ip4_reass(f, oom) ELSE R!ip6_reass(f, oom)
               /\ reassdatagrams' = s.list /\ ip_reass_pbufcount' = s.count /\ asserted' = s.ok
               /\ out' = [f |-> f, up |-> s.up] /\ ver' = ver /\ timed' = timed
  BY <1>1, Zenon
<1>3. RsAfter(s, reassdatagrams, f)
  <2>1. CASE ver = 4
    BY <1>2, <2>1, RsInput4
  <2>2. CASE ver # 4
    <3>1. ver = 6
      BY <2>2 DEF RsInv
    <3> QED
      BY <1>2, <3>1, RsInput6
  <2> QED
    BY <2>1, <2>2
<1> DEFINE w == [list |-> reassdatagrams', count |-> ip_reass_pbufcount', ok |-> asserted']
           v == [list |-> reassdatagrams', up |-> out'.up]
<1>4. w.list = s.list /\ w.count = s.count /\ w.ok = s.ok
  BY <1>2
<1>5. v.list = s.list /\ v.up = s.up /\ out'.f = f /\ out'.up = s.up
  BY <1>2
<1>6. /\ RsGood(s, {}) /\ s.count <= IP_REASS_MAX_PBUFS /\ \A k \in 1..Len(s.list) : RsAged(s.list[k])
      /\ RsUp(s.up, f) /\ RsGiven(s, reassdatagrams, f.id)
  BY <1>3 DEF RsAfter
<1> HIDE DEF w, v
<1>7. RsGood(w, {})
  BY <1>4, <1>6 DEF RsGood
<1>8. RsGiven(v, reassdatagrams, f.id)
  BY <1>5, <1>6 DEF RsGiven
<1>9. RsInv'
  <2>1. \A k \in 1..Len(reassdatagrams') :
           timed' => reassdatagrams'[k].age + reassdatagrams'[k].timer = IP_REASS_MAXAGE
    BY <1>2, <1>6 DEF RsAged
  <2>2. ver' \in {4, 6}
    BY <1>2 DEF RsInv
  <2>3. ip_reass_pbufcount' <= IP_REASS_MAX_PBUFS
    BY <1>2, <1>6
  <2> QED
    BY <1>7, <2>1, <2>2, <2>3 DEF RsInv, RsAged, w
<1>10. R!HandedUpInOrder'
  BY <1>5, <1>6 DEF R!HandedUpInOrder, RsUp
<1> QED
  BY <1>5, <1>8, <1>9, <1>10 DEF v

LEMMA RsStep == RsAlways /\ [MCNext]_allVars => RsAlways'
<1> SUFFICES ASSUME RsAlways, [MCNext]_allVars, part' = "reass" PROVE RsInv' /\ R!HandedUpInOrder'
  BY DEF RsAlways
<1>1. CASE UNCHANGED allVars
  <2>1. /\ part' = part /\ ver' = ver /\ timed' = timed /\ reassdatagrams' = reassdatagrams
        /\ ip_reass_pbufcount' = ip_reass_pbufcount /\ asserted' = asserted /\ out' = out
    BY <1>1 DEF allVars, reassVars
  <2> QED
    BY <2>1 DEF RsAlways, RsInv, RsAged, R!HandedUpInOrder
<1>2. CASE MCNext
  <2>1. part' = part
    BY <1>2 DEF MCNext
  <2>2. R!Next /\ RsInv
    BY <1>2, <2>1 DEF MCNext, RsAlways
  <2>3. CASE R!Input
    BY <2>2, <2>3, RsFragmentIn
  <2>4. CASE R!ip_reass_tmr
    <3>1. /\ RsGood([list |-> reassdatagrams', count |-> ip_reass_pbufcount', ok |-> asserted'], {})
          /\ ip_reass_pbufcount' <= IP_REASS_MAX_PBUFS
          /\ \A i \in 1..Len(reassdatagrams') : RsAged(reassdatagrams'[i])
          /\ out'.up = <<>> /\ ver' = ver /\ timed' = timed
      BY <2>2, <2>4, RsTimer
    <3>2. \A i \in 1..Len(reassdatagrams') :
             timed' => reassdatagrams'[i].age + reassdatagrams'[i].timer = IP_REASS_MAXAGE
      BY <3>1 DEF RsAged
    <3>3. ver' \in {4, 6}
      BY <2>2, <3>1 DEF RsInv
    <3>4. RsInv'
      BY <3>1, <3>2, <3>3 DEF RsInv, RsAged
    <3>5. R!HandedUpInOrder'
      BY <3>1 DEF R!HandedUpInOrder
    <3> QED
      BY <3>4, <3>5
  <2> QED
    BY <2>2, <2>3, <2>4 DEF R!Next
<1> QED
  BY <1>1, <1>2

LEMMA RsHolds == MCSpec => []RsAlways
<1> QED
  BY RsInit, RsStep, PTL DEF MCSpec

LEMMA RsSound ==
    ASSUME RsInv
    PROVE  R!WholeIsHandedUp /\ R!PbufsCounted /\ R!NoneOutlivesTimer
<1> DEFINE l == reassdatagrams
           w == [list |-> l, count |-> ip_reass_pbufcount, ok |-> asserted]
<1>1. w.list = l /\ w.count = ip_reass_pbufcount /\ w.ok = asserted /\ RsGood(w, {})
      /\ ip_reass_pbufcount <= IP_REASS_MAX_PBUFS /\ \A i \in 1..Len(l) : RsAged(l[i])
  BY DEF RsInv
<1> HIDE DEF w, l
<1>2. /\ RsListOK(l) /\ l \in Seq(R!ip_reassdata) /\ ip_reass_pbufcount = R!PbufsIn(l) /\ asserted = TRUE
      /\ \A i \in 1..Len(l) : l[i].p # <<>>
  BY <1>1 DEF RsGood, RsListOK
<1>3. DOMAIN l = 1..Len(l)
  BY <1>2
<1>4. R!WholeIsHandedUp
  BY <1>2, <1>3 DEF R!WholeIsHandedUp, RsListOK, l
<1>5. R!PbufsCounted
  BY <1>1, <1>2, <1>3 DEF R!PbufsCounted, l
<1>6. R!NoneOutlivesTimer
  <2> SUFFICES ASSUME timed, NEW i \in 1..Len(l) PROVE l[i].age <= IP_REASS_MAXAGE
    BY <1>3 DEF R!NoneOutlivesTimer, l
  <2>1. l[i].age + l[i].timer = IP_REASS_MAXAGE
    BY <1>1 DEF RsAged
  <2>2. l[i].age \in Nat /\ l[i].timer \in Nat
    BY <1>2, RsEntry
  <2> QED
    BY <2>1, <2>2, RsConstants
<1> QED
  BY <1>4, <1>5, <1>6

\* ip4_frag.c, ip6_frag.c: whatever the order, the losses and the copies of the
\* fragments, what is handed up are parts of one datagram, from its first to its last,
\* each once and in order, and nothing is missing but what comes just before the
\* fragment that came last.  The fragment that completes a datagram hands it up, so
\* nothing whole is kept; the count is that of the pbufs held and within
\* IP_REASS_MAX_PBUFS, no entry is left empty and the assertions on the way hold; and
\* where the timer is called, no datagram gets older than IP_REASS_MAXAGE.  For any
\* number of parts.
THEOREM DatagramsReassembled == MCSpec => []Reassembled
<1>1. RsAlways => Reassembled
  BY RsSound DEF RsAlways, Reassembled
<1> QED
  BY <1>1, RsHolds, PTL

\* ip_reass_remove_oldest_datagram: when pbufs or memory are short, a fragment never
\* costs its own datagram the fragments that came before, and a datagram is given up
\* only if all that are older, its own excepted, are given up too.
THEOREM OldestGivenUp == MCSpec => OldestGiveWay
<1>1. RsAlways /\ [MCNext]_allVars =>
        [out'.f # R!NoFragment =>
           \A i \in DOMAIN reassdatagrams :
              LET gone(k) == R!IndexOf(reassdatagrams', reassdatagrams[k].id) = {}
              IN  gone(i) =>
                    IF reassdatagrams[i].id = out'.f.id THEN out'.up # <<>>
                    ELSE \A j \in (i + 1)..Len(reassdatagrams) :
                            gone(j) \/ reassdatagrams[j].id = out'.f.id]_(R!vars)
  <2> SUFFICES ASSUME RsAlways, [MCNext]_allVars, out'.f # R!NoFragment,
                      NEW i \in DOMAIN reassdatagrams,
                      R!IndexOf(reassdatagrams', reassdatagrams[i].id) = {}
               PROVE  IF reassdatagrams[i].id = out'.f.id THEN out'.up # <<>>
                      ELSE \A j \in (i + 1)..Len(reassdatagrams) :
                              \/ R!IndexOf(reassdatagrams', reassdatagrams[j].id) = {}
                              \/ reassdatagrams[j].id = out'.f.id
    OBVIOUS
  <2>1. reassdatagrams' # reassdatagrams
    BY DEF R!IndexOf
  <2>2. R!Next /\ RsInv
    BY <2>1 DEF allVars, reassVars, MCNext, RsAlways
  <2>3. R!Input
    BY <2>2, RsTimer DEF R!Next
  <2>4. PICK f \in R!Fragments :
           /\ out'.f = f
           /\ RsGiven([list |-> reassdatagrams', up |-> out'.up], reassdatagrams, f.id)
    BY <2>2, <2>3, RsFragmentIn
  <2>5. RsInv'
    BY <2>2, <2>3, RsFragmentIn
  <2> DEFINE l == reassdatagrams
             t == reassdatagrams'
             v == [list |-> t, up |-> out'.up]
  <2>6. l \in Seq(R!ip_reassdata) /\ t \in Seq(R!ip_reassdata)
    <3> DEFINE w == [list |-> l, count |-> ip_reass_pbufcount, ok |-> asserted]
               b == [list |-> t, count |-> ip_reass_pbufcount', ok |-> asserted']
    <3>1. w.list = l /\ RsGood(w, {})
      BY <2>2 DEF RsInv
    <3>2. b.list = t /\ RsGood(b, {})
      BY <2>5 DEF RsInv
    <3> HIDE DEF w, b, l, t
    <3> QED
      BY <3>1, <3>2 DEF RsGood, RsListOK
  <2>7. DOMAIN l = 1..Len(l) /\ DOMAIN t = 1..Len(t) /\ Len(l) \in Nat
    BY <2>6
  <2>8. \A e : R!IndexOf(t, e) = {} <=> e \notin RsIds(t)
    BY <2>7 DEF R!IndexOf, RsIds
  <2>9. v.list = t /\ v.up = out'.up /\ RsGiven(v, l, f.id)
    BY <2>4
  <2> HIDE DEF v, l, t
  <2>10. IF l[i].id = f.id THEN v.up # <<>>
         ELSE \A j \in (i + 1)..Len(l) : l[j].id \notin RsIds(t) \/ l[j].id = f.id
    BY <2>7, <2>8, <2>9 DEF RsGiven, l, t
  <2> QED
    BY <2>4, <2>8, <2>9, <2>10 DEF l, t
<1> QED
  BY <1>1, RsHolds, PTL DEF MCSpec, OldestGiveWay, R!OldestGiveWay
=============================================================================
