------------------------------- MODULE Reass -------------------------------
(***************************************************************************)
(* Reassembly of fragmented datagrams, as the IPv4 and the IPv6 input do   *)
(* it; the two keep their own lists and are the same but for the order of  *)
(* their steps, so "ver" says which one runs.  A packet of the tunnel is   *)
(* one pbuf, so a fragment is one pbuf.  The sender cuts every datagram    *)
(* into the same parts, of one unit each; parts are lost, doubled and      *)
(* come in any order.                                                      *)
(***************************************************************************)
EXTENDS Integers, Sequences, SequencesExt, FiniteSets, FiniteSetsExt

CONSTANTS
    Versions,               \* 4, 6: which reassembly runs
    Ids,                    \* addresses and identification of a datagram
    Parts,                  \* parts of a datagram
    IP_REASS_MAX_PBUFS, IP_REASS_MAXAGE,
    TimerCalls              \* may the timer be called? nothing calls it

ReassAssumption ==
    /\ Versions \subseteq {4, 6} /\ TimerCalls \subseteq BOOLEAN
    /\ {IP_REASS_MAX_PBUFS, IP_REASS_MAXAGE} \subseteq Nat \ {0}
    /\ Parts \in Nat \ {0, 1}          \* what is in one part is no fragment

VARIABLES
    ver,                    \* 4 or 6
    timed,                  \* the timer is called
    reassdatagrams,         \* incomplete datagrams, the newest first
    ip_reass_pbufcount,     \* pbufs in them
    asserted,               \* the LWIP_ASSERTs held so far
    out                     \* the last fragment and what was handed up for it

vars == <<ver, timed, reassdatagrams, ip_reass_pbufcount, asserted, out>>

Fragments ==
    {[id |-> d, start |-> k, end |-> k + 1, more |-> k + 1 < Parts] : d \in Ids, k \in 0..(Parts - 1)}
NoFragment == [id |-> "none", start |-> 0, end |-> 0, more |-> FALSE]

\* p: the fragments in order; last: IP_REASS_FLAG_LASTFRAG; age: seconds it is
\* there, counted if the timer is called.
ip_reassdata ==
    [id : Ids, p : Seq(Fragments), last : BOOLEAN, datagram_len : 0..Parts,
     timer : 0..IP_REASS_MAXAGE, age : 0..(IP_REASS_MAXAGE + 1)]

TypeOK ==
    /\ ver \in Versions /\ timed \in TimerCalls
    /\ reassdatagrams \in Seq(ip_reassdata)
    /\ ip_reass_pbufcount \in 0..IP_REASS_MAX_PBUFS
    /\ asserted \in BOOLEAN

PbufsIn(list) ==
    LET sum[n \in 0..Len(list)] == IF n = 0 THEN 0 ELSE sum[n - 1] + Len(list[n].p)
    IN  sum[Len(list)]
IndexOf(list, d) == {i \in DOMAIN list : list[i].id = d}

-----------------------------------------------------------------------------
(* The list of datagrams                                                   *)

\* All its pbufs are freed; IPv6 looks into the first, which has to be there.
ip_reass_free_complete_datagram(s, i) ==
    [s EXCEPT !.list = RemoveAt(@, i), !.count = @ - Len(s.list[i].p),
              !.ok = @ /\ s.count >= Len(s.list[i].p) /\ (ver = 6 => s.list[i].p # <<>>)]

\* Mutant: the first of the oldest is taken.
NewestOf(list, others) == Min(others)

\* Timers run down together, and the last in the list is the oldest of equal ones.
Oldest(list, others) ==
    Max({i \in others : \A j \in others : list[i].timer <= list[j].timer})

\* One turn of the loop: free the oldest datagram other than d's, and go on while
\* there is no room and, for IPv4, there was another one.
FreeOldest(s, d, needed) ==
    LET others == {i \in DOMAIN s.list : s.list[i].id # d}
        t == ip_reass_free_complete_datagram(s, Oldest(s.list, others))
        freed == s.freed + s.count - t.count
    IN  IF ~s.go \/ others = {} THEN [s EXCEPT !.go = FALSE]
        ELSE [t EXCEPT !.freed = freed,
                !.go = IF ver = 4 THEN freed < needed /\ Cardinality(others) > 1
                       ELSE t.count + needed > IP_REASS_MAX_PBUFS]

ip_reass_remove_oldest_datagram(list, count, ok, d, needed) ==
    LET free[n \in 0..Len(list)] ==
            IF n = 0 THEN [list |-> list, count |-> count, ok |-> ok, freed |-> 0, go |-> TRUE]
            ELSE FreeOldest(free[n - 1], d, needed)
    IN  free[Len(list)]

NewDatagram(f) ==
    [id |-> f.id, p |-> <<>>, last |-> FALSE, datagram_len |-> 0,
     timer |-> IP_REASS_MAXAGE, age |-> 0]

-----------------------------------------------------------------------------
(* A fragment in its datagram                                              *)

\* Fragments of the chain before the first that starts behind f.
PassedBy(p, f) == Max({n \in 0..Len(p) : \A i \in 1..n : p[i].start <= f.start})

\* The place of f in the chain, or -1 if f overlaps one of its fragments.
\* IPv4 does not look at the end of what becomes the first fragment.
Place(p, f) ==
    LET n == PassedBy(p, f)
    IN  IF \/ n > 0 /\ f.start < p[n].end
           \/ n < Len(p) /\ f.end > p[n + 1].start /\ (ver = 6 \/ n > 0)
        THEN -1 ELSE n

\* Mutant: the fragments passed by are not compared.
ValidBehind(p, n) ==
    /\ p[1].start = 0
    /\ n + 1 = Len(p) /\ n > 0 => p[n].end = p[n + 1].start
    /\ \A i \in (n + 1)..(Len(p) - 1) : p[i].end = p[i + 1].start

\* The checks for holes, at the places where the code makes them: between the
\* fragments passed by (the one just before f is compared only with its own
\* predecessor), before f if it is the last, and behind f.
Valid(p, n) ==
    /\ p[1].start = 0
    /\ \A i \in 1..(n - 1) : p[i].end = p[i + 1].start
    /\ n + 1 = Len(p) /\ n > 0 => p[n].end = p[n + 1].start
    /\ \A i \in (n + 1)..(Len(p) - 1) : p[i].end = p[i + 1].start

\* The datagram at place i goes up as one packet, and its entry goes.
HandUp(s, i) ==
    LET r == s.list[i]
    IN  [s EXCEPT !.list = RemoveAt(@, i), !.count = @ - Len(r.p), !.up = r.p,
                  !.ok = @ /\ (ver = 4 => Len(r.p) > 1 /\ Last(r.p).end = r.datagram_len)]

\* f comes into the datagram at place i of the list.  IPv4 notes the last fragment
\* before it knows that f fits, and counts it before.
Chain(s, i, f) ==
    LET r == s.list[i]
        n == Place(r.p, f)
        p == InsertAt(r.p, n + 1, f)
        noted == IF f.more THEN r ELSE [r EXCEPT !.last = TRUE, !.datagram_len = f.end]
        kept == [s EXCEPT !.list = [@ EXCEPT ![i] = [noted EXCEPT !.p = p]], !.count = @ + 1]
        whole == noted.last /\ Valid(p, n)
    IN  IF n = -1
        THEN [s EXCEPT !.list = [@ EXCEPT ![i] = IF ver = 4 THEN noted ELSE r]]
        ELSE IF ~whole THEN kept
        ELSE HandUp(kept, i)

-----------------------------------------------------------------------------
(* Input                                                                   *)

Now == [list |-> reassdatagrams, count |-> ip_reass_pbufcount, ok |-> asserted, up |-> <<>>]
With(s, t) == [s EXCEPT !.list = t.list, !.count = t.count, !.ok = t.ok]

\* Room for one more, then the entry, then the fragment.  If there is no memory for
\* the entry the oldest is freed for it; "oom" says how often there is none.
ip4_reass(f, oom) ==
    LET full == ip_reass_pbufcount + 1 > IP_REASS_MAX_PBUFS
        made == ip_reass_remove_oldest_datagram(reassdatagrams, ip_reass_pbufcount, asserted, f.id, 1)
        s == IF full THEN With(Now, made) ELSE Now
        again == ip_reass_remove_oldest_datagram(s.list, s.count, s.ok, f.id, 1)
        new == IndexOf(s.list, f.id) = {}
        t == IF new /\ oom > 0 THEN With(s, again) ELSE s
        u == IF new THEN [t EXCEPT !.list = <<NewDatagram(f)>> \o @] ELSE t
    IN  IF full /\ (made.freed = 0 \/ s.count + 1 > IP_REASS_MAX_PBUFS) THEN s
        ELSE IF new /\ oom > 0 /\ (oom = 2 \/ again.freed < 1) THEN t
        ELSE Chain(u, Max(IndexOf(u.list, f.id)), f)

\* The entry, then room for one more, then the fragment.
ip6_reass(f, oom) ==
    LET new == IndexOf(reassdatagrams, f.id) = {}
        freed == ip_reass_remove_oldest_datagram(reassdatagrams, ip_reass_pbufcount, asserted, f.id, 1)
        s == IF new /\ oom > 0 THEN With(Now, freed) ELSE Now
        t == IF new THEN [s EXCEPT !.list = <<NewDatagram(f)>> \o @] ELSE s
        full == t.count + 1 > IP_REASS_MAX_PBUFS
        made == ip_reass_remove_oldest_datagram(t.list, t.count, t.ok, f.id, 1)
        u == IF full THEN With(t, made) ELSE t
    IN  IF new /\ oom > 0 /\ (oom = 2 \/ s.list = reassdatagrams) THEN s
        ELSE IF u.count + 1 > IP_REASS_MAX_PBUFS THEN u
        ELSE Chain(u, Max(IndexOf(u.list, f.id)), f)

Input ==
    \E f \in Fragments :
        \E oom \in IF IndexOf(reassdatagrams, f.id) = {} THEN 0..2 ELSE {0} :
        \E s \in {IF ver = 4 THEN ip4_reass(f, oom) ELSE ip6_reass(f, oom)} :
            /\ reassdatagrams' = s.list
            /\ ip_reass_pbufcount' = s.count
            /\ asserted' = s.ok
            /\ out' = [f |-> f, up |-> s.up]
            /\ UNCHANGED <<ver, timed>>

\* The entries that ip_reass_tmr keeps.
Kept(list) == [i \in DOMAIN list |-> list[i].timer > 0]

\* The datagrams one second later, in which the timer is called or not.
Older(list) == [i \in DOMAIN list |->
                  [list[i] EXCEPT !.age = IF ~timed \/ @ > IP_REASS_MAXAGE THEN @ ELSE @ + 1,
                                  !.timer = IF timed /\ @ > 0 THEN @ - 1 ELSE @]]

\* The entry at i goes if the timer has run out.
Expire(s, i, kept) == IF timed /\ ~kept[i] THEN ip_reass_free_complete_datagram(s, i) ELSE s

ip_reass_tmr ==
    LET older == Older(reassdatagrams)
        kept == Kept(reassdatagrams)
        free[n \in 0..Len(older)] ==
            IF n = 0 THEN [list |-> older, count |-> ip_reass_pbufcount, ok |-> asserted]
            ELSE Expire(free[n - 1], Len(older) + 1 - n, kept)
    IN  \E s \in {free[Len(older)]} :
            /\ reassdatagrams # <<>>
            /\ reassdatagrams' = s.list
            /\ ip_reass_pbufcount' = s.count
            /\ asserted' = s.ok
            /\ out' = [f |-> NoFragment, up |-> <<>>]
            /\ UNCHANGED <<ver, timed>>

Init ==
    /\ ver \in Versions /\ timed \in TimerCalls
    /\ reassdatagrams = <<>> /\ ip_reass_pbufcount = 0
    /\ asserted = TRUE
    /\ out = [f |-> NoFragment, up |-> <<>>]

Next == Input \/ ip_reass_tmr

Spec == Init /\ [][Next]_vars

-----------------------------------------------------------------------------
(* Properties                                                              *)

\* What goes up are parts of one datagram, from its first to its last, in order and
\* none twice, whatever was lost, doubled or overtaken on the way.  Nothing is
\* missing but what comes just before the fragment that came last.
InOrder(u, f) ==
    /\ \A k \in DOMAIN u : u[k] \in Fragments /\ u[k].id = f.id
    /\ u[1].start = 0 /\ u[Len(u)].end = Parts
    /\ \A k \in 1..(Len(u) - 1) :
          \/ u[k].end = u[k + 1].start
          \/ u[k + 1] = f /\ f.more /\ u[k].end < f.start

HandedUpInOrder == out.up # <<>> => InOrder(out.up, out.f)

\* ip_reass_chain_frag_into_datagram_and_validate: "if still valid, all fragments are
\* received".  False of the code: what comes just before the fragment that is put
\* in front of others is not looked at, and a datagram without it goes up.
HandedUpWhole ==
    out.up # <<>> =>
        out.up = [k \in 1..Parts |-> [id |-> out.f.id, start |-> k - 1, end |-> k, more |-> k < Parts]]

\* And nothing that is whole is kept: the fragment that completes a datagram hands it
\* up, in whichever order the others came.
WholeIsHandedUp == \A i \in DOMAIN reassdatagrams : Len(reassdatagrams[i].p) < Parts

\* The count is that of the pbufs held, within the limit, every entry has a fragment,
\* and the assertions on the way hold.
PbufsCounted ==
    /\ ip_reass_pbufcount = PbufsIn(reassdatagrams)
    /\ ip_reass_pbufcount <= IP_REASS_MAX_PBUFS
    /\ \A i \in DOMAIN reassdatagrams : reassdatagrams[i].p # <<>>
    /\ asserted

\* A fragment never costs its own datagram what came before, and of the others the
\* oldest go first.
OldestGiveWay ==
    [][out'.f # NoFragment =>
         \A i \in DOMAIN reassdatagrams :
            LET gone(k) == IndexOf(reassdatagrams', reassdatagrams[k].id) = {}
            IN  gone(i) =>
                  IF reassdatagrams[i].id = out'.f.id THEN out'.up # <<>>
                  ELSE \A j \in (i + 1)..Len(reassdatagrams) :
                          gone(j) \/ reassdatagrams[j].id = out'.f.id]_vars

\* If the timer is called every second, no datagram is kept longer than the maximum
\* age; nothing in this program calls it.
NoneOutlivesTimer ==
    timed => \A i \in DOMAIN reassdatagrams : reassdatagrams[i].age <= IP_REASS_MAXAGE
=============================================================================
