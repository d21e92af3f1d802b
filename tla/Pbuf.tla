-------------------------------- MODULE Pbuf --------------------------------
(***************************************************************************)
(* Packet buffers: chains of pbufs that share tails and count references,  *)
(* and the operations on them, pointer by pointer.  The users are whoever  *)
(* holds a pointer; they change the length or the bytes only of what no    *)
(* one else refers to, and put a buffer only behind one it does not end.   *)
(*                                                                         *)
(* The ghost variable "want" says what a held pbuf should contain, a plain *)
(* sequence of bytes: what the operations would be if a packet were just   *)
(* its bytes.                                                              *)
(***************************************************************************)
EXTENDS Integers, Sequences, SequencesExt, FiniteSets, FiniteSetsExt

CONSTANTS
    Pbufs,          \* bound: addresses at which pbufs can be
    Lengths,        \* lengths that are allocated
    MaxLen,         \* bound: length of a packet
    Headers,        \* PBUF_..._HLEN: room the layers leave before the payload
    PoolBufSize,    \* PBUF_POOL_BUFSIZE
    MaxHeld,        \* bound: pointers the users hold
    MaxMade,        \* bound: packets allocated before all is free again
    Types           \* types that are allocated

PbufAssumption ==
    /\ Lengths \subseteq Nat /\ Headers \subseteq 0..(PoolBufSize - 1)
    /\ {MaxLen, PoolBufSize, MaxHeld, MaxMade} \subseteq Nat \ {0}
    /\ Pbufs \subseteq Nat \ {0}
    /\ Types \subseteq {"PBUF_RAM", "PBUF_POOL", "PBUF_ROM"}       \* PBUF_REF is like PBUF_ROM

VARIABLES
    heap,           \* the pbuf at each address, Unused if there is none
    held,           \* pointers to each address that the users hold
    want,           \* the bytes a held pbuf should contain
    made            \* packets allocated since all was free

vars == <<heap, held, want, made>>

NULL == 0
Unused == [type |-> "unused"]

\* mem: the memory from the first address the payload may have; the payload starts
\* "off" bytes behind it.
Pbuf ==
    [next : Pbufs \cup {NULL}, mem : Seq(Nat), off : Nat, tot_len : 0..MaxLen,
     len : 0..MaxLen, type : Types \cup {"PBUF_RAM"}, ref : Nat \ {0}]

Live(h) == {p \in Pbufs : h[p] # Unused}

TypeOK ==
    /\ \A p \in Live(heap) : heap[p] \in Pbuf
    /\ held \in [Pbufs -> 0..MaxHeld]
    /\ want \in [Pbufs -> Seq(Nat)]
    /\ made \in 0..MaxMade

-----------------------------------------------------------------------------
(* Chains                                                                  *)

\* The addresses of a chain, in order.
Chain(h, p) ==
    LET chain[n \in 0..Cardinality(Pbufs)] ==
            IF n = 0 THEN <<p>>
            ELSE LET q == Last(chain[n - 1])
                 IN  IF h[q].next = NULL THEN chain[n - 1] ELSE Append(chain[n - 1], h[q].next)
    IN  IF p = NULL THEN <<>> ELSE chain[Cardinality(Pbufs)]

pbuf_clen(h, p) == Len(Chain(h, p))

Payload(b) == SubSeq(b.mem, b.off + 1, b.off + b.len)

\* The bytes of a packet.
Flat(h, p) == FlattenSeq([i \in 1..pbuf_clen(h, p) |-> Payload(h[Chain(h, p)[i]])])

\* Bytes in the first n pbufs of a chain.
LenOf(h, c, n) == FoldLeft(LAMBDA s, q : s + h[q].len, 0, SubSeq(c, 1, n))

-----------------------------------------------------------------------------
(* Operations: functions from a heap to a heap                             *)

\* Count down; free; go on with the next as long as the counts become 0.
pbuf_free(h, p) ==
    IF p = NULL THEN h
    ELSE LET c == Chain(h, p)
             n == Max({k \in 0..Len(c) : \A i \in 1..k : h[c[i]].ref = 1})
         IN  [q \in Pbufs |->
                IF \E i \in 1..n : c[i] = q THEN Unused
                ELSE IF n < Len(c) /\ q = c[n + 1] THEN [h[q] EXCEPT !.ref = @ - 1]
                ELSE h[q]]

pbuf_ref(h, p) == [h EXCEPT ![p].ref = @ + 1]

\* The caller's reference to b becomes the chain's.
pbuf_cat(h, a, b) ==
    LET c == Chain(h, a)
    IN  [q \in Pbufs |->
           IF q \in Range(c)
           THEN [h[q] EXCEPT !.tot_len = @ + h[b].tot_len,
                             !.next = IF q = Last(c) THEN b ELSE @]
           ELSE h[q]]

pbuf_chain(h, a, b) == pbuf_ref(pbuf_cat(h, a, b), b)

pbuf_dechain(h, p) ==
    LET q == h[p].next
    IN  IF q = NULL THEN h
        ELSE pbuf_free([h EXCEPT ![q].tot_len = h[p].tot_len - h[p].len,
                                 ![p].next = NULL, ![p].tot_len = h[p].len], q)

\* Mutant: the totals of the pbufs before the cut stay as they were.
ReallocKeepsTotals(h, p, new_len) ==
    LET c == Chain(h, p)
        n == Min({k \in 1..Len(c) : new_len <= LenOf(h, c, k)})
        rem == new_len - LenOf(h, c, n - 1)
    IN  IF new_len >= h[p].tot_len THEN h
        ELSE pbuf_free([h EXCEPT ![c[n]] = [@ EXCEPT !.len = rem, !.tot_len = rem, !.next = NULL]],
                       h[c[n]].next)

\* Cut the packet off in the pbuf in which it now ends, and shrink its memory.
pbuf_realloc(h, p, new_len) ==
    LET c == Chain(h, p)
        n == Min({k \in 1..Len(c) : new_len <= LenOf(h, c, k)})
        rem == new_len - LenOf(h, c, n - 1)
        cut == [q \in Pbufs |->
                  IF \E i \in 1..(n - 1) : c[i] = q
                  THEN [h[q] EXCEPT !.tot_len = @ + new_len - h[p].tot_len]
                  ELSE IF q = c[n]
                  THEN [h[q] EXCEPT !.len = rem, !.tot_len = rem, !.next = NULL,
                                    !.mem = SubSeq(@, 1, h[q].off + rem)]
                  ELSE h[q]]
    IN  IF new_len >= h[p].tot_len THEN h ELSE pbuf_free(cut, h[c[n]].next)

\* Move the payload pointer; refused beyond the payload or before the memory, and,
\* unless forced, before memory that is not the pbuf's own.
CanMove(b, increment, force) ==
    /\ increment < 0 => -increment <= b.len
    /\ increment > 0 => IF b.type = "PBUF_ROM" THEN force ELSE b.off >= increment

pbuf_header_impl(h, p, increment, force) ==
    IF ~CanMove(h[p], increment, force) THEN h
    ELSE [h EXCEPT ![p] = [@ EXCEPT !.off = @ - increment, !.len = @ + increment,
                                    !.tot_len = @ + increment]]

\* The lengths of the parts a packet from PBUF_POOL comes in.
PoolLens(header, length) ==
    LET first == IF length < PoolBufSize - header THEN length ELSE PoolBufSize - header
        rest == length - first
        n == (rest + PoolBufSize - 1) \div PoolBufSize
    IN  <<first>> \o [i \in 1..n |-> IF i < n THEN PoolBufSize
                                     ELSE rest - (n - 1) * PoolBufSize]

\* A fresh packet at the addresses a, its parts of the lengths l, its bytes
\* numbered from "byte"; the room for headers holds zeros.
pbuf_alloc(h, a, l, header, type, byte) ==
    [q \in Pbufs |->
        IF q \notin Range(a) THEN h[q]
        ELSE LET i == CHOOSE i \in DOMAIN a : a[i] = q
                 before == FoldLeft(+, 0, SubSeq(l, 1, i - 1))
             IN  [next |-> IF i = Len(a) THEN NULL ELSE a[i + 1],
                  mem |-> [j \in 1..(IF i = 1 THEN header ELSE 0) |-> 0]
                             \o [j \in 1..l[i] |-> byte + before + j],
                  off |-> IF i = 1 THEN header ELSE 0,
                  tot_len |-> FoldLeft(+, 0, l) - before, len |-> l[i],
                  type |-> type, ref |-> 1]]

\* pbuf_take_at, pbuf_put_at and the target of pbuf_copy: the bytes d go into the
\* packet from an offset on.
Put(h, p, d, offset) ==
    LET c == Chain(h, p)
        At(i, j) == LenOf(h, c, i - 1) + j - offset
    IN  [q \in Pbufs |->
           IF q \notin Range(c) THEN h[q]
           ELSE LET i == CHOOSE i \in DOMAIN c : c[i] = q
                IN  [h[q] EXCEPT !.mem =
                       [k \in DOMAIN @ |->
                          LET j == k - h[q].off
                          IN  IF j \in 1..h[q].len /\ At(i, j) \in 1..Len(d)
                              THEN d[At(i, j)] ELSE @[k]]]]

-----------------------------------------------------------------------------
(* Reading                                                                 *)

\* Skip whole pbufs: the address and what is left of the offset.
pbuf_skip(h, p, offset) ==
    LET c == Chain(h, p)
        n == Max({k \in 0..Len(c) : \A i \in 1..k : LenOf(h, c, i) <= offset})
    IN  [q |-> IF n < Len(c) THEN c[n + 1] ELSE NULL, left |-> offset - LenOf(h, c, n)]

\* -1 behind the end.
pbuf_try_get_at(h, p, offset) ==
    LET s == pbuf_skip(h, p, offset)
    IN  IF s.q = NULL THEN -1 ELSE Payload(h[s.q])[s.left + 1]

pbuf_get_at(h, p, offset) == IF pbuf_try_get_at(h, p, offset) < 0 THEN 0
                             ELSE pbuf_try_get_at(h, p, offset)

\* The loop over the chain: skip, then copy until there are enough.
pbuf_copy_partial(h, p, len, offset) ==
    FoldLeft(LAMBDA s, q :
                IF s.offset # 0 /\ s.offset >= h[q].len
                THEN [s EXCEPT !.offset = @ - h[q].len]
                ELSE LET part == SubSeq(Payload(h[q]), s.offset + 1, h[q].len)
                         n == Min({Len(part), len - Len(s.out)})
                     IN  [offset |-> 0, out |-> s.out \o SubSeq(part, 1, n)],
             [out |-> <<>>, offset |-> offset], Chain(h, p)).out

Differs == 99       \* 0xffff: not found, or too long to be equal

\* 0 if the bytes are there, else the place of the first difference.
pbuf_memcmp(h, p, offset, d) ==
    LET s == pbuf_skip(h, p, offset)
        diff == {i \in DOMAIN d : pbuf_get_at(h, s.q, s.left + i - 1) # d[i]}
    IN  IF h[p].tot_len < offset + Len(d) THEN Differs
        ELSE IF diff = {} THEN 0 ELSE Min(diff)

pbuf_memfind(h, p, d, start) ==
    LET found == {i \in start..(h[p].tot_len - Len(d)) : pbuf_memcmp(h, p, i, d) = 0}
    IN  IF found = {} THEN Differs ELSE Min(found)

-----------------------------------------------------------------------------
(* The users                                                               *)

\* No one else refers to a pbuf of the packet.
Exclusive(p) ==
    held[p] = 1 /\ \A i \in 1..pbuf_clen(heap, p) : heap[Chain(heap, p)[i]].ref = 1

Holders == {p \in Pbufs : held[p] > 0}
Free == Pbufs \ Live(heap)

\* Wants of the pbufs that are still held.
Wants(w, hd) == [p \in Pbufs |-> IF hd[p] > 0 THEN w[p] ELSE <<>>]

\* One element, or as many as there are parts; the lowest addresses are used.
PartLengths(type, header, length) ==
    IF type = "PBUF_POOL" THEN PoolLens(header, length) ELSE <<length>>

Addresses(n) ==
    [i \in 1..n |-> CHOOSE p \in Free : Cardinality({q \in Free : q < p}) = i - 1]

\* Without memory nothing is left allocated.
Alloc ==
    \E type \in Types, header \in Headers, length \in Lengths :
        LET l == PartLengths(type, header, length)
            a == Addresses(Len(l))
            room == IF type = "PBUF_ROM" THEN 0 ELSE header
        IN  /\ Len(l) <= Cardinality(Free) /\ made < MaxMade
            /\ made' = made + 1
            /\ heap' = pbuf_alloc(heap, a, l, room, type, 10 * made')
            /\ held' = [held EXCEPT ![a[1]] = 1]
            /\ want' = [want EXCEPT ![a[1]] = [j \in 1..length |-> 10 * made' + j]]

Release ==
    \E p \in Holders :
        /\ heap' = pbuf_free(heap, p)
        /\ held' = [held EXCEPT ![p] = @ - 1]
        /\ want' = Wants(want, held')
        /\ made' = IF Live(heap') = {} THEN 0 ELSE made

Refer ==
    \E p \in Holders :
        /\ FoldFunction(+, 0, held) < MaxHeld
        /\ heap' = pbuf_ref(heap, p)
        /\ held' = [held EXCEPT ![p] = @ + 1]
        /\ UNCHANGED <<want, made>>

\* The tail is not the head's, and no one looks at the tail's end.
CanJoin(a, b) ==
    /\ Exclusive(a)
    /\ Range(Chain(heap, a)) \cap Range(Chain(heap, b)) = {}
    /\ heap[a].tot_len + heap[b].tot_len <= MaxLen

Cat ==
    \E a, b \in Holders :
        /\ CanJoin(a, b)
        /\ heap' = pbuf_cat(heap, a, b)
        /\ held' = [held EXCEPT ![b] = @ - 1]
        /\ want' = Wants([want EXCEPT ![a] = @ \o want[b]], held')
        /\ UNCHANGED made

Join ==
    \E a, b \in Holders :
        /\ CanJoin(a, b)
        /\ heap' = pbuf_chain(heap, a, b)
        /\ want' = [want EXCEPT ![a] = @ \o want[b]]
        /\ UNCHANGED <<held, made>>

\* The head may be followed by what others hold.
Dechain ==
    \E p \in Holders :
        /\ held[p] = 1 /\ heap[p].ref = 1
        /\ heap' = pbuf_dechain(heap, p)
        /\ want' = [want EXCEPT ![p] = SubSeq(@, 1, heap[p].len)]
        /\ UNCHANGED <<held, made>>

Realloc ==
    \E p \in Holders, n \in 0..MaxLen :
        /\ Exclusive(p) /\ n < heap[p].tot_len
        /\ heap' = pbuf_realloc(heap, p, n)
        /\ want' = [want EXCEPT ![p] = SubSeq(@, 1, n)]
        /\ UNCHANGED <<held, made>>

\* A header that was stripped is there again when the pointer is moved back; who
\* forces it knows that there is one.
Header ==
    \E p \in Holders, increment \in {-1, 1}, force \in BOOLEAN :
        /\ held[p] = 1 /\ heap[p].ref = 1
        /\ heap[p].tot_len + increment <= MaxLen
        /\ force => heap[p].off >= increment
        /\ heap' = pbuf_header_impl(heap, p, increment, force)
        /\ want' = [want EXCEPT ![p] =
                      IF heap' = heap THEN @
                      ELSE IF increment < 0 THEN Tail(@)
                      ELSE <<heap[p].mem[heap[p].off]>> \o @]
        /\ UNCHANGED <<held, made>>

\* pbuf_copy into a packet that is at least as long.
Copy ==
    \E a, b \in Holders :
        /\ a # b /\ Exclusive(a) /\ heap[a].tot_len >= heap[b].tot_len
        /\ heap' = Put(heap, a, pbuf_copy_partial(heap, b, heap[b].tot_len, 0), 0)
        /\ want' = [want EXCEPT ![a] = want[b] \o SubSeq(@, Len(want[b]) + 1, Len(@))]
        /\ UNCHANGED <<held, made>>

\* pbuf_coalesce: one pbuf instead of a chain, if there is memory for it.
Coalesce ==
    \E p \in Holders, header \in Headers :
        /\ heap[p].next # NULL /\ Free # {} /\ made < MaxMade
        /\ LET q == Addresses(1)
               copy == pbuf_alloc(heap, q, <<heap[p].tot_len>>, header, "PBUF_RAM", 0)
               d == pbuf_copy_partial(heap, p, heap[p].tot_len, 0)
           IN  /\ heap' = pbuf_free(Put(copy, q[1], d, 0), p)
               /\ held' = [held EXCEPT ![p] = @ - 1, ![q[1]] = 1]
               /\ want' = Wants([want EXCEPT ![q[1]] = want[p]], held')
               /\ made' = made + 1

Init ==
    /\ heap = [p \in Pbufs |-> Unused]
    /\ held = [p \in Pbufs |-> 0]
    /\ want = [p \in Pbufs |-> <<>>]
    /\ made = 0

Next ==
    \/ Alloc \/ Release \/ Refer
    \/ Cat \/ Join \/ Dechain \/ Realloc
    \/ Header \/ Copy \/ Coalesce

Spec == Init /\ [][Next]_vars

-----------------------------------------------------------------------------
(* Properties                                                              *)

\* A reference count is the number of pointers to the pbuf, those of the users and
\* those of other pbufs; so nothing that is pointed to is freed, and what no one
\* points to is.
RefsCounted ==
    \A p \in Pbufs :
        LET pointers == held[p] + Cardinality({q \in Live(heap) : heap[q].next = p})
        IN  IF p \in Live(heap) THEN heap[p].ref = pointers ELSE pointers = 0

\* tot_len of a pbuf is its own length and the total of the next, and a held packet
\* has the bytes it should have, whatever was done to others that share its tail.
PacketsKept ==
    /\ \A p \in Live(heap) :
          heap[p].tot_len = heap[p].len
                            + (IF heap[p].next = NULL THEN 0 ELSE heap[heap[p].next].tot_len)
    /\ \A p \in Holders : Flat(heap, p) = want[p]

\* Reading through a chain gives what reading the plain bytes would, wherever the
\* parts begin and end and however much is asked for.
ReadsAgree ==
    \A p \in Holders :
        \A offset \in 0..MaxLen, len \in 0..2 :
            LET plain == SubSeq(want[p], offset + 1, Min({offset + len, Len(want[p])}))
            IN  /\ pbuf_copy_partial(heap, p, len, offset) = plain
                /\ len = 1 => pbuf_try_get_at(heap, p, offset)
                                 = (IF plain = <<>> THEN -1 ELSE plain[1])
                /\ Len(plain) = len /\ len > 0 =>
                      pbuf_memcmp(heap, p, offset, plain) = 0
                      /\ pbuf_memfind(heap, p, plain, 0) <= offset
=============================================================================
