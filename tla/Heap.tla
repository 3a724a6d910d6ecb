-------------------------------- MODULE Heap --------------------------------
(***************************************************************************)
(* malloc, realloc, free and calloc of the user library                    *)
(* (user/libc/stdlib/heap.c).                                              *)
(*                                                                         *)
(* The heap is a chain of segments, each with a header of Granule bytes in *)
(* front of its data.  hdr maps the address of every header to its fields; *)
(* a header the code no longer uses leaves the domain.  Addresses and      *)
(* lengths are 32-bit in the code: arithmetic on them is modulo Word.      *)
(*                                                                         *)
(* A call that needs a block is pending in `call' until malloc finds a     *)
(* segment; every recursive call of malloc is a step of its own.  The      *)
(* program is single-threaded, so nothing else happens meanwhile.          *)
(*                                                                         *)
(* The operators named Wrong_... are faulty variants of the definitions    *)
(* that follow them; no action uses them.                                  *)
(***************************************************************************)
EXTENDS Integers, FiniteSets, FiniteSetsExt

CONSTANTS
    PageSize,    \* 0x1000
    Pages,       \* HEAP_PAGES: pages mapped by initialize_heap
    Base,        \* HEAP_ADDRESS
    Word,        \* 2^32: size_t and pointers wrap here
    Size,        \* the sizes programs ask for
    MaxEnd       \* bound: the heap does not grow past this address

Granule == 16    \* sizeof(heap_segment_header_t), and the rounding of sizes
NULL == 0

ASSUME HeapAssumption ==
    /\ PageSize \in Nat /\ PageSize % Granule = 0 /\ PageSize >= 2 * Granule
    /\ Pages \in Nat /\ Pages > 0
    /\ Base \in Nat /\ Base > 0 /\ Base % PageSize = 0
    /\ Word \in Nat /\ Word % PageSize = 0
    /\ MaxEnd \in Nat /\ Base + Pages * PageSize <= MaxEnd
    /\ MaxEnd < Word
    /\ Size \subseteq 0 .. Word - 1

VARIABLES
    hdr,         \* [address of header -> heap_segment_header_t]
    heap_end,
    last_hdr,
    blocks,      \* history: [address handed out -> bytes the program asked for]
    call,        \* the pending call and the depth of malloc's recursion
    faulted      \* the program touched memory it has not mapped and was killed

vars == <<hdr, heap_end, last_hdr, blocks, call, faulted>>

heap_start == Base

Idle == [op |-> "none", size |-> 0, asked |-> 0, ptr |-> NULL, depth |-> 0]

-----------------------------------------------------------------------------
(* The chain.  A heap value h has the fields hdr, heap_end and last_hdr.   *)

Heap == [hdr |-> hdr, heap_end |-> heap_end, last_hdr |-> last_hdr]

\* The segment behind s is merged into s when it is free.
MergesForward(h, s) ==
    /\ h.hdr[s].next # NULL
    /\ h.hdr[h.hdr[s].next].free

Wrong_hsh_combine_forward(h, s) ==      \* forgets last_hdr
    IF ~MergesForward(h, s) THEN h ELSE
    LET n == h.hdr[s].next
        f == h.hdr[n].next
    IN  [h EXCEPT
           !.hdr = [a \in DOMAIN h.hdr \ {n} |->
                      CASE a = s -> [h.hdr[s] EXCEPT
                                       !.length = @ + h.hdr[n].length + Granule,
                                       !.next = f]
                        [] a = f -> [h.hdr[f] EXCEPT !.last = s]
                        [] OTHER -> h.hdr[a]]]

hsh_combine_forward(h, s) ==
    IF ~MergesForward(h, s) THEN h ELSE
    LET n == h.hdr[s].next
        f == h.hdr[n].next
    IN  [h EXCEPT
           !.hdr = [a \in DOMAIN h.hdr \ {n} |->
                      CASE a = s -> [h.hdr[s] EXCEPT
                                       !.length = @ + h.hdr[n].length + Granule,
                                       !.next = f]
                        [] a = f -> [h.hdr[f] EXCEPT !.last = s]
                        [] OTHER -> h.hdr[a]],
           !.last_hdr = IF @ = n THEN s ELSE @]

hsh_combine_backward(h, s) ==
    LET l == h.hdr[s].last
    IN  IF l # NULL /\ h.hdr[l].free THEN hsh_combine_forward(h, l) ELSE h

\* What is left of segment s behind n bytes of data and a new header: the
\* subtraction is done in size_t and only then widened to int64_t.
SplitLength(h, s, n) == (h.hdr[s].length - (n + Granule)) % Word

hsh_split(h, s, n) ==
    LET rest == SplitLength(h, s, n)
        new == s + n + Granule
        old == h.hdr[s]
    IN  IF n < Granule \/ rest < Granule THEN h ELSE
        [h EXCEPT
           !.hdr = [a \in DOMAIN h.hdr \cup {new} |->
                      CASE a = s -> [old EXCEPT !.next = new, !.length = n]
                        [] a = new -> [length |-> rest, next |-> old.next,
                                       last |-> s, free |-> old.free]
                        [] a = old.next /\ a # new -> [h.hdr[a] EXCEPT !.last = new]
                        [] OTHER -> h.hdr[a]],
           !.last_hdr = IF @ = s THEN new ELSE @]

\* Rounding of expand_heap to whole pages, in size_t.
PageLength(n) ==
    (IF n % PageSize > 0 THEN n - (n % PageSize) + PageSize ELSE n) % Word

\* A length that wraps to zero maps nothing: the new header is written to
\* unmapped memory.
ExpandFaults(n) == PageLength(n) = 0

Wrong_expand_heap(h, n) ==              \* leaves the new pages uncombined
    LET new == h.heap_end
        len == PageLength(n)
    IN  [hdr |-> [a \in DOMAIN h.hdr \cup {new} |->
                    CASE a = new -> [length |-> len - Granule, next |-> NULL,
                                     last |-> h.last_hdr, free |-> TRUE]
                      [] a = h.last_hdr -> [h.hdr[a] EXCEPT !.next = new]
                      [] OTHER -> h.hdr[a]],
         heap_end |-> new + len,
         last_hdr |-> new]

expand_heap(h, n) ==
    LET new == h.heap_end
        len == PageLength(n)
        grown == [hdr |-> [a \in DOMAIN h.hdr \cup {new} |->
                             CASE a = new -> [length |-> len - Granule, next |-> NULL,
                                              last |-> h.last_hdr, free |-> TRUE]
                               [] a = h.last_hdr -> [h.hdr[a] EXCEPT !.next = new]
                               [] OTHER -> h.hdr[a]],
                  heap_end |-> new + len,
                  last_hdr |-> new]
    IN  hsh_combine_backward(grown, new)

-----------------------------------------------------------------------------
(* The calls.                                                              *)

\* Requests are rounded up to a multiple of 0x10, in size_t.
Rounded(n) ==
    (IF n % Granule > 0 THEN n - (n % Granule) + Granule ELSE n) % Word

\* The segments the walk of malloc stops at.  The chain is in address order
\* (Tiled), so the walk takes the lowest of them.
Wrong_Fits(n) ==                        \* an off-by-one lets a smaller segment fit
    {s \in DOMAIN hdr : hdr[s].free /\ hdr[s].length + Granule >= n}

Fits(n) == {s \in DOMAIN hdr : hdr[s].free /\ hdr[s].length >= n}

Install(h) ==
    /\ hdr' = h.hdr
    /\ heap_end' = h.heap_end
    /\ last_hdr' = h.last_hdr

SetFree(h, s, b) == [h EXCEPT !.hdr[s].free = b]

\* A pointer handed out is the address behind the header.
DataOf(s) == s + Granule
HeaderOf(p) == p - Granule

FreeSegment(h, p) ==
    LET s == HeaderOf(p)
    IN  hsh_combine_backward(hsh_combine_forward(SetFree(h, s, TRUE), s), s)

\* The capacity of the block at p.
Capacity(p) == hdr[HeaderOf(p)].length

Without(p) == [q \in DOMAIN blocks \ {p} |-> blocks[q]]

\* malloc(size), calloc(count, size) and a realloc that needs a new block are
\* called; the rounding happens first, and a size that rounds to 0 returns NULL.
\* calloc clears the block it did not get: memset from address 0.
Begin(op, n, asked, p) ==
    /\ ~faulted
    /\ call = Idle
    /\ IF Rounded(n) = 0
       THEN call' = Idle /\ faulted' = (op = "calloc" /\ n > 0)
       ELSE /\ call' = [op |-> op, size |-> n, asked |-> asked, ptr |-> p, depth |-> 0]
            /\ UNCHANGED faulted
    /\ UNCHANGED <<hdr, heap_end, last_hdr, blocks>>

malloc(n) == Begin("malloc", n, n, NULL)

\* count * size is computed in size_t: malloc may get less than the program asked.
calloc(count, n) == Begin("calloc", (count * n) % Word, count * n, NULL)

\* The walk finds a segment: split it, mark it used, return it.  A pending
\* realloc then copies the old block (its whole length, which is smaller than
\* what was asked for) and frees it.
Take ==
    /\ ~faulted
    /\ call # Idle
    /\ Fits(Rounded(call.size)) # {}
    /\ LET n == Rounded(call.size)
           s == Min(Fits(n))
           h == SetFree(IF hdr[s].length > n THEN hsh_split(Heap, s, n) ELSE Heap,
                        s, FALSE)
       IN  IF call.op = "realloc"
           THEN /\ Install(FreeSegment(h, call.ptr))
                /\ blocks' = [q \in (DOMAIN blocks \ {call.ptr}) \cup {DataOf(s)} |->
                                IF q = DataOf(s) THEN call.asked ELSE blocks[q]]
           ELSE /\ Install(h)
                /\ blocks' = [q \in DOMAIN blocks \cup {DataOf(s)} |->
                                IF q = DataOf(s) THEN call.asked ELSE blocks[q]]
    /\ call' = Idle
    /\ UNCHANGED faulted

\* The walk ends without a segment: expand the heap and call malloc again.
Expand ==
    /\ ~faulted
    /\ call # Idle
    /\ LET n == Rounded(call.size)
       IN  /\ Fits(n) = {}
           /\ IF ExpandFaults(n)
              THEN faulted' = TRUE /\ UNCHANGED <<hdr, heap_end, last_hdr, call>>
              ELSE /\ heap_end + PageLength(n) <= MaxEnd
                   /\ Install(expand_heap(Heap, n))
                   /\ call' = [call EXCEPT !.depth = @ + 1]
                   /\ UNCHANGED faulted
    /\ UNCHANGED blocks

\* A program frees a block it holds.
free(p) ==
    /\ ~faulted
    /\ call = Idle
    /\ p \in DOMAIN blocks
    /\ Install(FreeSegment(Heap, p))
    /\ blocks' = Without(p)
    /\ UNCHANGED <<call, faulted>>

\* free(NULL), also as realloc(NULL, 0), writes to the header "in front of"
\* address 0.
free_null ==
    /\ ~faulted
    /\ call = Idle
    /\ faulted' = TRUE
    /\ UNCHANGED <<hdr, heap_end, last_hdr, blocks, call>>

\* realloc of a block the program holds; realloc(NULL, n) is malloc(n) or
\* free_null.
realloc(p, n) ==
    /\ p \in DOMAIN blocks
    /\ \/ n = 0 /\ free(p)
       \/ /\ ~faulted
          /\ call = Idle
          /\ n > 0
          /\ n <= Capacity(p)
          /\ blocks' = [blocks EXCEPT ![p] = n]
          /\ UNCHANGED <<hdr, heap_end, last_hdr, call, faulted>>
       \/ n > 0 /\ n > Capacity(p) /\ Begin("realloc", n, n, p)

-----------------------------------------------------------------------------
(* initialize_heap maps the first pages and makes them one free segment.   *)
Init ==
    /\ hdr = [a \in {heap_start} |->
                [length |-> Pages * PageSize - Granule, next |-> NULL,
                 last |-> NULL, free |-> TRUE]]
    /\ heap_end = heap_start + Pages * PageSize
    /\ last_hdr = heap_start
    /\ blocks = [p \in {} |-> 0]
    /\ call = Idle
    /\ faulted = FALSE

Next ==
    \/ Take
    \/ Expand
    \/ \E n \in Size : malloc(n)
    \/ \E n \in Size, c \in Size : calloc(c, n)
    \/ \E p \in DOMAIN blocks : free(p)
    \/ \E p \in DOMAIN blocks, n \in Size : realloc(p, n)
    \/ free_null

Spec == Init /\ [][Next]_vars

-----------------------------------------------------------------------------
\* The next and last pointers agree, and last_hdr is the segment that expand_heap
\* has to append to.
Chained ==
    /\ {heap_start, last_hdr} \subseteq DOMAIN hdr
    /\ hdr[heap_start].last = NULL /\ hdr[last_hdr].next = NULL
    /\ \A s \in DOMAIN hdr :
          /\ hdr[s].next = NULL => s = last_hdr /\ DataOf(s) + hdr[s].length = heap_end
          /\ hdr[s].next # NULL => /\ hdr[s].next = DataOf(s) + hdr[s].length
                                   /\ hdr[s].next \in DOMAIN hdr
                                   /\ hdr[hdr[s].next].last = s

\* Without this the subtraction in hsh_split would wrap.
Aligned ==
    \A s \in DOMAIN hdr :
        s % Granule = 0 /\ hdr[s].length % Granule = 0 /\ hdr[s].length >= Granule

\* Otherwise fragments of one hole would refuse a large request.
Coalesced ==
    \A s \in DOMAIN hdr :
        hdr[s].free /\ hdr[s].next # NULL => ~hdr[hdr[s].next].free

\* Through any mix of splits, merges, expansions and wrapped sizes the segments
\* cover the heap without gap or overlap, in multiples of 0x10, and no two that
\* are free lie side by side.
Tiled == Chained /\ Aligned /\ Coalesced

\* A block of this length is enough for what was asked, or calloc was asked for
\* more bytes than a size_t can count, which it does not notice.
Serves(length, asked) == asked <= length \/ asked >= Word

\* Every block a program holds has its own segment, marked used and at least
\* as long as what was asked for, however malloc's own rounding wraps, and no
\* other segment is marked used: blocks do not overlap and nothing leaks.  The
\* length is not promised for a calloc whose product overflows.
BlocksAreSegments ==
    /\ \A p \in DOMAIN blocks :
          /\ HeaderOf(p) \in DOMAIN hdr
          /\ ~hdr[HeaderOf(p)].free
          /\ Serves(Capacity(p), blocks[p])
    /\ \A s \in DOMAIN hdr : ~hdr[s].free => DataOf(s) \in DOMAIN blocks

\* malloc calls itself at most twice: the pages it adds are shorter than asked
\* by one header, and the second expansion merges with the first.
RecursionBounded == call.depth <= 2

=============================================================================
