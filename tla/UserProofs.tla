----------------------------- MODULE UserProofs -----------------------------
(***************************************************************************)
(* Proofs about the user library: the heap and the tunnel between a        *)
(* terminal and its programs.                                              *)
(*                                                                         *)
(* The heap, for every size of page, word and heap and every set of sizes  *)
(* asked for.  The links of the chain alone do not exclude a second chain  *)
(* beside the first, whose segments would overlap it; the invariant adds   *)
(* that both directions agree and that no segment reaches into another.    *)
(* Every operation on the chain is one lemma, from a sound heap to a sound *)
(* heap, in which the segments next to the one at work may be open: free   *)
(* side by side with a free one until the last merge.                      *)
(*                                                                         *)
(* The tunnel, for every set of messages, any number of programs and every *)
(* content of the page before it is mapped.  While both sides live it goes *)
(* through four phases.  The invariant names, in each phase, the positions *)
(* the two sides can be at together with the content of the page.          *)
(***************************************************************************)
EXTENDS Heap, Ipc, WellFoundedInduction, TLAPS

----------------------------------------------------------------------------
(* Numbers *)

\* A set of numbers has a least one.
LEMMA LeastNumber ==
    ASSUME NEW T, T \subseteq Nat, T # {}
    PROVE  Min(T) \in T
  <1>1. PICK i \in T : \A j \in T : ~ (<<j, i>> \in OpToRel(<, Nat))
    BY WFMin, NatLessThanWellFounded
  <1>2. ASSUME NEW j \in T
        PROVE  i <= j
    <2>1. i \in Nat /\ j \in Nat
      OBVIOUS
    <2>2. ~ (<<j, i>> \in OpToRel(<, Nat))
      BY <1>1
    <2>. QED
      BY <2>1, <2>2 DEF OpToRel
  <1>. QED
    BY <1>2 DEF Min

\* Pages are multiples of the granule, and so is the range of size_t.
LEMMA Multiples ==
    /\ PageSize \in Nat /\ PageSize % 16 = 0 /\ PageSize >= 32
    /\ Word \in Nat /\ Word % 16 = 0 /\ Word > 0
    /\ \E q \in Int : Word = PageSize * q
    /\ \A k \in Int : (PageSize * k) % 16 = 0
  <1>1. /\ PageSize \in Nat /\ PageSize % 16 = 0 /\ PageSize >= 32
        /\ Word \in Nat /\ Word % PageSize = 0 /\ Word > 0
    BY HeapAssumption DEF Granule
  <1>2. PICK m \in Int : PageSize = 16 * m
    <2>1. PageSize = 16 * (PageSize \div 16) + (PageSize % 16) /\ PageSize \div 16 \in Int
      BY <1>1
    <2>. QED
      BY <1>1, <2>1
  <1>3. ASSUME NEW k \in Int
        PROVE  (PageSize * k) % 16 = 0
    <2>1. PageSize * k = 16 * (m * k) /\ m * k \in Int
      BY <1>2
    <2>. DEFINE x == m * k
    <2>2. x \in Int
      BY <2>1
    <2>. HIDE DEF x
    <2>3. (16 * x) % 16 = 0
      BY <2>2
    <2>. QED
      BY <2>1, <2>3 DEF x
  <1>4. PICK q \in Int : Word = PageSize * q
    <2>1. Word = PageSize * (Word \div PageSize) + (Word % PageSize) /\ Word \div PageSize \in Int
      BY <1>1
    <2>2. PageSize * (Word \div PageSize) \in Int
      BY <1>1, <2>1
    <2>. QED
      BY <1>1, <2>1, <2>2
  <1>5. Word % 16 = 0
    BY <1>3, <1>4
  <1>. QED
    BY <1>1, <1>3, <1>4, <1>5

\* A request that does not round to zero is rounded up to the granule.
LEMMA RoundedIs ==
    ASSUME NEW n \in 0 .. Word - 1, Rounded(n) # 0
    PROVE  /\ Rounded(n) \in Nat /\ Rounded(n) % 16 = 0
           /\ Rounded(n) >= 16 /\ n <= Rounded(n) /\ Rounded(n) < Word
  <1>. DEFINE r == IF n % 16 > 0 THEN n - (n % 16) + 16 ELSE n
  <1>1. Word \in Nat /\ Word % 16 = 0
    BY Multiples
  <1>2. r \in Nat /\ r % 16 = 0 /\ n <= r /\ r <= Word
    BY <1>1
  <1>3. Rounded(n) = r % Word
    BY DEF Rounded, Granule
  <1>. HIDE DEF r
  <1>4. r # Word
    <2>. SUFFICES ASSUME r = Word
                  PROVE  FALSE
      OBVIOUS
    <2>1. Word % Word = 0
      BY <1>1
    <2>. QED
      BY <1>3, <2>1
  <1>5. r % Word = r
    BY <1>1, <1>2, <1>4
  <1>. QED
    BY <1>2, <1>3, <1>4, <1>5, <1>1

\* The pages added for a request hold it but for the header.
LEMMA PageLengthIs ==
    ASSUME NEW n \in 0 .. Word - 1, PageLength(n) # 0
    PROVE  /\ PageLength(n) \in Nat /\ PageLength(n) % 16 = 0
           /\ PageLength(n) >= 32 /\ n <= PageLength(n)
  <1>. DEFINE r == IF n % PageSize > 0 THEN n - (n % PageSize) + PageSize ELSE n
              d == n \div PageSize
  <1>0. /\ PageSize \in Nat /\ PageSize >= 32 /\ Word \in Nat /\ Word > 0
        /\ Word % PageSize = 0
        /\ \A k \in Int : (PageSize * k) % 16 = 0
    BY Multiples, HeapAssumption
  <1>1. n \in Nat /\ d \in Int /\ n = PageSize * d + (n % PageSize) /\ n % PageSize \in 0 .. PageSize - 1
    BY <1>0
  <1>2. PICK q \in Int : Word = PageSize * q
    BY Multiples
  <1>. HIDE DEF d
  <1>3. PageSize * d \in Int /\ PageSize * (d + 1) = PageSize * d + PageSize
    BY <1>0, <1>1
  <1>4. PICK k \in Int : r = PageSize * k
    <2>1. CASE n % PageSize > 0
      <3>1. r = n - (n % PageSize) + PageSize
        BY <2>1
      <3>2. r = PageSize * (d + 1)
        BY <1>0, <1>1, <1>3, <3>1
      <3>3. d + 1 \in Int
        BY <1>1
      <3>. QED
        BY <3>2, <3>3
    <2>2. CASE ~ (n % PageSize > 0)
      <3>1. n % PageSize = 0
        BY <1>1, <2>2
      <3>. QED
        BY <1>1, <1>3, <2>2, <3>1
    <2>. QED
      BY <2>1, <2>2
  <1>5. r \in Nat /\ n <= r /\ r < n + PageSize
    BY <1>0, <1>1
  <1>6. PageLength(n) = r % Word
    BY DEF PageLength
  <1>. HIDE DEF r
  <1>7. r <= Word
    <2>. SUFFICES ASSUME r > Word
                  PROVE  FALSE
      BY <1>0, <1>5
    <2>1. k >= q + 1
      <3>. SUFFICES ASSUME k <= q
                    PROVE  FALSE
        OBVIOUS
      <3>1. PICK e \in Nat : q = k + e
        <4>1. q - k \in Nat /\ q = k + (q - k)
          OBVIOUS
        <4>. QED
          BY <4>1
      <3>2. PageSize * q = PageSize * k + PageSize * e /\ PageSize * e \in Nat /\ PageSize * k \in Int
        BY <1>0, <3>1
      <3>. QED
        BY <1>0, <1>2, <1>4, <1>5, <3>2
    <2>2. PICK e \in Nat : k = q + 1 + e
      <3>1. k - q - 1 \in Nat /\ k = q + 1 + (k - q - 1)
        BY <2>1
      <3>. QED
        BY <3>1
    <2>3. PageSize * k = PageSize * q + PageSize + PageSize * e /\ PageSize * e \in Nat
      BY <1>0, <2>2
    <2>. QED
      BY <1>0, <1>1, <1>2, <1>4, <1>5, <2>3
  <1>8. r # Word
    <2>. SUFFICES ASSUME r = Word
                  PROVE  FALSE
      OBVIOUS
    <2>1. Word % Word = 0
      BY <1>0
    <2>. QED
      BY <1>6, <2>1
  <1>9. r % Word = r
    BY <1>0, <1>5, <1>7, <1>8
  <1>10. r >= 32
    <2>1. r > 0
      BY <1>5, <1>6, <1>9
    <2>2. k >= 1
      <3>. SUFFICES ASSUME k <= 0
                    PROVE  FALSE
        OBVIOUS
      <3>1. PICK e \in Nat : k = - e
        <4>1. - k \in Nat /\ k = - (- k)
          OBVIOUS
        <4>. QED
          BY <4>1
      <3>2. PageSize * k = - (PageSize * e) /\ PageSize * e \in Nat
        BY <1>0, <3>1
      <3>. QED
        BY <1>4, <2>1, <3>2
    <2>3. PICK e \in Nat : k = 1 + e
      <3>1. k - 1 \in Nat /\ k = 1 + (k - 1)
        BY <2>2
      <3>. QED
        BY <3>1
    <2>4. PageSize * k = PageSize + PageSize * e /\ PageSize * e \in Nat
      BY <1>0, <2>3
    <2>. QED
      BY <1>0, <1>4, <2>4
  <1>. QED
    BY <1>0, <1>4, <1>5, <1>6, <1>9, <1>10

----------------------------------------------------------------------------
(* Heap values *)

Header == [length : Nat, next : Nat, last : Nat, free : BOOLEAN]
Headers == UNION {[S -> Header] : S \in SUBSET Nat}
HeapValue == [hdr : Headers, heap_end : Nat, last_hdr : Nat]

\* The address behind segment s.
EndOf(h, s) == s + Granule + h.hdr[s].length

\* The pointers agree in both directions ...
Anchored(h) ==
    /\ {heap_start, h.last_hdr} \subseteq DOMAIN h.hdr
    /\ h.hdr[heap_start].last = NULL /\ h.hdr[h.last_hdr].next = NULL

Forward(h) ==
    \A s \in DOMAIN h.hdr :
        /\ h.hdr[s].next = NULL => s = h.last_hdr /\ EndOf(h, s) = h.heap_end
        /\ h.hdr[s].next # NULL => /\ h.hdr[s].next = EndOf(h, s)
                                   /\ h.hdr[s].next \in DOMAIN h.hdr
                                   /\ h.hdr[h.hdr[s].next].last = s

Backward(h) ==
    \A s \in DOMAIN h.hdr :
        /\ h.hdr[s].last = NULL => s = heap_start
        /\ h.hdr[s].last # NULL => /\ h.hdr[s].last \in DOMAIN h.hdr
                                   /\ h.hdr[h.hdr[s].last].next = s

\* ... no segment reaches into another or over the end: the pointers alone do
\* not exclude a second chain inside the first ...
Apart(h) ==
    \A s \in DOMAIN h.hdr :
        /\ s > 0 /\ EndOf(h, s) <= h.heap_end
        /\ \A a \in DOMAIN h.hdr : s < a => EndOf(h, s) <= a

Even(h) ==
    \A s \in DOMAIN h.hdr :
        s % Granule = 0 /\ h.hdr[s].length % Granule = 0 /\ h.hdr[s].length >= Granule

\* ... and free segments have no free neighbour, but for those in open.
Merged(h, open) ==
    \A s \in DOMAIN h.hdr \ open :
        h.hdr[s].free /\ h.hdr[s].next # NULL => ~ h.hdr[h.hdr[s].next].free

Sound(h, open) ==
    /\ h \in HeapValue
    /\ Anchored(h) /\ Forward(h) /\ Backward(h) /\ Apart(h) /\ Even(h)
    /\ Merged(h, open)

\* The segments that are in use are the same, and as long.
Used(h) == {s \in DOMAIN h.hdr : ~ h.hdr[s].free}

SameUsed(h, k) ==
    /\ Used(k) = Used(h)
    /\ \A s \in Used(h) : k.hdr[s].length = h.hdr[s].length

LEMMA HeaderIs ==
    ASSUME NEW h \in HeapValue, NEW s \in DOMAIN h.hdr
    PROVE  /\ s \in Nat /\ h.hdr[s] \in Header
           /\ h.hdr[s].length \in Nat /\ h.hdr[s].next \in Nat
           /\ h.hdr[s].last \in Nat /\ h.hdr[s].free \in BOOLEAN
  <1>1. h.hdr \in Headers
    BY DEF HeapValue
  <1>2. PICK S \in SUBSET Nat : h.hdr \in [S -> Header]
    BY <1>1 DEF Headers
  <1>3. s \in Nat /\ h.hdr[s] \in Header
    BY <1>2
  <1>. QED
    BY <1>3 DEF Header

LEMMA SoundAddresses ==
    ASSUME NEW h, NEW open, Sound(h, open)
    PROVE  /\ h.heap_end \in Nat /\ h.last_hdr \in Nat
           /\ \A s \in DOMAIN h.hdr : s \in Nat /\ s > 0 /\ s # NULL
  BY HeaderIs DEF Sound, HeapValue, Apart, NULL

\* A heap value made of headers for a set of addresses.
LEMMA HeapValueIs ==
    ASSUME NEW S, S \subseteq Nat, NEW f \in [S -> Header], NEW e \in Nat, NEW l \in Nat
    PROVE  [hdr |-> f, heap_end |-> e, last_hdr |-> l] \in HeapValue
  <1>1. f \in Headers
    BY DEF Headers
  <1>. QED
    BY <1>1 DEF HeapValue

\* A function with two (three) exceptions.
LEMMA TwoExceptions ==
    ASSUME NEW S, NEW g, NEW x, NEW y, NEW A, NEW B, x # y
    PROVE  LET m == [a \in S |-> CASE a = x -> A [] a = y -> B [] OTHER -> g[a]]
           IN  /\ DOMAIN m = S
               /\ \A T : (\A a \in S : m[a] \in T) => m \in [S -> T]
               /\ x \in S => m[x] = A
               /\ y \in S => m[y] = B
               /\ \A a \in S \ {x, y} : m[a] = g[a]
  OBVIOUS

LEMMA ThreeExceptions ==
    ASSUME NEW S, NEW g, NEW x, NEW y, NEW z, NEW A, NEW B, NEW C, x # y, x # z, y # z
    PROVE  LET m == [a \in S |-> CASE a = x -> A [] a = y -> B
                                   [] a = z /\ a # y -> C [] OTHER -> g[a]]
           IN  /\ DOMAIN m = S
               /\ \A T : (\A a \in S : m[a] \in T) => m \in [S -> T]
               /\ x \in S => m[x] = A
               /\ y \in S => m[y] = B
               /\ z \in S => m[z] = C
               /\ \A a \in S \ {x, y, z} : m[a] = g[a]
  OBVIOUS

\* What hsh_combine_forward makes of two segments.
MergedHdr(h, s) ==
    LET n == h.hdr[s].next
        f == h.hdr[n].next
    IN  [a \in DOMAIN h.hdr \ {n} |->
            CASE a = s -> [h.hdr[s] EXCEPT !.length = @ + h.hdr[n].length + Granule, !.next = f]
              [] a = f -> [h.hdr[f] EXCEPT !.last = s]
              [] OTHER -> h.hdr[a]]

LEMMA CombineIs ==
    ASSUME NEW h \in HeapValue, NEW s, MergesForward(h, s)
    PROVE  hsh_combine_forward(h, s) =
               [hdr |-> MergedHdr(h, s), heap_end |-> h.heap_end,
                last_hdr |-> IF h.last_hdr = h.hdr[s].next THEN s ELSE h.last_hdr]
  BY DEF hsh_combine_forward, MergedHdr, HeapValue

\* The fields of the headers m after a merge.
IsMerged(h, s, m) ==
    LET n == h.hdr[s].next
        f == h.hdr[n].next
    IN  /\ n \in DOMAIN h.hdr /\ n > s /\ n = EndOf(h, s)
        /\ f # NULL => f \in DOMAIN h.hdr /\ f > n /\ f = EndOf(h, n)
        /\ DOMAIN m = DOMAIN h.hdr \ {n}
        /\ m \in [DOMAIN h.hdr \ {n} -> Header]
        /\ m[s].length = h.hdr[s].length + h.hdr[n].length + Granule
        /\ m[s].next = f /\ m[s].last = h.hdr[s].last /\ m[s].free = h.hdr[s].free
        /\ \A a \in DOMAIN m \ {s} :
               /\ m[a].length = h.hdr[a].length /\ m[a].next = h.hdr[a].next
               /\ m[a].free = h.hdr[a].free
               /\ m[a].last = IF a = f THEN s ELSE h.hdr[a].last

LEMMA MergedFields ==
    ASSUME NEW h, NEW open, Sound(h, open), NEW s \in DOMAIN h.hdr, MergesForward(h, s)
    PROVE  IsMerged(h, s, MergedHdr(h, s))
  <1>. DEFINE n == h.hdr[s].next
              f == h.hdr[n].next
              m == MergedHdr(h, s)
  <1>0. h \in HeapValue
    BY DEF Sound
  <1>1. n # NULL /\ n \in DOMAIN h.hdr /\ n = EndOf(h, s)
    BY DEF MergesForward, Sound, Forward
  <1>2. /\ s \in Nat /\ h.hdr[s] \in Header /\ h.hdr[s].length \in Nat
        /\ n \in Nat /\ h.hdr[n] \in Header /\ h.hdr[n].length \in Nat /\ f \in Nat
    BY <1>0, <1>1, HeaderIs
  <1>3. n > s
    BY <1>1, <1>2 DEF EndOf, Granule
  <1>4. f # NULL => f \in DOMAIN h.hdr /\ f = EndOf(h, n)
    BY <1>1 DEF Sound, Forward
  <1>5. f # NULL => f > n
    BY <1>2, <1>4 DEF EndOf, Granule
  <1>6. \A a \in DOMAIN h.hdr : h.hdr[a] \in Header
    BY <1>0, HeaderIs
  <1>. DEFINE both == [h.hdr[s] EXCEPT !.length = @ + h.hdr[n].length + Granule, !.next = f]
              back == [h.hdr[f] EXCEPT !.last = s]
              S == DOMAIN h.hdr \ {n}
  <1>7. n # s /\ f # s
    BY <1>2, <1>3, <1>5, SoundAddresses
  <1>8. m = [a \in S |-> CASE a = s -> both [] a = f -> back [] OTHER -> h.hdr[a]]
    BY DEF MergedHdr
  <1>9. /\ both \in Header
        /\ both.length = h.hdr[s].length + h.hdr[n].length + Granule
        /\ both.next = f /\ both.last = h.hdr[s].last /\ both.free = h.hdr[s].free
    <2>. DEFINE x == h.hdr[s].length + h.hdr[n].length + Granule
    <2>1. x \in Nat
      BY <1>2 DEF Granule
    <2>2. both = [h.hdr[s] EXCEPT !.length = x, !.next = f]
      OBVIOUS
    <2>. HIDE DEF x, both
    <2>3. /\ both \in Header /\ both.length = x
          /\ both.next = f /\ both.last = h.hdr[s].last /\ both.free = h.hdr[s].free
      BY <1>2, <2>1, <2>2 DEF Header
    <2>. QED
      BY <2>3 DEF x
  <1>10. f # NULL => /\ back \in Header /\ back.length = h.hdr[f].length
                     /\ back.next = h.hdr[f].next /\ back.free = h.hdr[f].free
                     /\ back.last = s
    BY <1>2, <1>4, <1>6 DEF Header
  <1>. HIDE DEF both, back
  <1>11. /\ DOMAIN m = S
         /\ \A T : (\A a \in S : m[a] \in T) => m \in [S -> T]
         /\ m[s] = both
         /\ f \in S => m[f] = back
         /\ \A a \in S \ {s, f} : m[a] = h.hdr[a]
    <2>. HIDE DEF m, f
    <2>. QED
      BY <1>7, <1>8, TwoExceptions
  <1>. HIDE DEF m
  <1>12. f \in S => f # NULL
    BY SoundAddresses
  <1>13. \A a \in S \ {s} :
            /\ m[a] \in Header
            /\ m[a].length = h.hdr[a].length /\ m[a].next = h.hdr[a].next
            /\ m[a].free = h.hdr[a].free
            /\ m[a].last = IF a = f THEN s ELSE h.hdr[a].last
    BY <1>6, <1>10, <1>11, <1>12
  <1>14. m \in [S -> Header]
    BY <1>9, <1>11, <1>13
  <1>15. /\ m[s].length = h.hdr[s].length + h.hdr[n].length + Granule
         /\ m[s].next = f /\ m[s].last = h.hdr[s].last /\ m[s].free = h.hdr[s].free
    BY <1>9, <1>11
  <1>. QED
    BY <1>1, <1>3, <1>4, <1>5, <1>11, <1>13, <1>14, <1>15 DEF m, IsMerged

\* A segment that merges with the free one behind it leaves a sound heap, and
\* the fields of the other segments stay.
Joined(h, s, k) ==
    LET n == h.hdr[s].next
    IN  /\ DOMAIN k.hdr = DOMAIN h.hdr \ {n} /\ n # s /\ s \in DOMAIN k.hdr
        /\ \A a \in DOMAIN k.hdr : k.hdr[a].free = h.hdr[a].free
        /\ \A a \in DOMAIN k.hdr \ {s} : k.hdr[a].length = h.hdr[a].length
        /\ k.hdr[s].length = h.hdr[s].length + h.hdr[n].length + Granule
        /\ k.hdr[s].last = h.hdr[s].last
        /\ k.heap_end = h.heap_end
        /\ k.last_hdr = IF h.last_hdr = n THEN s ELSE h.last_hdr

LEMMA MergeSound ==
    ASSUME NEW h, NEW open, NEW s \in DOMAIN h.hdr, Sound(h, open \cup {s}),
           MergesForward(h, s), h.hdr[s].next \notin open
    PROVE  Sound(hsh_combine_forward(h, s), open) /\ Joined(h, s, hsh_combine_forward(h, s))
  <1>. DEFINE n == h.hdr[s].next
              f == h.hdr[n].next
              m == MergedHdr(h, s)
              e == IF h.last_hdr = n THEN s ELSE h.last_hdr
              k == [hdr |-> m, heap_end |-> h.heap_end, last_hdr |-> e]
              D == DOMAIN h.hdr
  <1>0. h \in HeapValue
    BY DEF Sound
  <1>1. hsh_combine_forward(h, s) = k
    BY <1>0, CombineIs
  <1>2. /\ n \in D /\ n > s /\ n = EndOf(h, s)
        /\ f # NULL => f \in D /\ f > n /\ f = EndOf(h, n)
        /\ DOMAIN m = D \ {n}
        /\ m \in [D \ {n} -> Header]
        /\ m[s].length = h.hdr[s].length + h.hdr[n].length + Granule
        /\ m[s].next = f /\ m[s].last = h.hdr[s].last /\ m[s].free = h.hdr[s].free
        /\ \A a \in DOMAIN m \ {s} :
               /\ m[a].length = h.hdr[a].length /\ m[a].next = h.hdr[a].next
               /\ m[a].free = h.hdr[a].free
               /\ m[a].last = IF a = f THEN s ELSE h.hdr[a].last
    <2>. DEFINE X == open \cup {s}
    <2>1. Sound(h, X) /\ MergesForward(h, s)
      OBVIOUS
    <2>. HIDE DEF X
    <2>2. IsMerged(h, s, m)
      BY <2>1, MergedFields
    <2>. HIDE DEF m
    <2>. QED
      BY <2>2 DEF IsMerged
  <1>3. /\ h.heap_end \in Nat /\ h.last_hdr \in Nat
        /\ \A a \in D : /\ a \in Nat /\ a > 0 /\ a # NULL
                        /\ h.hdr[a].length \in Nat /\ h.hdr[a].next \in Nat
                        /\ h.hdr[a].last \in Nat
    BY <1>0, SoundAddresses, HeaderIs
  <1>. HIDE DEF m
  <1>4. Anchored(h) /\ Forward(h) /\ Backward(h) /\ Apart(h) /\ Even(h) /\ Merged(h, open \cup {s})
    BY DEF Sound
  <1>5. n # s /\ f # s /\ s \in DOMAIN m /\ h.hdr[n].last = s /\ f # n
    BY <1>2, <1>3, <1>4 DEF Forward, NULL
  <1>6. k \in HeapValue
    <2>1. D \ {n} \subseteq Nat
      BY <1>3
    <2>2. e \in Nat
      BY <1>3
    <2>. HIDE DEF e
    <2>. QED
      BY <1>2, <1>3, <2>1, <2>2, HeapValueIs
  <1>7. Anchored(k)
    <2>1. h.hdr[heap_start].last = NULL /\ heap_start \in D /\ h.last_hdr \in D /\ h.hdr[h.last_hdr].next = NULL
      BY <1>4 DEF Anchored
    <2>2. heap_start # n /\ heap_start \in DOMAIN m
      BY <1>2, <1>3, <1>5, <2>1
    <2>3. m[heap_start].last = NULL
      <3>1. CASE heap_start = s
        BY <1>2, <2>1, <3>1
      <3>2. CASE heap_start # s
        <4>1. heap_start # f
          <5>1. f # NULL => h.hdr[f].last = n
            BY <1>2, <1>4 DEF Forward
          <5>. QED
            BY <1>2, <1>3, <2>1, <5>1
        <4>. QED
          BY <1>2, <2>1, <2>2, <3>2, <4>1
      <3>. QED
        BY <3>1, <3>2
    <2>4. e \in DOMAIN m /\ m[e].next = NULL
      <3>1. CASE h.last_hdr = n
        BY <1>2, <1>5, <2>1, <3>1
      <3>2. CASE h.last_hdr # n
        <4>1. h.last_hdr # s
          BY <1>2, <1>3, <2>1
        <4>. QED
          BY <1>2, <2>1, <3>2, <4>1
      <3>. QED
        BY <3>1, <3>2
    <2>. QED
      BY <2>2, <2>3, <2>4 DEF Anchored
  <1>8. \A a \in DOMAIN m \ {s} : EndOf(k, a) = EndOf(h, a)
    BY <1>2 DEF EndOf
  <1>9. EndOf(k, s) = EndOf(h, n)
    BY <1>2, <1>3 DEF EndOf, Granule
  <1>10. f # NULL => h.hdr[f].last = n
    BY <1>2, <1>4 DEF Forward
  <1>11. ASSUME NEW a \in DOMAIN m \ {s}, h.hdr[a].next # NULL
         PROVE  h.hdr[a].next \in DOMAIN m /\ h.hdr[a].next # f
    BY <1>2, <1>4, <1>5, <1>10, <1>11 DEF Forward
  <1>12. ASSUME NEW a \in DOMAIN m
         PROVE  /\ k.hdr[a].next = NULL => a = k.last_hdr /\ EndOf(k, a) = k.heap_end
                /\ k.hdr[a].next # NULL => /\ k.hdr[a].next = EndOf(k, a)
                                           /\ k.hdr[a].next \in DOMAIN k.hdr
                                           /\ k.hdr[k.hdr[a].next].last = a
    <2>1. CASE a = s
      <3>1. f = NULL => n = h.last_hdr /\ EndOf(h, n) = h.heap_end
        BY <1>2, <1>4 DEF Forward
      <3>2. f # NULL => f \in DOMAIN m /\ m[f].last = s
        BY <1>2, <1>5
      <3>. QED
        BY <1>2, <1>9, <2>1, <3>1, <3>2
    <2>2. CASE a # s
      <3>1. m[a].next = h.hdr[a].next /\ a \in D
        BY <1>2, <2>2
      <3>2. /\ h.hdr[a].next = NULL => a = h.last_hdr /\ EndOf(h, a) = h.heap_end
            /\ h.hdr[a].next # NULL => /\ h.hdr[a].next = EndOf(h, a)
                                       /\ h.hdr[h.hdr[a].next].last = a
        BY <1>4, <3>1 DEF Forward
      <3>3. h.hdr[a].next = NULL => a = e
        BY <1>2, <3>2
      <3>4. h.hdr[a].next # NULL => /\ h.hdr[a].next \in DOMAIN m
                                    /\ m[h.hdr[a].next].last = a
        <4>. SUFFICES ASSUME h.hdr[a].next # NULL
                      PROVE  /\ h.hdr[a].next \in DOMAIN m
                             /\ m[h.hdr[a].next].last = a
          OBVIOUS
        <4>1. h.hdr[a].next \in DOMAIN m /\ h.hdr[a].next # f
          BY <1>11, <2>2
        <4>2. m[h.hdr[a].next].last = h.hdr[h.hdr[a].next].last
          BY <1>2, <4>1
        <4>. QED
          BY <3>2, <4>1, <4>2
      <3>. QED
        BY <1>8, <2>2, <3>1, <3>2, <3>3, <3>4
    <2>. QED
      BY <2>1, <2>2
  <1>13. Forward(k)
    BY <1>12 DEF Forward
  <1>14. ASSUME NEW a \in DOMAIN m
         PROVE  /\ m[a].last = NULL => a = heap_start
                /\ m[a].last # NULL => m[a].last \in DOMAIN m /\ m[m[a].last].next = a
    <2>1. /\ h.hdr[a].last = NULL => a = heap_start
          /\ h.hdr[a].last # NULL => /\ h.hdr[a].last \in D
                                     /\ h.hdr[h.hdr[a].last].next = a
      BY <1>2, <1>4 DEF Backward
    <2>2. CASE a = f
      BY <1>2, <1>3, <1>5, <2>2
    <2>3. CASE a # f
      <3>1. m[a].last = h.hdr[a].last
        BY <1>2, <2>3
      <3>. SUFFICES ASSUME h.hdr[a].last # NULL
                    PROVE  h.hdr[a].last \in DOMAIN m /\ m[h.hdr[a].last].next = a
        BY <2>1, <3>1
      <3>2. h.hdr[a].last # n /\ h.hdr[a].last # s
        BY <1>2, <2>1, <2>3
      <3>. QED
        BY <1>2, <2>1, <3>2
    <2>. QED
      BY <2>2, <2>3
  <1>15. Backward(k)
    BY <1>14 DEF Backward
  <1>16. Apart(k)
    <2>1. ASSUME NEW a \in DOMAIN m
          PROVE  a > 0 /\ EndOf(k, a) <= h.heap_end
      BY <1>2, <1>4, <1>8, <1>9 DEF Apart
    <2>2. ASSUME NEW a \in DOMAIN m, NEW b \in DOMAIN m, a < b
          PROVE  EndOf(k, a) <= b
      <3>1. CASE a = s
        <4>1. b \in D /\ b # n /\ EndOf(h, s) <= b
          BY <1>2, <1>4, <2>2, <3>1 DEF Apart
        <4>2. n < b
          BY <1>2, <1>3, <4>1
        <4>. QED
          BY <1>2, <1>4, <1>9, <3>1, <4>1, <4>2 DEF Apart
      <3>2. CASE a # s
        BY <1>2, <1>4, <1>8, <2>2, <3>2 DEF Apart
      <3>. QED
        BY <3>1, <3>2
    <2>. QED
      BY <2>1, <2>2 DEF Apart
  <1>17. Even(k)
    <2>1. ASSUME NEW a \in DOMAIN m \ {s}
          PROVE  a % Granule = 0 /\ m[a].length % Granule = 0 /\ m[a].length >= Granule
      BY <1>2, <1>4 DEF Even
    <2>2. s % Granule = 0 /\ m[s].length % Granule = 0 /\ m[s].length >= Granule
      <3>1. /\ h.hdr[s].length % Granule = 0 /\ h.hdr[s].length >= Granule /\ s % Granule = 0
            /\ h.hdr[n].length % Granule = 0 /\ h.hdr[n].length >= Granule
        BY <1>2, <1>4 DEF Even
      <3>2. h.hdr[s].length \in Nat /\ h.hdr[n].length \in Nat
        BY <1>2, <1>3
      <3>3. m[s].length = h.hdr[s].length + h.hdr[n].length + Granule
        BY <1>2
      <3>. QED
        BY <3>1, <3>2, <3>3 DEF Granule
    <2>. QED
      BY <2>1, <2>2 DEF Even
  <1>18. ASSUME NEW a \in DOMAIN m \ open, m[a].free, m[a].next # NULL
         PROVE  ~ m[m[a].next].free
    <2>1. CASE a = s
      <3>1. m[a].next = f /\ f # NULL /\ f \in DOMAIN m /\ f # s
        BY <1>2, <1>5, <1>18, <2>1
      <3>2. n \notin open \cup {s} /\ h.hdr[n].free
        BY <1>5 DEF MergesForward
      <3>3. ~ h.hdr[f].free
        BY <1>2, <1>4, <3>1, <3>2 DEF Merged
      <3>. QED
        BY <1>2, <3>1, <3>3
    <2>2. CASE a # s
      <3>1. m[a].next = h.hdr[a].next /\ h.hdr[a].free /\ a \in D \ (open \cup {s})
        BY <1>2, <1>18, <2>2
      <3>2. h.hdr[a].next \in DOMAIN m
        BY <1>11, <1>18, <2>2, <3>1
      <3>3. ~ h.hdr[h.hdr[a].next].free
        BY <1>4, <1>18, <3>1 DEF Merged
      <3>. QED
        BY <1>2, <3>1, <3>2, <3>3
    <2>. QED
      BY <2>1, <2>2
  <1>19. Merged(k, open)
    BY <1>18 DEF Merged
  <1>20. Sound(k, open)
    BY <1>6, <1>7, <1>13, <1>15, <1>16, <1>17, <1>19 DEF Sound
  <1>21. \A a \in DOMAIN m : m[a].free = h.hdr[a].free
    BY <1>2
  <1>22. \A a \in DOMAIN m \ {s} : m[a].length = h.hdr[a].length
    BY <1>2
  <1>23. Joined(h, s, k)
    BY <1>2, <1>5, <1>21, <1>22 DEF Joined
  <1>. HIDE DEF k
  <1>. QED
    BY <1>1, <1>20, <1>23

\* Merging a free segment with what is behind it leaves the used segments alone.
Kept(h, k) == SameUsed(h, k) /\ k.heap_end = h.heap_end

LEMMA ForwardSound ==
    ASSUME NEW h, NEW open, NEW s \in DOMAIN h.hdr, Sound(h, open \cup {s}), h.hdr[s].free,
           MergesForward(h, s) => h.hdr[s].next \notin open
    PROVE  LET k == hsh_combine_forward(h, s)
           IN  /\ Sound(k, open) /\ Kept(h, k)
               /\ s \in DOMAIN k.hdr /\ k.hdr[s].free /\ k.hdr[s].last = h.hdr[s].last
  <1>. DEFINE k == hsh_combine_forward(h, s)
              n == h.hdr[s].next
  <1>1. CASE MergesForward(h, s)
    <2>1. Sound(k, open) /\ Joined(h, s, k)
      BY <1>1, MergeSound
    <2>2. h.hdr[n].free
      BY <1>1 DEF MergesForward
    <2>. HIDE DEF k
    <2>3. Kept(h, k)
      BY <2>1, <2>2 DEF Joined, Kept, SameUsed, Used
    <2>4. s \in DOMAIN k.hdr /\ k.hdr[s].free /\ k.hdr[s].last = h.hdr[s].last
      BY <2>1 DEF Joined
    <2>. QED
      BY <2>1, <2>3, <2>4 DEF k
  <1>2. CASE ~ MergesForward(h, s)
    <2>1. k = h
      BY <1>2 DEF hsh_combine_forward
    <2>2. Merged(h, open)
      BY <1>2 DEF MergesForward, Sound, Merged
    <2>3. Sound(h, open)
      BY <2>2 DEF Sound
    <2>4. Kept(h, h)
      BY DEF Kept, SameUsed
    <2>. HIDE DEF k
    <2>. QED
      BY <2>1, <2>3, <2>4 DEF k
  <1>. QED
    BY <1>1, <1>2

\* The same for a merge with what is in front of it; at the end of the chain the
\* last header stays free and grows.
LEMMA BackwardSound ==
    ASSUME NEW h, NEW s \in DOMAIN h.hdr, Sound(h, {h.hdr[s].last}), h.hdr[s].free
    PROVE  LET k == hsh_combine_backward(h, s)
               l == h.hdr[s].last
           IN  /\ Sound(k, {}) /\ Kept(h, k)
               /\ h.last_hdr = s =>
                      /\ k.hdr[k.last_hdr].free
                      /\ k.hdr[k.last_hdr].length >= h.hdr[s].length
                      /\ (l # NULL /\ h.hdr[l].free) =>
                             k.hdr[k.last_hdr].length >= h.hdr[s].length + h.hdr[l].length + Granule
  <1>. DEFINE k == hsh_combine_backward(h, s)
              l == h.hdr[s].last
  <1>0. h \in HeapValue /\ Backward(h) /\ Merged(h, {l})
    BY DEF Sound
  <1>1. h.hdr[s].length \in Nat
    BY <1>0, HeaderIs
  <1>2. CASE l # NULL /\ h.hdr[l].free
    <2>1. l \in DOMAIN h.hdr /\ h.hdr[l].next = s
      BY <1>0, <1>2 DEF Backward
    <2>2. s # NULL /\ h.hdr[l].length \in Nat
      BY <1>0, <2>1, HeaderIs, SoundAddresses
    <2>3. MergesForward(h, l)
      BY <2>1, <2>2 DEF MergesForward
    <2>4. k = hsh_combine_forward(h, l)
      BY <1>2 DEF hsh_combine_backward
    <2>5. Sound(h, {} \cup {l}) /\ h.hdr[l].next \notin {}
      <3>1. {} \cup {l} = {l}
        OBVIOUS
      <3>. QED
        BY <3>1
    <2>6. Sound(k, {}) /\ Joined(h, l, k)
      BY <2>1, <2>3, <2>4, <2>5, MergeSound
    <2>. HIDE DEF k
    <2>7. Kept(h, k)
      BY <1>2, <2>1, <2>6 DEF Joined, Kept, SameUsed, Used
    <2>8. h.last_hdr = s => /\ k.hdr[k.last_hdr].free
                            /\ k.hdr[k.last_hdr].length = h.hdr[s].length + h.hdr[l].length + Granule
      BY <1>1, <1>2, <2>1, <2>2, <2>6 DEF Joined, Granule
    <2>9. h.hdr[s].length + h.hdr[l].length + Granule >= h.hdr[s].length
      BY <1>1, <2>2 DEF Granule
    <2>. HIDE DEF l
    <2>. QED
      BY <1>1, <2>2, <2>6, <2>7, <2>8, <2>9 DEF k, l, Granule
  <1>3. CASE ~ (l # NULL /\ h.hdr[l].free)
    <2>1. k = h
      BY <1>3 DEF hsh_combine_backward
    <2>2. l \in DOMAIN h.hdr => l # NULL
      BY SoundAddresses
    <2>3. Merged(h, {})
      BY <1>0, <1>3, <2>2 DEF Merged
    <2>4. Sound(h, {})
      BY <2>3 DEF Sound
    <2>5. Kept(h, h)
      BY DEF Kept, SameUsed
    <2>. HIDE DEF k
    <2>. QED
      BY <1>1, <1>3, <2>1, <2>4, <2>5 DEF k
  <1>. QED
    BY <1>2, <1>3

\* Setting the free flag of a segment.
IsSetFree(h, s, b, k) ==
    /\ DOMAIN k.hdr = DOMAIN h.hdr /\ k.heap_end = h.heap_end /\ k.last_hdr = h.last_hdr
    /\ k.hdr[s].free = b
    /\ \A a \in DOMAIN h.hdr \ {s} : k.hdr[a].free = h.hdr[a].free
    /\ \A a \in DOMAIN h.hdr : /\ k.hdr[a].length = h.hdr[a].length
                               /\ k.hdr[a].next = h.hdr[a].next
                               /\ k.hdr[a].last = h.hdr[a].last

LEMMA SetFreeIs ==
    ASSUME NEW h \in HeapValue, NEW s \in DOMAIN h.hdr, NEW b \in BOOLEAN
    PROVE  SetFree(h, s, b) \in HeapValue /\ IsSetFree(h, s, b, SetFree(h, s, b))
  <1>. DEFINE r == [h.hdr[s] EXCEPT !.free = b]
              m == [h.hdr EXCEPT ![s] = r]
              k == SetFree(h, s, b)
  <1>1. h = [hdr |-> h.hdr, heap_end |-> h.heap_end, last_hdr |-> h.last_hdr]
        /\ h.hdr \in Headers /\ h.heap_end \in Nat /\ h.last_hdr \in Nat
    BY DEF HeapValue
  <1>2. PICK S \in SUBSET Nat : h.hdr \in [S -> Header]
    BY <1>1 DEF Headers
  <1>3. k = [hdr |-> m, heap_end |-> h.heap_end, last_hdr |-> h.last_hdr]
    BY <1>1 DEF SetFree
  <1>4. h.hdr[s] \in Header /\ s \in S
    BY <1>2
  <1>5. /\ r \in Header /\ r.length = h.hdr[s].length /\ r.next = h.hdr[s].next
        /\ r.last = h.hdr[s].last /\ r.free = b
    BY <1>4 DEF Header
  <1>. HIDE DEF r
  <1>6. /\ m \in [S -> Header] /\ DOMAIN m = DOMAIN h.hdr /\ m[s] = r
        /\ \A a \in DOMAIN h.hdr \ {s} : m[a] = h.hdr[a]
    BY <1>2, <1>4, <1>5
  <1>. HIDE DEF m
  <1>7. k \in HeapValue
    BY <1>1, <1>3, <1>6, HeapValueIs
  <1>8. IsSetFree(h, s, b, k)
    BY <1>3, <1>5, <1>6 DEF IsSetFree
  <1>. QED
    BY <1>7, <1>8

\* The chain does not depend on the flags.
LEMMA SetFreeKeeps ==
    ASSUME NEW h, NEW open, NEW new, NEW s \in DOMAIN h.hdr, Sound(h, open), NEW b \in BOOLEAN,
           Merged(SetFree(h, s, b), new)
    PROVE  Sound(SetFree(h, s, b), new)
  <1>. DEFINE k == SetFree(h, s, b)
  <1>0. h \in HeapValue /\ Anchored(h) /\ Forward(h) /\ Backward(h) /\ Apart(h) /\ Even(h)
    BY DEF Sound
  <1>1. k \in HeapValue /\ IsSetFree(h, s, b, k)
    BY <1>0, SetFreeIs
  <1>2. Merged(k, new)
    OBVIOUS
  <1>. HIDE DEF k
  <1>3. DOMAIN k.hdr = DOMAIN h.hdr /\ k.heap_end = h.heap_end /\ k.last_hdr = h.last_hdr
    BY <1>1 DEF IsSetFree
  <1>4. \A a \in DOMAIN h.hdr : /\ k.hdr[a].length = h.hdr[a].length
                                /\ k.hdr[a].next = h.hdr[a].next
                                /\ k.hdr[a].last = h.hdr[a].last
    BY <1>1 DEF IsSetFree
  <1>5. \A a \in DOMAIN h.hdr : EndOf(k, a) = EndOf(h, a)
    BY <1>4 DEF EndOf
  <1>6. Anchored(k)
    BY <1>0, <1>3, <1>4 DEF Anchored
  <1>7. Forward(k)
    BY <1>0, <1>3, <1>4, <1>5 DEF Forward
  <1>8. Backward(k)
    BY <1>0, <1>3, <1>4 DEF Backward
  <1>9. Apart(k)
    BY <1>0, <1>3, <1>5 DEF Apart
  <1>10. Even(k)
    BY <1>0, <1>3, <1>4 DEF Even
  <1>11. Sound(k, new)
    BY <1>1, <1>2, <1>6, <1>7, <1>8, <1>9, <1>10 DEF Sound
  <1>. QED
    BY <1>11 DEF k

\* FreeSegment takes one segment out of use and leaves the rest as it was.
LEMMA FreeSound ==
    ASSUME NEW h, NEW p, Sound(h, {}), HeaderOf(p) \in Used(h)
    PROVE  LET k == FreeSegment(h, p)
           IN  /\ Sound(k, {}) /\ k.heap_end = h.heap_end
               /\ Used(k) = Used(h) \ {HeaderOf(p)}
               /\ \A a \in Used(k) : k.hdr[a].length = h.hdr[a].length
  <1>. DEFINE s == HeaderOf(p)
              l == h.hdr[s].last
              g == SetFree(h, s, TRUE)
              j == hsh_combine_forward(g, s)
              k == hsh_combine_backward(j, s)
  <1>0. s \in DOMAIN h.hdr /\ ~ h.hdr[s].free
    BY DEF Used
  <1>1. k = FreeSegment(h, p)
    BY DEF FreeSegment
  <1>. HIDE DEF s
  <1>2. h \in HeapValue /\ Forward(h) /\ Backward(h) /\ Merged(h, {})
    BY DEF Sound
  <1>3. g \in HeapValue /\ IsSetFree(h, s, TRUE, g)
    BY <1>0, <1>2, SetFreeIs
  <1>4. /\ h.hdr[s].next \in Nat /\ l \in Nat /\ h.hdr[s].length \in Nat /\ s \in Nat
        /\ \A a \in DOMAIN h.hdr : /\ a \in Nat /\ a > 0 /\ a # NULL
                                   /\ h.hdr[a].length \in Nat
    BY <1>0, <1>2, HeaderIs, SoundAddresses
  <1>5. Merged(g, {l} \cup {s})
    <2>. SUFFICES ASSUME NEW a \in DOMAIN g.hdr \ ({l} \cup {s}), g.hdr[a].free, g.hdr[a].next # NULL
                  PROVE  ~ g.hdr[g.hdr[a].next].free
      BY DEF Merged
    <2>. HIDE DEF g
    <2>1. a \in DOMAIN h.hdr /\ a # s /\ a # l /\ h.hdr[a].free /\ h.hdr[a].next # NULL
          /\ g.hdr[a].next = h.hdr[a].next
      BY <1>3 DEF IsSetFree
    <2>2. h.hdr[a].next \in DOMAIN h.hdr /\ h.hdr[h.hdr[a].next].last = a
      BY <1>2, <2>1 DEF Forward
    <2>3. h.hdr[a].next # s
      BY <2>1, <2>2
    <2>4. ~ h.hdr[h.hdr[a].next].free
      BY <1>2, <2>1 DEF Merged
    <2>. QED
      BY <1>3, <2>1, <2>2, <2>3, <2>4 DEF IsSetFree
  <1>6. Sound(g, {l} \cup {s})
    BY <1>0, <1>5, SetFreeKeeps
  <1>. HIDE DEF g
  <1>7. /\ s \in DOMAIN g.hdr /\ g.hdr[s].free /\ g.hdr[s].last = l
        /\ g.hdr[s].next = h.hdr[s].next
    BY <1>0, <1>3 DEF IsSetFree
  <1>8. MergesForward(g, s) => g.hdr[s].next \notin {l}
    <2>. SUFFICES ASSUME h.hdr[s].next # NULL
                  PROVE  h.hdr[s].next # l
      BY <1>7 DEF MergesForward
    <2>1. h.hdr[s].next = EndOf(h, s) /\ h.hdr[s].next > s
      BY <1>0, <1>2, <1>4 DEF Forward, EndOf, Granule
    <2>2. CASE l = NULL
      BY <2>2
    <2>3. CASE l # NULL
      <3>1. l \in DOMAIN h.hdr /\ h.hdr[l].next = s
        BY <1>0, <1>2, <2>3 DEF Backward
      <3>2. s = EndOf(h, l)
        BY <1>0, <1>2, <1>4, <3>1 DEF Forward
      <3>3. s > l
        BY <1>4, <3>1, <3>2 DEF EndOf, Granule
      <3>. QED
        BY <1>4, <2>1, <3>3
    <2>. QED
      BY <2>2, <2>3
  <1>9. /\ Sound(j, {l}) /\ Kept(g, j)
        /\ s \in DOMAIN j.hdr /\ j.hdr[s].free /\ j.hdr[s].last = l
    BY <1>6, <1>7, <1>8, ForwardSound
  <1>. HIDE DEF j
  <1>10. Sound(k, {}) /\ Kept(j, k)
    BY <1>9, BackwardSound
  <1>. HIDE DEF k
  <1>11. Used(g) = Used(h) \ {s} /\ g.heap_end = h.heap_end
    BY <1>0, <1>3 DEF IsSetFree, Used
  <1>12. \A a \in Used(g) : g.hdr[a].length = h.hdr[a].length
    BY <1>3 DEF IsSetFree, Used
  <1>13. Used(k) = Used(g) /\ \A a \in Used(g) : k.hdr[a].length = g.hdr[a].length
    BY <1>9, <1>10 DEF Kept, SameUsed
  <1>14. k.heap_end = h.heap_end
    BY <1>9, <1>10, <1>11 DEF Kept
  <1>15. /\ Used(k) = Used(h) \ {s}
         /\ \A a \in Used(k) : k.hdr[a].length = h.hdr[a].length
    BY <1>11, <1>12, <1>13
  <1>. QED
    BY <1>1, <1>10, <1>14, <1>15 DEF s

\* What hsh_split makes of segment s, when its end is n bytes and a header on.
SplitHdr(h, s, n) ==
    LET rest == SplitLength(h, s, n)
        new == s + n + Granule
        old == h.hdr[s]
    IN  [a \in DOMAIN h.hdr \cup {new} |->
            CASE a = s -> [old EXCEPT !.next = new, !.length = n]
              [] a = new -> [length |-> rest, next |-> old.next, last |-> s, free |-> old.free]
              [] a = old.next /\ a # new -> [h.hdr[a] EXCEPT !.last = new]
              [] OTHER -> h.hdr[a]]

LEMMA SplitIs ==
    ASSUME NEW h \in HeapValue, NEW s, NEW n, ~ (n < Granule \/ SplitLength(h, s, n) < Granule)
    PROVE  hsh_split(h, s, n) =
               [hdr |-> SplitHdr(h, s, n), heap_end |-> h.heap_end,
                last_hdr |-> IF h.last_hdr = s THEN s + n + Granule ELSE h.last_hdr]
  BY DEF hsh_split, SplitHdr, HeapValue

\* The fields of the headers m after a split that leaves rest bytes.
IsSplit(h, s, n, rest, m) ==
    LET new == s + n + Granule
        f == h.hdr[s].next
    IN  /\ DOMAIN m = DOMAIN h.hdr \cup {new}
        /\ m \in [DOMAIN h.hdr \cup {new} -> Header]
        /\ m[s].length = n /\ m[s].next = new
        /\ m[s].last = h.hdr[s].last /\ m[s].free = h.hdr[s].free
        /\ m[new].length = rest /\ m[new].next = f
        /\ m[new].last = s /\ m[new].free = h.hdr[s].free
        /\ \A a \in DOMAIN h.hdr \ {s} :
               /\ m[a].length = h.hdr[a].length /\ m[a].next = h.hdr[a].next
               /\ m[a].free = h.hdr[a].free
               /\ m[a].last = IF a = f THEN new ELSE h.hdr[a].last

LEMMA SplitFields ==
    ASSUME NEW h, NEW open, Sound(h, open), NEW s \in DOMAIN h.hdr,
           NEW n \in Nat, SplitLength(h, s, n) \in Nat, s + n + Granule \notin DOMAIN h.hdr,
           s + n + Granule # h.hdr[s].next
    PROVE  IsSplit(h, s, n, SplitLength(h, s, n), SplitHdr(h, s, n))
  <1>. DEFINE rest == SplitLength(h, s, n)
              new == s + n + Granule
              f == h.hdr[s].next
              m == SplitHdr(h, s, n)
              S == DOMAIN h.hdr \cup {new}
              near == [h.hdr[s] EXCEPT !.next = new, !.length = n]
              far == [length |-> rest, next |-> f, last |-> s, free |-> h.hdr[s].free]
              back == [h.hdr[f] EXCEPT !.last = new]
  <1>0. h \in HeapValue /\ Forward(h)
    BY DEF Sound
  <1>1. /\ s \in Nat /\ h.hdr[s] \in Header /\ f \in Nat /\ h.hdr[s].free \in BOOLEAN
        /\ h.hdr[s].length \in Nat
        /\ \A a \in DOMAIN h.hdr : h.hdr[a] \in Header /\ a # NULL
    BY <1>0, HeaderIs, SoundAddresses
  <1>2. new \in Nat /\ rest \in Nat /\ new # s /\ new # f /\ new \notin DOMAIN h.hdr
    BY <1>1 DEF Granule
  <1>3. s # f
    <2>1. f # NULL => f = EndOf(h, s)
      BY <1>0 DEF Forward
    <2>. QED
      BY <1>1, <2>1 DEF EndOf, Granule
  <1>4. m = [a \in S |-> CASE a = s -> near [] a = new -> far
                           [] a = f /\ a # new -> [h.hdr[a] EXCEPT !.last = new]
                           [] OTHER -> h.hdr[a]]
    BY DEF SplitHdr
  <1>5. m = [a \in S |-> CASE a = s -> near [] a = new -> far
                           [] a = f /\ a # new -> back [] OTHER -> h.hdr[a]]
    <2>. HIDE DEF near, far, m, f, new, S
    <2>. QED
      BY <1>4
  <1>6. /\ near \in Header /\ near.length = n /\ near.next = new
        /\ near.last = h.hdr[s].last /\ near.free = h.hdr[s].free
    <2>. HIDE DEF new
    <2>. QED
      BY <1>1, <1>2 DEF Header
  <1>7. /\ far \in Header /\ far.length = rest /\ far.next = f
        /\ far.last = s /\ far.free = h.hdr[s].free
    <2>. HIDE DEF rest, f
    <2>. QED
      BY <1>1, <1>2 DEF Header
  <1>8. f \in DOMAIN h.hdr =>
            /\ back \in Header /\ back.length = h.hdr[f].length
            /\ back.next = h.hdr[f].next /\ back.free = h.hdr[f].free
            /\ back.last = new
    <2>. HIDE DEF new
    <2>. QED
      BY <1>1, <1>2 DEF Header
  <1>. HIDE DEF near, far, back
  <1>9. /\ DOMAIN m = S
        /\ \A T : (\A a \in S : m[a] \in T) => m \in [S -> T]
        /\ m[s] = near /\ m[new] = far
        /\ f \in S => m[f] = back
        /\ \A a \in S \ {s, new, f} : m[a] = h.hdr[a]
    <2>1. s \in S /\ new \in S
      OBVIOUS
    <2>. HIDE DEF m, f, new, S
    <2>. QED
      BY <1>2, <1>3, <1>5, <2>1, ThreeExceptions
  <1>. HIDE DEF m
  <1>10. \A a \in DOMAIN h.hdr \ {s} :
            /\ m[a] \in Header
            /\ m[a].length = h.hdr[a].length /\ m[a].next = h.hdr[a].next
            /\ m[a].free = h.hdr[a].free
            /\ m[a].last = IF a = f THEN new ELSE h.hdr[a].last
    <2>. HIDE DEF new, f
    <2>. QED
      BY <1>1, <1>2, <1>8, <1>9
  <1>11. m \in [S -> Header]
    <2>. HIDE DEF new, f
    <2>. QED
      BY <1>6, <1>7, <1>9, <1>10
  <1>12. /\ m[s].length = n /\ m[s].next = new
         /\ m[s].last = h.hdr[s].last /\ m[s].free = h.hdr[s].free
         /\ m[new].length = rest /\ m[new].next = f
         /\ m[new].last = s /\ m[new].free = h.hdr[s].free
    BY <1>6, <1>7, <1>9
  <1>13. DOMAIN m = S
    BY <1>9
  <1>14. IsSplit(h, s, n, rest, m)
    <2>. HIDE DEF rest
    <2>. QED
      BY <1>10, <1>11, <1>12, <1>13 DEF IsSplit
  <1>. QED
    BY <1>14 DEF m

\* Aligned lengths: a segment longer than n has room for a header behind n, and
\* the unsigned subtraction of hsh_split does not wrap.
LEMMA SplitLengthIs ==
    ASSUME NEW h, NEW s, NEW n \in Nat, h.hdr[s].length \in Nat, h.hdr[s].length < Word,
           h.hdr[s].length % 16 = 0, n % 16 = 0, h.hdr[s].length > n
    PROVE  /\ SplitLength(h, s, n) = h.hdr[s].length - n - 16
           /\ SplitLength(h, s, n) \in Nat /\ SplitLength(h, s, n) % 16 = 0
  <1>. DEFINE len == h.hdr[s].length
  <1>1. SplitLength(h, s, n) = (len - (n + 16)) % Word
    BY DEF SplitLength, Granule
  <1>2. len \in Nat /\ len < Word /\ len % 16 = 0 /\ len > n
    OBVIOUS
  <1>. HIDE DEF len
  <1>. DEFINE d == len - (n + 16)
  <1>3. Word \in Nat /\ Word > 0
    BY Multiples
  <1>4. d \in Nat /\ d < Word /\ d % 16 = 0 /\ d = len - n - 16
    BY <1>2, <1>3
  <1>. HIDE DEF d
  <1>5. d % Word = d
    BY <1>4, <1>3
  <1>6. SplitLength(h, s, n) = d
    BY <1>1, <1>5 DEF d
  <1>. QED
    BY <1>4, <1>6 DEF len

\* A free segment that is split becomes two free ones, side by side for now.
LEMMA SplitSound ==
    ASSUME NEW h, Sound(h, {}), h.heap_end < Word, NEW s \in DOMAIN h.hdr, h.hdr[s].free,
           NEW n \in Nat, n % 16 = 0, n >= 16, h.hdr[s].length > n
    PROVE  LET k == hsh_split(h, s, n)
           IN  /\ Sound(k, {s}) /\ Kept(h, k)
               /\ s \in DOMAIN k.hdr /\ k.hdr[s].free /\ k.hdr[s].length >= n
  <1>. DEFINE rest == SplitLength(h, s, n)
              new == s + n + Granule
              f == h.hdr[s].next
              m == SplitHdr(h, s, n)
              e == IF h.last_hdr = s THEN new ELSE h.last_hdr
              k == [hdr |-> m, heap_end |-> h.heap_end, last_hdr |-> e]
              D == DOMAIN h.hdr
  <1>0. h \in HeapValue /\ Anchored(h) /\ Forward(h) /\ Backward(h) /\ Apart(h) /\ Even(h) /\ Merged(h, {})
    BY DEF Sound
  <1>1. /\ h.heap_end \in Nat /\ h.last_hdr \in Nat
        /\ \A a \in D : /\ a \in Nat /\ a > 0 /\ a # NULL
                        /\ h.hdr[a].length \in Nat /\ h.hdr[a].next \in Nat
                        /\ h.hdr[a].last \in Nat
    BY <1>0, SoundAddresses, HeaderIs
  <1>2. /\ h.hdr[s].length < Word /\ h.hdr[s].length % 16 = 0 /\ s % 16 = 0
        /\ EndOf(h, s) <= h.heap_end
    <2>1. EndOf(h, s) <= h.heap_end /\ h.hdr[s].length % 16 = 0 /\ s % 16 = 0
      BY <1>0 DEF Apart, Even, Granule
    <2>2. Word \in Nat
      BY Multiples
    <2>. QED
      BY <1>1, <2>1, <2>2 DEF EndOf, Granule
  <1>3. rest = h.hdr[s].length - n - 16 /\ rest \in Nat /\ rest % 16 = 0
    BY <1>1, <1>2, SplitLengthIs
  <1>4. CASE rest < Granule
    <2>1. hsh_split(h, s, n) = h
      BY <1>4 DEF hsh_split
    <2>2. Sound(h, {s})
      BY <1>0 DEF Sound, Merged
    <2>3. Kept(h, h)
      BY DEF Kept, SameUsed
    <2>4. h.hdr[s].length >= n
      BY <1>1
    <2>. QED
      BY <2>1, <2>2, <2>3, <2>4
  <1>5. CASE ~ (rest < Granule)
    <2>1. hsh_split(h, s, n) = k
      BY <1>0, <1>5, SplitIs DEF Granule
    <2>. HIDE DEF rest
    <2>2. rest >= 16
      BY <1>3, <1>5 DEF Granule
    <2>3. /\ new \in Nat /\ new > s /\ new < EndOf(h, s) /\ new > 0 /\ new % 16 = 0
          /\ EndOf(h, s) = new + 16 + rest
      <3>1. s \in Nat /\ h.hdr[s].length \in Nat /\ s > 0
        BY <1>1
      <3>2. EndOf(h, s) = s + 16 + h.hdr[s].length /\ new = s + n + 16
        BY DEF EndOf, Granule
      <3>3. new \in Nat /\ new > s /\ new % 16 = 0
        BY <1>2, <3>1, <3>2
      <3>. HIDE DEF new
      <3>. QED
        BY <1>3, <2>2, <3>1, <3>2, <3>3
    <2>4. new \notin D
      BY <1>0, <1>1, <2>3 DEF Apart, EndOf, Granule
    <2>5. f # NULL => f = EndOf(h, s) /\ f \in D /\ h.hdr[f].last = s
      BY <1>0 DEF Forward
    <2>6. new # f
      BY <1>1, <2>3, <2>5 DEF NULL, EndOf, Granule
    <2>7. IsSplit(h, s, n, rest, m)
      BY <1>3, <2>4, <2>6, SplitFields DEF rest
    <2>. HIDE DEF m
    <2>8. /\ DOMAIN m = D \cup {new}
          /\ m \in [D \cup {new} -> Header]
          /\ m[s].length = n /\ m[s].next = new
          /\ m[s].last = h.hdr[s].last /\ m[s].free = h.hdr[s].free
          /\ m[new].length = rest /\ m[new].next = f
          /\ m[new].last = s /\ m[new].free = h.hdr[s].free
          /\ \A a \in D \ {s} :
                 /\ m[a].length = h.hdr[a].length /\ m[a].next = h.hdr[a].next
                 /\ m[a].free = h.hdr[a].free
                 /\ m[a].last = IF a = f THEN new ELSE h.hdr[a].last
      BY <2>7 DEF IsSplit
    <2>9. EndOf(k, s) = new /\ EndOf(k, new) = EndOf(h, s)
      <3>1. EndOf(k, s) = s + Granule + n /\ EndOf(k, new) = new + Granule + rest
        BY <2>8 DEF EndOf
      <3>. QED
        BY <1>1, <2>3, <3>1 DEF Granule
    <2>. HIDE DEF new
    <2>10. \A a \in D \ {s} : EndOf(k, a) = EndOf(h, a)
      BY <2>8 DEF EndOf
    <2>11. k \in HeapValue
      <3>1. D \cup {new} \subseteq Nat
        BY <1>1, <2>3
      <3>2. e \in Nat
        BY <1>1, <2>3
      <3>. HIDE DEF e
      <3>. QED
        BY <1>1, <2>8, <3>1, <3>2, HeapValueIs
    <2>12. s # f /\ new # s
      BY <1>1, <2>3, <2>5 DEF EndOf, Granule, NULL
    <2>13. Anchored(k)
      <3>1. h.hdr[heap_start].last = NULL /\ heap_start \in D /\ h.last_hdr \in D /\ h.hdr[h.last_hdr].next = NULL
        BY <1>0 DEF Anchored
      <3>2. heap_start # f
        BY <1>1, <2>5, <3>1
      <3>3. m[heap_start].last = NULL
        BY <2>8, <3>1, <3>2
      <3>4. e \in DOMAIN m /\ m[e].next = NULL
        BY <2>8, <3>1
      <3>. QED
        BY <2>8, <3>1, <3>3, <3>4 DEF Anchored
    <2>14. ASSUME NEW a \in DOMAIN m
           PROVE  /\ k.hdr[a].next = NULL => a = k.last_hdr /\ EndOf(k, a) = k.heap_end
                  /\ k.hdr[a].next # NULL => /\ k.hdr[a].next = EndOf(k, a)
                                             /\ k.hdr[a].next \in DOMAIN k.hdr
                                             /\ k.hdr[k.hdr[a].next].last = a
      <3>1. CASE a = s
        BY <1>1, <2>3, <2>8, <2>9, <3>1 DEF NULL
      <3>2. CASE a = new
        <4>1. f = NULL => s = h.last_hdr /\ EndOf(h, s) = h.heap_end
          BY <1>0 DEF Forward
        <4>2. f # NULL => m[f].last = new
          BY <2>5, <2>8, <2>12
        <4>. QED
          BY <2>5, <2>8, <2>9, <3>2, <4>1, <4>2
      <3>3. CASE a # s /\ a # new
        <4>1. a \in D \ {s} /\ m[a].next = h.hdr[a].next
          BY <2>8, <3>3
        <4>2. /\ h.hdr[a].next = NULL => a = h.last_hdr /\ EndOf(h, a) = h.heap_end
              /\ h.hdr[a].next # NULL => /\ h.hdr[a].next = EndOf(h, a)
                                         /\ h.hdr[a].next \in D
                                         /\ h.hdr[h.hdr[a].next].last = a
          BY <1>0, <4>1 DEF Forward
        <4>3. h.hdr[a].next = NULL => a = e
          BY <4>1, <4>2
        <4>4. h.hdr[a].next # NULL => m[h.hdr[a].next].last = a
          BY <2>5, <2>8, <4>1, <4>2
        <4>. QED
          BY <2>8, <2>10, <4>1, <4>2, <4>3, <4>4
      <3>. QED
        BY <3>1, <3>2, <3>3
    <2>15. Forward(k)
      BY <2>14 DEF Forward
    <2>16. ASSUME NEW a \in DOMAIN m
           PROVE  /\ m[a].last = NULL => a = heap_start
                  /\ m[a].last # NULL => m[a].last \in DOMAIN m /\ m[m[a].last].next = a
      <3>1. CASE a = new
        BY <1>1, <2>8, <3>1
      <3>2. CASE a = f
        BY <2>3, <2>4, <2>5, <2>6, <2>8, <2>12, <3>2 DEF NULL
      <3>3. CASE a # new /\ a # f
        <4>1. a \in D /\ m[a].last = h.hdr[a].last
          BY <2>8, <3>3
        <4>2. /\ h.hdr[a].last = NULL => a = heap_start
              /\ h.hdr[a].last # NULL => /\ h.hdr[a].last \in D
                                         /\ h.hdr[h.hdr[a].last].next = a
          BY <1>0, <4>1 DEF Backward
        <4>3. h.hdr[a].last # NULL => h.hdr[a].last # s
          BY <3>3, <4>2
        <4>. QED
          BY <2>8, <4>1, <4>2, <4>3
      <3>. QED
        BY <3>1, <3>2, <3>3
    <2>17. Backward(k)
      BY <2>16 DEF Backward
    <2>18. ASSUME NEW a \in DOMAIN m
           PROVE  a > 0 /\ EndOf(k, a) <= h.heap_end
      <3>1. CASE a = s
        BY <1>1, <1>2, <2>3, <2>9, <3>1 DEF EndOf, Granule
      <3>2. CASE a = new
        BY <1>2, <2>3, <2>9, <3>2
      <3>3. CASE a # s /\ a # new
        BY <1>0, <2>8, <2>10, <3>3 DEF Apart
      <3>. QED
        BY <3>1, <3>2, <3>3
    <2>19. ASSUME NEW a \in DOMAIN m, NEW b \in DOMAIN m, a < b
           PROVE  EndOf(k, a) <= b
      <3>. DEFINE E == EndOf(h, s)
      <3>0. /\ \A c \in D : s < c => E <= c
            /\ \A c \in D \ {s} : \A d \in D : c < d => EndOf(h, c) <= d
            /\ E \in Nat /\ new < E /\ s < new
        BY <1>0, <1>1, <2>3 DEF Apart, EndOf, Granule
      <3>. HIDE DEF E
      <3>1. CASE a = s
        <4>1. b = new \/ (b \in D /\ E <= b)
          BY <2>8, <2>19, <3>0, <3>1
        <4>. QED
          BY <1>1, <2>3, <2>9, <3>0, <3>1, <4>1
      <3>2. CASE a = new
        <4>1. b \in D /\ s < b
          BY <1>1, <2>3, <2>8, <2>19, <3>2
        <4>. QED
          BY <2>9, <3>0, <3>2, <4>1 DEF E
      <3>3. CASE a \in D \ {s}
        <4>1. CASE b \in D
          BY <2>10, <2>19, <3>0, <3>3, <4>1
        <4>2. CASE b = new
          <5>1. ~ (s < a)
            <6>. SUFFICES ASSUME s < a
                          PROVE  FALSE
              OBVIOUS
            <6>1. E <= a
              BY <3>0, <3>3
            <6>. QED
              BY <1>1, <2>3, <2>19, <3>0, <3>3, <4>2, <6>1
          <5>2. a < s
            BY <1>1, <3>3, <5>1
          <5>3. EndOf(h, a) <= s
            BY <3>0, <3>3, <5>2
          <5>4. EndOf(h, a) \in Nat
            BY <1>1, <3>3 DEF EndOf, Granule
          <5>. QED
            BY <1>1, <2>3, <2>10, <3>3, <4>2, <5>3, <5>4
        <4>. QED
          BY <2>8, <4>1, <4>2
      <3>. QED
        BY <2>8, <3>1, <3>2, <3>3
    <2>20. Apart(k)
      BY <2>18, <2>19 DEF Apart
    <2>21. Even(k)
      <3>1. ASSUME NEW a \in D \ {s}
            PROVE  a % Granule = 0 /\ m[a].length % Granule = 0 /\ m[a].length >= Granule
        BY <1>0, <2>8 DEF Even
      <3>2. s % Granule = 0 /\ m[s].length % Granule = 0 /\ m[s].length >= Granule
        BY <1>2, <2>8 DEF Granule
      <3>3. new % Granule = 0 /\ m[new].length % Granule = 0 /\ m[new].length >= Granule
        BY <1>3, <2>2, <2>3, <2>8 DEF Granule
      <3>. QED
        BY <2>8, <3>1, <3>2, <3>3 DEF Even
    <2>22. ASSUME NEW a \in DOMAIN m \ {s}, m[a].free, m[a].next # NULL
           PROVE  ~ m[m[a].next].free
      <3>1. CASE a = new
        <4>1. ~ h.hdr[f].free /\ f # NULL
          BY <1>0, <2>8, <2>22, <3>1 DEF Merged
        <4>. QED
          BY <2>5, <2>8, <2>12, <3>1, <4>1
      <3>2. CASE a # new
        <4>1. a \in D /\ m[a].next = h.hdr[a].next /\ h.hdr[a].free /\ h.hdr[a].next # NULL
          BY <2>8, <2>22, <3>2
        <4>2. ~ h.hdr[h.hdr[a].next].free
          BY <1>0, <4>1 DEF Merged
        <4>3. h.hdr[a].next \in D
          BY <1>0, <4>1 DEF Forward
        <4>. QED
          BY <2>8, <4>1, <4>2, <4>3
      <3>. QED
        BY <3>1, <3>2
    <2>23. Merged(k, {s})
      BY <2>22 DEF Merged
    <2>24. Sound(k, {s})
      BY <2>11, <2>13, <2>15, <2>17, <2>20, <2>21, <2>23 DEF Sound
    <2>25. Used(k) = Used(h)
      BY <2>4, <2>8 DEF Used
    <2>26. \A a \in Used(h) : m[a].length = h.hdr[a].length
      BY <2>8 DEF Used
    <2>27. Kept(h, k)
      BY <2>25, <2>26 DEF Kept, SameUsed
    <2>28. s \in DOMAIN k.hdr /\ k.hdr[s].free /\ k.hdr[s].length >= n
      <3>1. n >= n
        OBVIOUS
      <3>2. s \in DOMAIN m /\ m[s].free = h.hdr[s].free /\ m[s].length = n
        BY <2>8
      <3>. QED
        BY <3>1, <3>2
    <2>. HIDE DEF k
    <2>. QED
      BY <2>1, <2>24, <2>27, <2>28
  <1>. QED
    BY <1>4, <1>5

\* What malloc does to the heap once it has found segment s for n bytes.
Taken(h, s, n) == SetFree(IF h.hdr[s].length > n THEN hsh_split(h, s, n) ELSE h, s, FALSE)

LEMMA TakeSound ==
    ASSUME NEW h, Sound(h, {}), h.heap_end < Word, NEW s \in DOMAIN h.hdr, h.hdr[s].free,
           NEW n \in Nat, n % 16 = 0, n >= 16, h.hdr[s].length >= n
    PROVE  LET k == Taken(h, s, n)
           IN  /\ Sound(k, {}) /\ k.heap_end = h.heap_end
               /\ Used(k) = Used(h) \cup {s} /\ s \notin Used(h)
               /\ \A a \in Used(h) : k.hdr[a].length = h.hdr[a].length
               /\ k.hdr[s].length >= n
  <1>. DEFINE j == IF h.hdr[s].length > n THEN hsh_split(h, s, n) ELSE h
              k == SetFree(j, s, FALSE)
  <1>1. /\ Sound(j, {s}) /\ Kept(h, j)
        /\ s \in DOMAIN j.hdr /\ j.hdr[s].free /\ j.hdr[s].length >= n
    <2>1. CASE h.hdr[s].length > n
      <3>1. j = hsh_split(h, s, n)
        BY <2>1
      <3>. HIDE DEF j
      <3>. QED
        BY <2>1, <3>1, SplitSound
    <2>2. CASE ~ (h.hdr[s].length > n)
      <3>1. j = h
        BY <2>2
      <3>2. Sound(h, {s}) /\ Kept(h, h)
        BY DEF Sound, Merged, Kept, SameUsed
      <3>. QED
        BY <3>1, <3>2
    <2>. QED
      BY <2>1, <2>2
  <1>2. k = Taken(h, s, n)
    BY DEF Taken
  <1>. HIDE DEF j
  <1>3. j \in HeapValue /\ Merged(j, {s}) /\ Forward(j)
    BY <1>1 DEF Sound
  <1>4. k \in HeapValue /\ IsSetFree(j, s, FALSE, k)
    BY <1>1, <1>3, SetFreeIs
  <1>5. Merged(k, {})
    <2>. HIDE DEF k
    <2>. SUFFICES ASSUME NEW a \in DOMAIN k.hdr, k.hdr[a].free, k.hdr[a].next # NULL
                  PROVE  ~ k.hdr[k.hdr[a].next].free
      BY DEF Merged
    <2>1. a # s /\ a \in DOMAIN j.hdr /\ j.hdr[a].free /\ k.hdr[a].next = j.hdr[a].next
      BY <1>4 DEF IsSetFree
    <2>2. ~ j.hdr[j.hdr[a].next].free /\ j.hdr[a].next \in DOMAIN j.hdr
      BY <1>3, <2>1 DEF Merged, Forward
    <2>3. j.hdr[a].next # s
      BY <1>1, <2>2
    <2>. QED
      BY <1>4, <2>1, <2>2, <2>3 DEF IsSetFree
  <1>6. Sound(k, {})
    BY <1>1, <1>5, SetFreeKeeps
  <1>. HIDE DEF k
  <1>7. Used(k) = Used(j) \cup {s} /\ s \notin Used(j)
    BY <1>1, <1>4 DEF IsSetFree, Used
  <1>8. \A a \in Used(j) \cup {s} : k.hdr[a].length = j.hdr[a].length
    BY <1>1, <1>4 DEF IsSetFree, Used
  <1>9. k.heap_end = j.heap_end
    BY <1>4 DEF IsSetFree
  <1>. QED
    BY <1>1, <1>2, <1>6, <1>7, <1>8, <1>9 DEF Kept, SameUsed

----------------------------------------------------------------------------
(* Growing *)

\* The heap with n bytes more, before they are merged with what was last.
Grown(h, n) ==
    LET new == h.heap_end
        len == PageLength(n)
    IN  [hdr |-> [a \in DOMAIN h.hdr \cup {new} |->
                    CASE a = new -> [length |-> len - Granule, next |-> NULL,
                                     last |-> h.last_hdr, free |-> TRUE]
                      [] a = h.last_hdr -> [h.hdr[a] EXCEPT !.next = new]
                      [] OTHER -> h.hdr[a]],
         heap_end |-> new + len,
         last_hdr |-> new]

IsGrown(h, n, k) ==
    LET new == h.heap_end
        len == PageLength(n)
        l == h.last_hdr
    IN  /\ DOMAIN k.hdr = DOMAIN h.hdr \cup {new}
        /\ k.heap_end = new + len /\ k.last_hdr = new
        /\ k.hdr[new].length = len - Granule /\ k.hdr[new].next = NULL
        /\ k.hdr[new].last = l /\ k.hdr[new].free
        /\ k.hdr[l].next = new
        /\ \A a \in DOMAIN h.hdr :
               /\ k.hdr[a].length = h.hdr[a].length /\ k.hdr[a].last = h.hdr[a].last
               /\ k.hdr[a].free = h.hdr[a].free
               /\ a # l => k.hdr[a].next = h.hdr[a].next

LEMMA GrownFields ==
    ASSUME NEW h, Sound(h, {}), NEW n, PageLength(n) \in Nat, PageLength(n) >= 32
    PROVE  /\ Grown(h, n) \in HeapValue /\ IsGrown(h, n, Grown(h, n))
           /\ h.heap_end \notin DOMAIN h.hdr /\ h.last_hdr \in DOMAIN h.hdr
  <1>. DEFINE new == h.heap_end
              len == PageLength(n)
              l == h.last_hdr
              D == DOMAIN h.hdr
              S == D \cup {new}
              far == [length |-> len - Granule, next |-> NULL, last |-> l, free |-> TRUE]
              near == [h.hdr[l] EXCEPT !.next = new]
              k == Grown(h, n)
              m == k.hdr
  <1>0. h \in HeapValue /\ Anchored(h) /\ Apart(h)
    BY DEF Sound
  <1>1. /\ new \in Nat /\ l \in Nat /\ l \in D /\ len \in Nat /\ len >= 32
        /\ \A a \in D : a \in Nat /\ a > 0 /\ h.hdr[a] \in Header /\ h.hdr[a].length \in Nat
    BY <1>0, HeaderIs, SoundAddresses DEF Anchored
  <1>2. new \notin D
    BY <1>0, <1>1 DEF Apart, EndOf, Granule
  <1>3. /\ m = [a \in S |-> CASE a = new -> far [] a = l -> [h.hdr[a] EXCEPT !.next = new] [] OTHER -> h.hdr[a]]
        /\ k = [hdr |-> m, heap_end |-> new + len, last_hdr |-> new]
    BY DEF Grown
  <1>4. m = [a \in S |-> CASE a = new -> far [] a = l -> near [] OTHER -> h.hdr[a]]
    <2>. HIDE DEF far, m
    <2>. QED
      BY <1>3
  <1>5. /\ far \in Header /\ far.length = len - Granule /\ far.next = NULL
        /\ far.last = l /\ far.free
    <2>1. len - Granule \in Nat /\ NULL \in Nat
      BY <1>1 DEF Granule, NULL
    <2>. QED
      BY <1>1, <2>1 DEF Header
  <1>6. /\ near \in Header /\ near.length = h.hdr[l].length /\ near.next = new
        /\ near.last = h.hdr[l].last /\ near.free = h.hdr[l].free
    BY <1>1 DEF Header
  <1>. HIDE DEF far, near
  <1>7. /\ DOMAIN m = S
        /\ \A T : (\A a \in S : m[a] \in T) => m \in [S -> T]
        /\ m[new] = far /\ m[l] = near
        /\ \A a \in S \ {new, l} : m[a] = h.hdr[a]
    <2>1. new # l /\ new \in S /\ l \in S
      BY <1>1, <1>2
    <2>. HIDE DEF m, new, l, S
    <2>. QED
      BY <1>4, <2>1, TwoExceptions
  <1>. HIDE DEF m, k
  <1>8. \A a \in S : m[a] \in Header
    BY <1>1, <1>5, <1>6, <1>7
  <1>9. m \in [S -> Header]
    BY <1>7, <1>8
  <1>10. k \in HeapValue
    <2>1. S \subseteq Nat /\ new + len \in Nat
      BY <1>1
    <2>. HIDE DEF S, len, new
    <2>. QED
      BY <1>1, <1>3, <1>9, <2>1, HeapValueIs
  <1>11. \A a \in D :
            /\ m[a].length = h.hdr[a].length /\ m[a].last = h.hdr[a].last
            /\ m[a].free = h.hdr[a].free
            /\ a # l => m[a].next = h.hdr[a].next
    BY <1>2, <1>6, <1>7
  <1>12. IsGrown(h, n, k)
    <2>1. DOMAIN k.hdr = D \cup {new} /\ k.heap_end = new + len /\ k.last_hdr = new
      BY <1>3, <1>7 DEF m
    <2>2. /\ m[new].length = len - Granule /\ m[new].next = NULL
          /\ m[new].last = l /\ m[new].free /\ m[l].next = new
      BY <1>5, <1>6, <1>7
    <2>. QED
      BY <1>11, <2>1, <2>2 DEF IsGrown, m
  <1>. QED
    BY <1>1, <1>2, <1>10, <1>12 DEF k

LEMMA GrownSound ==
    ASSUME NEW h, Sound(h, {}), NEW n, PageLength(n) \in Nat, PageLength(n) >= 32,
           PageLength(n) % 16 = 0
    PROVE  Sound(Grown(h, n), {h.last_hdr})
  <1>. DEFINE new == h.heap_end
              len == PageLength(n)
              l == h.last_hdr
              D == DOMAIN h.hdr
              k == Grown(h, n)
  <1>0. h \in HeapValue /\ Anchored(h) /\ Forward(h) /\ Backward(h) /\ Apart(h) /\ Even(h) /\ Merged(h, {})
    BY DEF Sound
  <1>1. k \in HeapValue /\ IsGrown(h, n, k) /\ new \notin D /\ l \in D
    BY GrownFields
  <1>. HIDE DEF k
  <1>2. /\ DOMAIN k.hdr = D \cup {new}
        /\ k.heap_end = new + len /\ k.last_hdr = new
        /\ k.hdr[new].length = len - Granule /\ k.hdr[new].next = NULL
        /\ k.hdr[new].last = l /\ k.hdr[new].free
        /\ k.hdr[l].next = new
        /\ \A a \in D : /\ k.hdr[a].length = h.hdr[a].length /\ k.hdr[a].last = h.hdr[a].last
                        /\ k.hdr[a].free = h.hdr[a].free
                        /\ a # l => k.hdr[a].next = h.hdr[a].next
    BY <1>1 DEF IsGrown
  <1>3. /\ new \in Nat /\ l \in Nat /\ len \in Nat /\ len >= 32 /\ len % 16 = 0
        /\ \A a \in D : /\ a \in Nat /\ a > 0 /\ a # NULL
                        /\ h.hdr[a].length \in Nat /\ h.hdr[a].next \in Nat
                        /\ h.hdr[a].last \in Nat
    BY <1>0, SoundAddresses, HeaderIs
  <1>. HIDE DEF len
  <1>4. h.hdr[l].next = NULL /\ EndOf(h, l) = new
    BY <1>0, <1>1 DEF Anchored, Forward
  <1>5. \A a \in D : EndOf(k, a) = EndOf(h, a) /\ EndOf(h, a) \in Nat /\ a < EndOf(h, a)
    BY <1>2, <1>3 DEF EndOf, Granule
  <1>6. EndOf(k, new) = new + len
    <2>1. EndOf(k, new) = new + Granule + (len - Granule)
      BY <1>2 DEF EndOf
    <2>. QED
      BY <1>3, <2>1 DEF Granule
  <1>7. new > 0 /\ new # NULL
    BY <1>1, <1>3, <1>4, <1>5 DEF NULL
  <1>8. Anchored(k)
    BY <1>0, <1>2 DEF Anchored
  <1>9. ASSUME NEW a \in DOMAIN k.hdr
        PROVE  /\ k.hdr[a].next = NULL => a = k.last_hdr /\ EndOf(k, a) = k.heap_end
               /\ k.hdr[a].next # NULL => /\ k.hdr[a].next = EndOf(k, a)
                                          /\ k.hdr[a].next \in DOMAIN k.hdr
                                          /\ k.hdr[k.hdr[a].next].last = a
    <2>1. CASE a = new
      BY <1>2, <1>6, <2>1
    <2>2. CASE a = l
      BY <1>1, <1>2, <1>4, <1>5, <1>7, <2>2
    <2>3. CASE a # new /\ a # l
      <3>1. a \in D /\ k.hdr[a].next = h.hdr[a].next
        BY <1>2, <2>3
      <3>2. /\ h.hdr[a].next # NULL
            /\ h.hdr[a].next = EndOf(h, a)
            /\ h.hdr[a].next \in D
            /\ h.hdr[h.hdr[a].next].last = a
        BY <1>0, <2>3, <3>1 DEF Forward
      <3>. QED
        BY <1>2, <1>5, <3>1, <3>2
    <2>. QED
      BY <2>1, <2>2, <2>3
  <1>10. Forward(k)
    BY <1>9 DEF Forward
  <1>11. ASSUME NEW a \in DOMAIN k.hdr
         PROVE  /\ k.hdr[a].last = NULL => a = heap_start
                /\ k.hdr[a].last # NULL => /\ k.hdr[a].last \in DOMAIN k.hdr
                                           /\ k.hdr[k.hdr[a].last].next = a
    <2>1. CASE a = new
      BY <1>1, <1>2, <1>3, <2>1
    <2>2. CASE a # new
      <3>1. a \in D /\ k.hdr[a].last = h.hdr[a].last
        BY <1>2, <2>2
      <3>2. /\ h.hdr[a].last = NULL => a = heap_start
            /\ h.hdr[a].last # NULL => /\ h.hdr[a].last \in D
                                       /\ h.hdr[h.hdr[a].last].next = a
        BY <1>0, <3>1 DEF Backward
      <3>3. h.hdr[a].last # NULL => h.hdr[a].last # l
        BY <1>3, <1>4, <3>1, <3>2
      <3>. QED
        BY <1>2, <3>1, <3>2, <3>3
    <2>. QED
      BY <2>1, <2>2
  <1>12. Backward(k)
    BY <1>11 DEF Backward
  <1>13. \A a \in D : EndOf(h, a) <= new /\ \A b \in D : a < b => EndOf(h, a) <= b
    BY <1>0 DEF Apart
  <1>14. ASSUME NEW a \in DOMAIN k.hdr
         PROVE  a > 0 /\ EndOf(k, a) <= k.heap_end
    <2>1. CASE a \in D
      <3>1. a > 0 /\ EndOf(k, a) <= new /\ EndOf(k, a) \in Nat
        BY <1>3, <1>5, <1>13, <2>1
      <3>. QED
        BY <1>2, <1>3, <3>1
    <2>2. CASE a = new
      BY <1>2, <1>3, <1>6, <1>7, <2>2
    <2>. QED
      BY <1>2, <2>1, <2>2
  <1>15. ASSUME NEW a \in DOMAIN k.hdr, NEW b \in DOMAIN k.hdr, a < b
         PROVE  EndOf(k, a) <= b
    <2>1. CASE a \in D /\ b \in D
      BY <1>5, <1>13, <1>15, <2>1
    <2>2. CASE a \in D /\ b = new
      BY <1>5, <1>13, <2>2
    <2>3. CASE a = new
      <3>1. b \in D
        BY <1>2, <1>3, <1>15, <2>3
      <3>2. b < EndOf(h, b) /\ EndOf(h, b) <= new /\ EndOf(h, b) \in Nat /\ b \in Nat
        BY <1>3, <1>5, <1>13, <3>1
      <3>. QED
        BY <1>3, <1>15, <2>3, <3>2
    <2>. QED
      BY <1>2, <2>1, <2>2, <2>3
  <1>16. Apart(k)
    BY <1>14, <1>15 DEF Apart
  <1>17. Even(k)
    <2>1. \A a \in D : a % Granule = 0 /\ k.hdr[a].length % Granule = 0 /\ k.hdr[a].length >= Granule
      BY <1>0, <1>2 DEF Even
    <2>2. new % 16 = 0
      <3>1. l \in Nat /\ h.hdr[l].length \in Nat /\ l % 16 = 0 /\ h.hdr[l].length % 16 = 0
        BY <1>0, <1>1, <1>3 DEF Even, Granule
      <3>2. new = l + 16 + h.hdr[l].length
        BY <1>4 DEF EndOf, Granule
      <3>. HIDE DEF new
      <3>. QED
        BY <3>1, <3>2
    <2>3. k.hdr[new].length % Granule = 0 /\ k.hdr[new].length >= Granule
      <3>1. k.hdr[new].length = len - 16
        BY <1>2 DEF Granule
      <3>2. len \in Nat /\ len >= 32 /\ len % 16 = 0
        BY <1>3
      <3>. QED
        BY <3>1, <3>2 DEF Granule
    <2>. QED
      BY <1>2, <2>1, <2>2, <2>3 DEF Even, Granule
  <1>18. Merged(k, {l})
    <2>. SUFFICES ASSUME NEW a \in DOMAIN k.hdr \ {l}, k.hdr[a].free, k.hdr[a].next # NULL
                  PROVE  ~ k.hdr[k.hdr[a].next].free
      BY DEF Merged
    <2>1. a \in D /\ h.hdr[a].free /\ h.hdr[a].next # NULL /\ k.hdr[a].next = h.hdr[a].next
      BY <1>2
    <2>2. ~ h.hdr[h.hdr[a].next].free /\ h.hdr[a].next \in D
      BY <1>0, <2>1 DEF Merged, Forward
    <2>. QED
      BY <1>2, <2>1, <2>2
  <1>19. Sound(k, {l})
    BY <1>1, <1>8, <1>10, <1>12, <1>16, <1>17, <1>18 DEF Sound
  <1>. QED
    BY <1>19 DEF k

\* expand_heap leaves a free segment at the end, one header short of the new
\* pages, or with the free segment in front of them larger by all of them.
LEMMA ExpandSound ==
    ASSUME NEW h, Sound(h, {}), NEW n, PageLength(n) \in Nat, PageLength(n) >= 32,
           PageLength(n) % 16 = 0
    PROVE  LET k == expand_heap(h, n)
           IN  /\ Sound(k, {}) /\ SameUsed(h, k) /\ k.heap_end = h.heap_end + PageLength(n)
               /\ k.hdr[k.last_hdr].free
               /\ k.hdr[k.last_hdr].length >= PageLength(n) - Granule
               /\ h.hdr[h.last_hdr].free =>
                      k.hdr[k.last_hdr].length >= h.hdr[h.last_hdr].length + PageLength(n)
  <1>. DEFINE new == h.heap_end
              len == PageLength(n)
              l == h.last_hdr
              g == Grown(h, n)
              k == hsh_combine_backward(g, new)
  <1>1. k = expand_heap(h, n)
    BY DEF expand_heap, Grown
  <1>2. g \in HeapValue /\ IsGrown(h, n, g) /\ new \notin DOMAIN h.hdr /\ l \in DOMAIN h.hdr
    BY GrownFields
  <1>3. Sound(g, {l})
    BY GrownSound
  <1>. HIDE DEF g
  <1>4. /\ new \in DOMAIN g.hdr /\ g.hdr[new].free /\ g.hdr[new].last = l /\ g.last_hdr = new
        /\ g.hdr[new].length = len - Granule /\ g.heap_end = new + len
        /\ g.hdr[l].free = h.hdr[l].free /\ g.hdr[l].length = h.hdr[l].length
    BY <1>2 DEF IsGrown
  <1>5. /\ Sound(k, {}) /\ Kept(g, k)
        /\ k.hdr[k.last_hdr].free
        /\ k.hdr[k.last_hdr].length >= g.hdr[new].length
        /\ (l # NULL /\ g.hdr[l].free) =>
               k.hdr[k.last_hdr].length >= g.hdr[new].length + g.hdr[l].length + Granule
    BY <1>3, <1>4, BackwardSound
  <1>. HIDE DEF k
  <1>6. SameUsed(h, g)
    BY <1>2 DEF IsGrown, SameUsed, Used
  <1>7. SameUsed(h, k) /\ k.heap_end = new + len
    BY <1>4, <1>5, <1>6 DEF Kept, SameUsed
  <1>8. h.hdr[l].free => k.hdr[k.last_hdr].length >= h.hdr[l].length + len
    <2>. SUFFICES ASSUME h.hdr[l].free
                  PROVE  k.hdr[k.last_hdr].length >= h.hdr[l].length + len
      OBVIOUS
    <2>1. l # NULL /\ h.hdr[l].length \in Nat /\ len \in Nat
      BY <1>2, SoundAddresses, HeaderIs DEF Sound
    <2>2. k.hdr[k.last_hdr].length >= (len - Granule) + h.hdr[l].length + Granule
      BY <1>4, <1>5, <2>1
    <2>3. (len - Granule) + h.hdr[l].length + Granule = h.hdr[l].length + len
      BY <2>1 DEF Granule
    <2>. QED
      BY <2>2, <2>3
  <1>. QED
    BY <1>1, <1>4, <1>5, <1>7, <1>8

----------------------------------------------------------------------------
(* The invariant *)

Chain == Sound(Heap, {}) /\ heap_end <= MaxEnd

Owned ==
    /\ \A p \in DOMAIN blocks : /\ p \in Nat
                                /\ HeaderOf(p) \in Used(Heap)
                                /\ Serves(hdr[HeaderOf(p)].length, blocks[p])
    /\ \A s \in Used(Heap) : DataOf(s) \in DOMAIN blocks

\* A pending call has a size that does not wrap; each time it has expanded the
\* heap the free segment at the end has grown.
Pending ==
    LET n == Rounded(call.size)
    IN  /\ call \in [op : {"none", "malloc", "calloc", "realloc"}, size : 0 .. Word - 1,
                     asked : Nat, ptr : Nat, depth : 0 .. 2]
        /\ call.asked = call.size \/ call.asked >= Word
        /\ call # Idle => n # 0
        /\ call.op = "realloc" => call.ptr \in DOMAIN blocks
        /\ call.depth > 0 => /\ PageLength(n) # 0 /\ hdr[last_hdr].free
                             /\ hdr[last_hdr].length >= PageLength(n) - Granule
        /\ call.depth = 2 => hdr[last_hdr].length >= n

HeapInv == Chain /\ Owned /\ Pending

LEMMA HeapIs ==
    /\ Heap.hdr = hdr /\ Heap.heap_end = heap_end /\ Heap.last_hdr = last_hdr
    /\ Used(Heap) = {s \in DOMAIN hdr : ~ hdr[s].free}
  BY DEF Heap, Used

LEMMA InstallIs ==
    ASSUME NEW h, NEW open, Sound(h, open), Install(h)
    PROVE  Heap' = h
  BY DEF Install, Heap, Sound, HeapValue

\* The properties follow.
LEMMA InvTiled ==
    ASSUME HeapInv
    PROVE  Tiled
  <1>1. Anchored(Heap) /\ Forward(Heap) /\ Even(Heap) /\ Merged(Heap, {})
    BY DEF HeapInv, Chain, Sound
  <1>2. Chained
    BY <1>1, HeapIs DEF Anchored, Forward, Chained, EndOf, DataOf
  <1>3. Aligned
    BY <1>1, HeapIs DEF Even, Aligned
  <1>4. Coalesced
    BY <1>1, HeapIs DEF Merged, Coalesced
  <1>. QED
    BY <1>2, <1>3, <1>4 DEF Tiled

LEMMA InvBlocks ==
    ASSUME HeapInv
    PROVE  BlocksAreSegments
  BY HeapIs DEF HeapInv, Owned, BlocksAreSegments, Capacity

LEMMA InvBounded ==
    ASSUME HeapInv
    PROVE  RecursionBounded
  BY DEF HeapInv, Pending, RecursionBounded

\* The first pages.
LEMMA FirstPages ==
    LET len == Pages * PageSize
    IN  /\ len \in Nat /\ len % 16 = 0 /\ len >= 32
        /\ Base \in Nat /\ Base > 0 /\ Base % 16 = 0
        /\ Base + len <= MaxEnd /\ MaxEnd \in Nat /\ MaxEnd < Word /\ Word \in Nat
  <1>1. /\ PageSize \in Nat /\ PageSize >= 32 /\ Pages \in Nat /\ Pages > 0
        /\ Base \in Nat /\ Base > 0 /\ Base % PageSize = 0
        /\ Base + Pages * PageSize <= MaxEnd /\ MaxEnd \in Nat /\ MaxEnd < Word /\ Word \in Nat
    BY HeapAssumption DEF Granule
  <1>2. PICK e \in Nat : Pages = e + 1
    <2>1. Pages - 1 \in Nat /\ Pages = (Pages - 1) + 1
      BY <1>1
    <2>. QED
      BY <2>1
  <1>3. Pages * PageSize = PageSize * e + PageSize /\ PageSize * e \in Nat
    BY <1>1, <1>2
  <1>4. Pages * PageSize = PageSize * Pages /\ Pages * PageSize \in Nat
    BY <1>1
  <1>5. (PageSize * Pages) % 16 = 0
    <2>1. Pages \in Int
      BY <1>1
    <2>. QED
      BY <2>1, Multiples
  <1>6. Base % 16 = 0
    <2>. DEFINE q == Base \div PageSize
    <2>1. Base = PageSize * q + (Base % PageSize) /\ q \in Int
      BY <1>1
    <2>. HIDE DEF q
    <2>2. PageSize * q \in Int
      BY <1>1, <2>1
    <2>3. (PageSize * q) % 16 = 0
      BY <2>1, Multiples
    <2>4. Base = PageSize * q
      BY <1>1, <2>1, <2>2
    <2>. QED
      BY <2>3, <2>4
  <1>. DEFINE len == Pages * PageSize
  <1>7. len \in Nat /\ len % 16 = 0 /\ len >= 32
    BY <1>1, <1>3, <1>4, <1>5
  <1>. QED
    BY <1>1, <1>6, <1>7

LEMMA HeapInvInit ==
    ASSUME Init
    PROVE  HeapInv
  <1>. DEFINE len == Pages * PageSize
              r == [length |-> len - Granule, next |-> NULL, last |-> NULL, free |-> TRUE]
  <1>1. /\ len \in Nat /\ len % 16 = 0 /\ len >= 32
        /\ Base \in Nat /\ Base > 0 /\ Base % 16 = 0
        /\ Base + len <= MaxEnd /\ MaxEnd \in Nat /\ MaxEnd < Word /\ Word \in Nat
    BY FirstPages
  <1>2. /\ hdr = [a \in {Base} |-> r] /\ heap_end = Base + len /\ last_hdr = Base
        /\ DOMAIN blocks = {} /\ call = Idle
    BY DEF Init, heap_start
  <1>. HIDE DEF len
  <1>3. /\ r \in Header /\ r.length = len - 16 /\ r.next = 0 /\ r.last = 0 /\ r.free
        /\ len - 16 \in Nat /\ len - 16 >= 16 /\ (len - 16) % 16 = 0
    <2>1. len - 16 \in Nat /\ len - 16 >= 16 /\ (len - 16) % 16 = 0
      BY <1>1
    <2>. QED
      BY <2>1 DEF Header, Granule, NULL
  <1>. HIDE DEF r
  <1>4. DOMAIN hdr = {Base} /\ hdr[Base] = r /\ hdr \in [{Base} -> Header]
    BY <1>2, <1>3
  <1>5. Heap \in HeapValue
    <2>1. heap_end \in Nat /\ last_hdr \in Nat /\ {Base} \subseteq Nat
      BY <1>1, <1>2
    <2>. QED
      BY <1>4, <2>1, HeapValueIs DEF Heap
  <1>6. EndOf(Heap, Base) = heap_end
    <2>1. EndOf(Heap, Base) = Base + 16 + (len - 16)
      BY <1>3, <1>4, HeapIs DEF EndOf, Granule
    <2>. QED
      BY <1>1, <1>2, <2>1
  <1>7. Anchored(Heap) /\ Forward(Heap) /\ Backward(Heap)
    BY <1>2, <1>3, <1>4, <1>6, HeapIs DEF Anchored, Forward, Backward, heap_start, NULL
  <1>8. Apart(Heap)
    BY <1>1, <1>2, <1>4, <1>6, HeapIs DEF Apart
  <1>9. Even(Heap)
    BY <1>1, <1>3, <1>4, HeapIs DEF Even, Granule
  <1>10. Merged(Heap, {})
    BY <1>3, <1>4, HeapIs DEF Merged, NULL
  <1>11. Chain
    BY <1>1, <1>2, <1>5, <1>7, <1>8, <1>9, <1>10 DEF Chain, Sound
  <1>12. Owned
    BY <1>2, <1>3, <1>4, HeapIs DEF Owned
  <1>13. Pending
    <2>1. Idle \in [op : {"none", "malloc", "calloc", "realloc"}, size : 0 .. Word - 1,
                    asked : Nat, ptr : Nat, depth : 0 .. 2]
      BY <1>1 DEF Idle, NULL
    <2>2. Idle.depth = 0 /\ Idle.op # "realloc" /\ Idle.asked = Idle.size
      BY DEF Idle
    <2>. QED
      BY <1>2, <2>1, <2>2 DEF Pending
  <1>. QED
    BY <1>11, <1>12, <1>13 DEF HeapInv

----------------------------------------------------------------------------
(* The steps *)

LEMMA IdlePending ==
    ASSUME call' = Idle
    PROVE  Pending'
  <1>1. Word \in Nat /\ Word > 0
    BY Multiples
  <1>2. Idle \in [op : {"none", "malloc", "calloc", "realloc"}, size : 0 .. Word - 1,
                  asked : Nat, ptr : Nat, depth : 0 .. 2]
    BY <1>1 DEF Idle, NULL
  <1>3. Idle.depth = 0 /\ Idle.op # "realloc" /\ Idle.asked = Idle.size
    BY DEF Idle
  <1>. QED
    BY <1>2, <1>3 DEF Pending

\* Calls that only become pending.
LEMMA InvBegin ==
    ASSUME HeapInv, NEW op \in {"malloc", "calloc", "realloc"}, NEW n \in 0 .. Word - 1,
           NEW asked \in Nat, asked = n \/ asked >= Word,
           NEW p \in Nat, op = "realloc" => p \in DOMAIN blocks, Begin(op, n, asked, p)
    PROVE  HeapInv'
  <1>1. /\ hdr' = hdr /\ heap_end' = heap_end /\ last_hdr' = last_hdr /\ blocks' = blocks
        /\ \/ call' = Idle
           \/ Rounded(n) # 0 /\ call' = [op |-> op, size |-> n, asked |-> asked, ptr |-> p, depth |-> 0]
    BY DEF Begin
  <1>2. Heap' = Heap
    BY <1>1 DEF Heap
  <1>3. Chain' /\ Owned'
    BY <1>1, <1>2 DEF HeapInv, Chain, Owned
  <1>4. CASE call' = Idle
    BY <1>3, <1>4, IdlePending DEF HeapInv
  <1>5. CASE Rounded(n) # 0 /\ call' = [op |-> op, size |-> n, asked |-> asked, ptr |-> p, depth |-> 0]
    <2>1. call' \in [op : {"none", "malloc", "calloc", "realloc"}, size : 0 .. Word - 1,
                     asked : Nat, ptr : Nat, depth : 0 .. 2]
      BY <1>5
    <2>2. call'.size = n /\ call'.asked = asked /\ call'.depth = 0 /\ call'.op = op /\ call'.ptr = p
      BY <1>5
    <2>3. Pending'
      BY <1>1, <1>5, <2>1, <2>2 DEF Pending
    <2>. QED
      BY <1>3, <2>3 DEF HeapInv
  <1>. QED
    BY <1>1, <1>3, <1>4, <1>5 DEF HeapInv

\* A header and its data.
LEMMA DataIs ==
    /\ \A p \in Int : HeaderOf(p) \in Int /\ DataOf(HeaderOf(p)) = p
    /\ \A s \in Int : DataOf(s) \in Int /\ HeaderOf(DataOf(s)) = s
    /\ \A s \in Nat : DataOf(s) \in Nat
  BY DEF HeaderOf, DataOf, Granule

\* A block is given back.
LEMMA FreeBlocks ==
    ASSUME HeapInv, NEW p \in DOMAIN blocks, Install(FreeSegment(Heap, p)), blocks' = Without(p)
    PROVE  Chain' /\ Owned'
  <1>. DEFINE k == FreeSegment(Heap, p)
  <1>1. Sound(Heap, {}) /\ HeaderOf(p) \in Used(Heap) /\ heap_end <= MaxEnd
    BY DEF HeapInv, Chain, Owned
  <1>2. /\ Sound(k, {}) /\ k.heap_end = Heap.heap_end
        /\ Used(k) = Used(Heap) \ {HeaderOf(p)}
        /\ \A a \in Used(k) : k.hdr[a].length = Heap.hdr[a].length
    BY <1>1, FreeSound
  <1>3. Heap' = k
    BY <1>2, InstallIs
  <1>. HIDE DEF k
  <1>4. hdr' = k.hdr /\ heap_end' = k.heap_end
    BY <1>3 DEF Heap
  <1>5. Chain'
    BY <1>1, <1>2, <1>3, <1>4, HeapIs DEF Chain
  <1>6. /\ \A q \in DOMAIN blocks : /\ q \in Nat /\ HeaderOf(q) \in Used(Heap)
                                    /\ Serves(hdr[HeaderOf(q)].length, blocks[q])
        /\ \A s \in Used(Heap) : DataOf(s) \in DOMAIN blocks
    BY DEF HeapInv, Owned
  <1>7. DOMAIN blocks' = DOMAIN blocks \ {p} /\ \A q \in DOMAIN blocks' : blocks'[q] = blocks[q]
    BY DEF Without
  <1>8. ASSUME NEW q \in DOMAIN blocks'
        PROVE  q \in Nat /\ HeaderOf(q) \in Used(k) /\ Serves(k.hdr[HeaderOf(q)].length, blocks'[q])
    <2>1. q \in DOMAIN blocks /\ q # p /\ blocks'[q] = blocks[q]
      BY <1>7
    <2>2. HeaderOf(q) # HeaderOf(p)
      BY <1>6, <2>1, DataIs
    <2>3. HeaderOf(q) \in Used(k)
      BY <1>2, <1>6, <2>1, <2>2
    <2>4. k.hdr[HeaderOf(q)].length = hdr[HeaderOf(q)].length
      BY <1>2, <2>3, HeapIs
    <2>. QED
      BY <1>6, <2>1, <2>3, <2>4
  <1>9. ASSUME NEW s \in Used(k)
        PROVE  DataOf(s) \in DOMAIN blocks'
    <2>1. s \in Used(Heap) /\ s # HeaderOf(p)
      BY <1>2
    <2>2. s \in Int
      <3>1. s \in DOMAIN Heap.hdr
        BY <2>1 DEF Used
      <3>. QED
        BY <1>1, <3>1, SoundAddresses
    <2>3. DataOf(s) # p
      BY <2>1, <2>2, DataIs
    <2>. QED
      BY <1>6, <1>7, <2>1, <2>3
  <1>10. Owned'
    BY <1>3, <1>4, <1>8, <1>9 DEF Owned
  <1>. QED
    BY <1>5, <1>10

LEMMA InvFree ==
    ASSUME HeapInv, NEW p \in DOMAIN blocks, free(p)
    PROVE  HeapInv'
  <1>1. Chain' /\ Owned'
    BY FreeBlocks DEF free
  <1>2. call' = Idle
    BY DEF free
  <1>. QED
    BY <1>1, <1>2, IdlePending DEF HeapInv

\* The chosen segment fits.
LEMMA ChosenFits ==
    ASSUME HeapInv, NEW n, Fits(n) # {}
    PROVE  /\ Min(Fits(n)) \in DOMAIN hdr /\ hdr[Min(Fits(n))].free
           /\ hdr[Min(Fits(n))].length >= n
  <1>1. Sound(Heap, {})
    BY DEF HeapInv, Chain
  <1>2. Fits(n) \subseteq Nat
    BY <1>1, SoundAddresses, HeapIs DEF Fits
  <1>3. Min(Fits(n)) \in Fits(n)
    BY <1>2, LeastNumber
  <1>. QED
    BY <1>3 DEF Fits

LEMMA InvTake ==
    ASSUME HeapInv, Take
    PROVE  HeapInv'
  <1>. DEFINE n == Rounded(call.size)
              s == Min(Fits(n))
              h == Taken(Heap, s, n)
              B == DOMAIN blocks
  <1>1. /\ call.size \in 0 .. Word - 1 /\ n # 0
        /\ call.asked = call.size \/ call.asked >= Word
        /\ call.op = "realloc" => call.ptr \in B
        /\ Sound(Heap, {}) /\ heap_end <= MaxEnd
    BY DEF HeapInv, Pending, Chain, Take
  <1>2. n \in Nat /\ n % 16 = 0 /\ n >= 16 /\ call.size <= n
    BY <1>1, RoundedIs
  <1>3. s \in DOMAIN hdr /\ hdr[s].free /\ hdr[s].length >= n
    BY ChosenFits DEF Take
  <1>4. heap_end < Word
    <2>1. heap_end \in Nat
      BY <1>1, SoundAddresses, HeapIs
    <2>2. MaxEnd \in Nat /\ MaxEnd < Word /\ Word \in Nat
      BY HeapAssumption
    <2>. QED
      BY <1>1, <2>1, <2>2
  <1>. HIDE DEF n
  <1>. HIDE DEF s
  <1>5. /\ Sound(h, {}) /\ h.heap_end = heap_end
        /\ Used(h) = Used(Heap) \cup {s} /\ s \notin Used(Heap)
        /\ \A a \in Used(Heap) : h.hdr[a].length = hdr[a].length
        /\ h.hdr[s].length >= n
    BY <1>1, <1>2, <1>3, <1>4, TakeSound, HeapIs
  <1>6. /\ \A q \in B : q \in Nat /\ HeaderOf(q) \in Used(Heap) /\ Serves(hdr[HeaderOf(q)].length, blocks[q])
        /\ \A a \in Used(Heap) : DataOf(a) \in B
    BY DEF HeapInv, Owned
  <1>7. /\ s \in Nat /\ DataOf(s) \in Nat /\ HeaderOf(DataOf(s)) = s
        /\ Serves(h.hdr[s].length, call.asked)
    <2>1. s \in Nat
      BY <1>1, <1>3, SoundAddresses, HeapIs
    <2>2. s \in DOMAIN h.hdr /\ h \in HeapValue
      BY <1>5 DEF Used, Sound
    <2>3. h.hdr[s].length \in Nat
      BY <2>2, HeaderIs
    <2>4. call.size \in Nat
      BY <1>1
    <2>5. call.size <= h.hdr[s].length
      BY <1>2, <1>5, <2>3, <2>4
    <2>6. Serves(h.hdr[s].length, call.asked)
      BY <1>1, <2>5 DEF Serves
    <2>. QED
      BY <2>1, <2>6, DataIs
  <1>8. IF call.op = "realloc"
        THEN /\ Install(FreeSegment(h, call.ptr))
             /\ blocks' = [q \in (B \ {call.ptr}) \cup {DataOf(s)} |->
                             IF q = DataOf(s) THEN call.asked ELSE blocks[q]]
        ELSE /\ Install(h)
             /\ blocks' = [q \in B \cup {DataOf(s)} |->
                             IF q = DataOf(s) THEN call.asked ELSE blocks[q]]
    BY HeapIs DEF Take, Taken, n, s
  <1>9. call' = Idle
    BY DEF Take
  <1>. HIDE DEF h
  <1>10. CASE call.op # "realloc"
    <2>1. Heap' = h
      BY <1>5, <1>8, <1>10, InstallIs
    <2>2. hdr' = h.hdr /\ heap_end' = heap_end
      BY <1>5, <2>1 DEF Heap
    <2>3. Chain'
      BY <1>1, <1>5, <2>1, <2>2 DEF Chain
    <2>4. /\ DOMAIN blocks' = B \cup {DataOf(s)} /\ blocks'[DataOf(s)] = call.asked
          /\ \A q \in B \ {DataOf(s)} : blocks'[q] = blocks[q]
      BY <1>8, <1>10
    <2>5. ASSUME NEW q \in DOMAIN blocks'
          PROVE  q \in Nat /\ HeaderOf(q) \in Used(h) /\ Serves(h.hdr[HeaderOf(q)].length, blocks'[q])
      <3>1. CASE q = DataOf(s)
        BY <1>5, <1>7, <2>4, <3>1
      <3>2. CASE q # DataOf(s)
        BY <1>5, <1>6, <2>4, <3>2
      <3>. QED
        BY <3>1, <3>2
    <2>6. ASSUME NEW a \in Used(h)
          PROVE  DataOf(a) \in DOMAIN blocks'
      BY <1>5, <1>6, <2>4
    <2>7. Owned'
      BY <2>1, <2>2, <2>5, <2>6 DEF Owned
    <2>. QED
      BY <1>9, <2>3, <2>7, IdlePending DEF HeapInv
  <1>11. CASE call.op = "realloc"
    <2>. DEFINE p == call.ptr
                k == FreeSegment(h, p)
    <2>1. p \in B /\ HeaderOf(p) \in Used(Heap) /\ HeaderOf(p) \in Used(h) /\ p \in Nat
      BY <1>1, <1>5, <1>6, <1>11
    <2>2. /\ Sound(k, {}) /\ k.heap_end = h.heap_end
          /\ Used(k) = Used(h) \ {HeaderOf(p)}
          /\ \A a \in Used(k) : k.hdr[a].length = h.hdr[a].length
      BY <1>5, <2>1, FreeSound
    <2>3. Heap' = k
      BY <1>8, <1>11, <2>2, InstallIs
    <2>. HIDE DEF k
    <2>4. hdr' = k.hdr /\ heap_end' = heap_end
      BY <1>5, <2>2, <2>3 DEF Heap
    <2>5. Chain'
      BY <1>1, <2>2, <2>3, <2>4 DEF Chain
    <2>6. /\ DOMAIN blocks' = (B \ {p}) \cup {DataOf(s)} /\ blocks'[DataOf(s)] = call.asked
          /\ \A q \in B \ {p, DataOf(s)} : blocks'[q] = blocks[q]
      BY <1>8, <1>11
    <2>. HIDE DEF p
    <2>7. s # HeaderOf(p) /\ DataOf(s) # p
      BY <1>5, <1>7, <2>1
    <2>8. ASSUME NEW q \in DOMAIN blocks'
          PROVE  q \in Nat /\ HeaderOf(q) \in Used(k) /\ Serves(k.hdr[HeaderOf(q)].length, blocks'[q])
      <3>1. CASE q = DataOf(s)
        BY <1>5, <1>7, <2>2, <2>6, <2>7, <3>1
      <3>2. CASE q # DataOf(s)
        <4>1. q \in B /\ q # p /\ blocks'[q] = blocks[q] /\ q \in Nat
          BY <1>6, <2>6, <3>2
        <4>2. HeaderOf(q) # HeaderOf(p)
          BY <2>1, <4>1, DataIs
        <4>3. HeaderOf(q) \in Used(Heap) /\ HeaderOf(q) \in Used(k)
          BY <1>5, <1>6, <2>2, <4>1, <4>2
        <4>4. k.hdr[HeaderOf(q)].length = hdr[HeaderOf(q)].length
          BY <1>5, <2>2, <4>3
        <4>. QED
          BY <1>6, <4>1, <4>3, <4>4
      <3>. QED
        BY <3>1, <3>2
    <2>9. ASSUME NEW a \in Used(k)
          PROVE  DataOf(a) \in DOMAIN blocks'
      <3>1. a \in Used(h) /\ a # HeaderOf(p)
        BY <2>2
      <3>2. CASE a = s
        BY <2>6, <3>2
      <3>3. CASE a # s
        <4>1. a \in Used(Heap)
          BY <1>5, <3>1, <3>3
        <4>2. a \in DOMAIN Heap.hdr
          BY <4>1 DEF Used
        <4>3. a \in Int
          BY <1>1, <4>2, SoundAddresses
        <4>4. DataOf(a) # p
          BY <3>1, <4>3, DataIs
        <4>. QED
          BY <1>6, <2>6, <4>1, <4>4
      <3>. QED
        BY <3>2, <3>3
    <2>10. Owned'
      BY <2>3, <2>4, <2>8, <2>9 DEF Owned
    <2>. QED
      BY <1>9, <2>5, <2>10, IdlePending DEF HeapInv
  <1>. QED
    BY <1>10, <1>11

\* The heap grows by pages that are one header too short, then by as many again:
\* after the second time the request fits.
LEMMA InvExpand ==
    ASSUME HeapInv, Expand
    PROVE  HeapInv'
  <1>. DEFINE n == Rounded(call.size)
              len == PageLength(n)
              k == expand_heap(Heap, n)
              Call == [op : {"none", "malloc", "calloc", "realloc"}, size : 0 .. Word - 1,
                       asked : Nat, ptr : Nat, depth : 0 .. 2]
  <1>1. /\ call \in Call /\ n # 0
        /\ call.asked = call.size \/ call.asked >= Word
        /\ call.op = "realloc" => call.ptr \in DOMAIN blocks
        /\ call.depth > 0 => hdr[last_hdr].free /\ hdr[last_hdr].length >= len - Granule
        /\ call.depth = 2 => hdr[last_hdr].length >= n
        /\ Sound(Heap, {}) /\ heap_end <= MaxEnd
    BY DEF HeapInv, Pending, Chain, Expand
  <1>2. n \in Nat /\ n >= 16 /\ n < Word
    BY <1>1, RoundedIs
  <1>3. Fits(n) = {} /\ blocks' = blocks
    BY DEF Expand
  <1>4. CASE ExpandFaults(n)
    <2>1. UNCHANGED <<hdr, heap_end, last_hdr, call, blocks>>
      BY <1>4 DEF Expand
    <2>2. Heap' = Heap
      BY <2>1 DEF Heap
    <2>. QED
      BY <2>1, <2>2 DEF HeapInv, Chain, Owned, Pending
  <1>5. CASE ~ ExpandFaults(n)
    <2>1. heap_end + len <= MaxEnd /\ Install(k) /\ call' = [call EXCEPT !.depth = @ + 1]
      BY <1>5 DEF Expand
    <2>2. len # 0
      BY <1>5 DEF ExpandFaults
    <2>3. len \in Nat /\ len % 16 = 0 /\ len >= 32 /\ n <= len
      <3>1. n \in 0 .. Word - 1
        BY <1>2, Multiples
      <3>. HIDE DEF n
      <3>. QED
        BY <2>2, <3>1, PageLengthIs
    <2>. HIDE DEF n
    <2>. HIDE DEF len
    <2>4. /\ Sound(k, {}) /\ SameUsed(Heap, k) /\ k.heap_end = heap_end + len
          /\ k.hdr[k.last_hdr].free
          /\ k.hdr[k.last_hdr].length >= len - Granule
          /\ hdr[last_hdr].free =>
                 k.hdr[k.last_hdr].length >= hdr[last_hdr].length + len
      BY <1>1, <2>3, ExpandSound, HeapIs DEF len
    <2>5. Heap' = k
      BY <2>1, <2>4, InstallIs
    <2>. HIDE DEF k
    <2>6. hdr' = k.hdr /\ heap_end' = k.heap_end /\ last_hdr' = k.last_hdr
      BY <2>5 DEF Heap
    <2>7. Chain'
      BY <2>1, <2>4, <2>5, <2>6 DEF Chain
    <2>8. Owned'
      <3>1. /\ \A q \in DOMAIN blocks : /\ q \in Nat /\ HeaderOf(q) \in Used(Heap)
                                        /\ Serves(hdr[HeaderOf(q)].length, blocks[q])
            /\ \A a \in Used(Heap) : DataOf(a) \in DOMAIN blocks
        BY DEF HeapInv, Owned
      <3>2. /\ Used(k) = Used(Heap)
            /\ \A a \in Used(Heap) : k.hdr[a].length = hdr[a].length
        BY <2>4, HeapIs DEF SameUsed
      <3>. QED
        BY <1>3, <2>5, <2>6, <3>1, <3>2 DEF Owned
    <2>9. call.depth # 2
      <3>. SUFFICES ASSUME call.depth = 2
                    PROVE  FALSE
        OBVIOUS
      <3>1. last_hdr \in DOMAIN hdr
        BY <1>1, HeapIs DEF Sound, Anchored
      <3>2. last_hdr \in Fits(n)
        BY <1>1, <3>1 DEF Fits
      <3>. QED
        BY <1>3, <3>2
    <2>10. /\ call' \in Call /\ call'.op = call.op /\ call'.size = call.size
           /\ call'.asked = call.asked
           /\ call'.ptr = call.ptr /\ call'.depth = call.depth + 1
      <3>1. call.depth \in 0 .. 2 /\ call.depth + 1 \in 0 .. 2
        <4>1. call.depth \in 0 .. 2
          BY <1>1
        <4>. QED
          BY <2>9, <4>1
      <3>. QED
        BY <1>1, <2>1, <3>1
    <2>11. call'.depth = 2 => k.hdr[k.last_hdr].length >= n
      <3>. SUFFICES ASSUME call'.depth = 2
                    PROVE  k.hdr[k.last_hdr].length >= n
        OBVIOUS
      <3>1. call.depth = 1
        <4>1. call.depth \in 0 .. 2
          BY <1>1
        <4>. QED
          BY <2>10, <4>1
      <3>2. k.hdr[k.last_hdr].length >= hdr[last_hdr].length + len /\ hdr[last_hdr].length >= len - 16
        BY <1>1, <2>4, <3>1 DEF Granule
      <3>3. hdr[last_hdr].length \in Nat /\ k.hdr[k.last_hdr].length \in Nat
        <4>1. last_hdr \in DOMAIN Heap.hdr /\ Heap \in HeapValue
          BY <1>1, HeapIs DEF Sound, Anchored
        <4>2. k.last_hdr \in DOMAIN k.hdr /\ k \in HeapValue
          BY <2>4 DEF Sound, Anchored
        <4>3. Heap.hdr[last_hdr].length \in Nat
          BY <4>1, HeaderIs
        <4>4. k.hdr[k.last_hdr].length \in Nat
          BY <4>2, HeaderIs
        <4>. QED
          BY <4>3, <4>4, HeapIs
      <3>. QED
        BY <1>2, <2>3, <3>2, <3>3
    <2>12. Pending'
      BY <1>1, <1>3, <2>2, <2>4, <2>6, <2>10, <2>11 DEF Pending, n, len
    <2>. QED
      BY <2>7, <2>8, <2>12 DEF HeapInv
  <1>. QED
    BY <1>4, <1>5

\* A block that is resized in place.
LEMMA InvResize ==
    ASSUME HeapInv, NEW p \in DOMAIN blocks, NEW n, n <= Capacity(p), call = Idle,
           blocks' = [blocks EXCEPT ![p] = n], UNCHANGED <<hdr, heap_end, last_hdr, call>>
    PROVE  HeapInv'
  <1>1. Heap' = Heap /\ hdr' = hdr /\ heap_end' = heap_end
    BY DEF Heap
  <1>2. Chain'
    BY <1>1 DEF HeapInv, Chain
  <1>3. DOMAIN blocks' = DOMAIN blocks /\ blocks'[p] = n
        /\ \A q \in DOMAIN blocks \ {p} : blocks'[q] = blocks[q]
    OBVIOUS
  <1>4. /\ \A q \in DOMAIN blocks : /\ q \in Nat /\ HeaderOf(q) \in Used(Heap)
                                    /\ Serves(hdr[HeaderOf(q)].length, blocks[q])
        /\ \A a \in Used(Heap) : DataOf(a) \in DOMAIN blocks
    BY DEF HeapInv, Owned
  <1>5. \A q \in DOMAIN blocks : Serves(hdr[HeaderOf(q)].length, blocks'[q])
    BY <1>3, <1>4 DEF Capacity, Serves
  <1>6. Owned'
    BY <1>1, <1>3, <1>4, <1>5 DEF Owned
  <1>. QED
    BY <1>2, <1>6, IdlePending DEF HeapInv

LEMMA InvNext ==
    ASSUME HeapInv, [Next]_vars
    PROVE  HeapInv'
  <1>0. \A n \in Size : n \in 0 .. Word - 1
    BY HeapAssumption
  <1>00. Word \in Nat /\ Word > 0
    BY Multiples
  <1>1. CASE Take
    BY <1>1, InvTake
  <1>2. CASE Expand
    BY <1>2, InvExpand
  <1>3. CASE \E n \in Size : malloc(n)
    BY <1>0, <1>00, <1>3, InvBegin DEF malloc, NULL
  <1>4. CASE \E n \in Size, c \in Size : calloc(c, n)
    <2>1. PICK n \in Size, c \in Size : calloc(c, n)
      BY <1>4
    <2>. DEFINE x == c * n
    <2>2. x \in Nat
      BY <1>0
    <2>. HIDE DEF x
    <2>3. x % Word \in 0 .. Word - 1
      BY <1>00, <2>2
    <2>4. Begin("calloc", x % Word, x, NULL)
      BY <2>1 DEF calloc, x
    <2>5. x \in Nat /\ (x % Word = x \/ x >= Word)
      BY <1>00, <2>2
    <2>. QED
      BY <2>3, <2>4, <2>5, InvBegin DEF NULL
  <1>5. CASE \E p \in DOMAIN blocks : free(p)
    BY <1>5, InvFree
  <1>6. CASE \E p \in DOMAIN blocks, n \in Size : realloc(p, n)
    <2>1. PICK p \in DOMAIN blocks, n \in Size : realloc(p, n)
      BY <1>6
    <2>2. CASE free(p)
      BY <2>2, InvFree
    <2>3. CASE /\ n <= Capacity(p) /\ call = Idle
               /\ blocks' = [blocks EXCEPT ![p] = n]
               /\ UNCHANGED <<hdr, heap_end, last_hdr, call>>
      BY <2>3, InvResize
    <2>4. CASE Begin("realloc", n, n, p)
      <3>1. p \in Nat
        BY DEF HeapInv, Owned
      <3>. QED
        BY <1>0, <1>00, <2>4, <3>1, InvBegin
    <2>. QED
      BY <2>1, <2>2, <2>3, <2>4 DEF realloc
  <1>7. CASE free_null \/ UNCHANGED vars
    <2>1. UNCHANGED <<hdr, heap_end, last_hdr, call, blocks>>
      BY <1>7 DEF free_null, vars
    <2>2. Heap' = Heap
      BY <2>1 DEF Heap
    <2>. QED
      BY <2>1, <2>2 DEF HeapInv, Chain, Owned, Pending
  <1>. QED
    BY <1>1, <1>2, <1>3, <1>4, <1>5, <1>6, <1>7 DEF Next

LEMMA HeapInvariant == Spec => []HeapInv
  <1>1. Init => HeapInv
    BY HeapInvInit
  <1>2. HeapInv /\ [Next]_vars => HeapInv'
    BY InvNext
  <1>. QED
    BY <1>1, <1>2, PTL DEF Spec

\* Whatever the program asks for and in whatever order it gives it back, the
\* segments cover the heap without gap or overlap and no two free ones are left
\* side by side: hsh_split, hsh_combine_forward, hsh_combine_backward and
\* expand_heap keep the chain.
THEOREM HeapTiled == Spec => []Tiled
  BY HeapInvariant, InvTiled, PTL

\* Every block held has a used segment of its own that is large enough, and no
\* other segment is marked used: what malloc, realloc and free hand out and take
\* back.
THEOREM HeapBlocksAreSegments == Spec => []BlocksAreSegments
  BY HeapInvariant, InvBlocks, PTL

\* malloc's recursion over expand_heap ends after two expansions.
THEOREM HeapRecursionBounded == Spec => []RecursionBounded
  BY HeapInvariant, InvBounded, PTL

----------------------------------------------------------------------------
(* The tunnel *)

Content == Message \cup {Junk}

HostPc ==
    {"prompt", "spawn", "map", "unpin", "alive", "read", "set_start", "set_ok", "dead"} \cup Serving

ClientPc == {"program", "ended"} \cup Handshaking \cup Sending

TunnelTypeOK ==
    /\ host \in [pc : HostPc, out : Content]
    /\ client \in [pc : ClientPc, initialised : BOOLEAN, msg : Content]
    /\ tunnel \in [state : TunnelState, data : Content]
    /\ runs \in Nat

\* The page is not mapped yet: a program that touches it ends.
Unmapped ==
    /\ host.pc = "map" /\ frame = "none"
    /\ client.pc \in {"program", "wait_start"} /\ ~client.initialised

\* The handshake.  A program that has seen START finds it there until it
\* answers, and no OK is there before the terminal has seen an ACK.
Greeting ==
    /\ host.pc \in {"unpin", "alive", "read", "set_start", "set_ok"} /\ frame = "shared"
    /\ client.pc \in {"program"} \cup Handshaking /\ ~client.initialised
    /\ client.pc = "ack" => tunnel.state = "START"
    /\ client.pc = "wait_ok" => tunnel.state \in {"START", "ACK"}
    /\ host.pc = "set_ok" => tunnel.state = "ACK"

\* The terminal has nothing to do.
Unasked ==
    /\ host.pc \in {"serve", "poll"} /\ frame = "shared"
    /\ tunnel.state = "OK"
    /\ client.pc \in {"program", "wait_start", "wait_ok"} \cup Sending
    /\ client.pc \in {"write", "publish"} => runs = 0
    /\ client.pc = "publish" => tunnel.data = client.msg
    /\ client.pc = "wait_answer" => runs = 1

\* A message is in the tunnel: the terminal has it before it, or has read it.
Asked ==
    /\ host.pc \in Serving /\ frame = "shared"
    /\ tunnel.state = "WAIT" /\ tunnel.data = client.msg
    /\ client.pc = "wait_answer"
    /\ host.pc \in {"serve", "poll", "run"} => runs = 0
    /\ host.pc \in {"nested", "ok", "ok_set"} => runs = 1
    /\ host.pc \notin {"serve", "poll"} => host.out = client.msg

Phase == Unmapped \/ Greeting \/ Unasked \/ Asked

TunnelInv ==
    /\ TunnelTypeOK
    /\ nested => host.pc \in {"nested", "dead"}
    /\ host.pc \in {"prompt", "spawn"} => Ended
    /\ Ended \/ host.pc = "dead" \/ Phase

----------------------------------------------------------------------------
(* Types *)

LEMMA TunnelTypeInit == IpcInit => TunnelTypeOK
  BY DEF IpcInit, TunnelTypeOK, Content, TunnelState, HostPc, ClientPc

LEMMA TunnelTypeNext == TunnelTypeOK /\ [IpcNext]_ipcVars => TunnelTypeOK'
  <1>. SUFFICES ASSUME TunnelTypeOK, [IpcNext]_ipcVars
                PROVE  TunnelTypeOK'
    OBVIOUS
  <1>. USE DEF TunnelTypeOK, Content, TunnelState, HostPc, ClientPc, Serving, Handshaking, Sending
  <1>1. CASE HostPin
    BY <1>1 DEF HostPin, HostGoto, History
  <1>2. CASE HostSpawn
    <2>1. host' \in [pc : HostPc, out : Content]
      BY <1>2 DEF HostSpawn, HostGoto
    <2>2. client' \in [pc : ClientPc, initialised : BOOLEAN, msg : Content]
      <3>. DEFINE new == [pc |-> "program", initialised |-> FALSE, msg |-> Junk]
      <3>1. client' = new \/ client' = client
        BY <1>2 DEF HostSpawn
      <3>2. new \in [pc : ClientPc, initialised : BOOLEAN, msg : Content]
        OBVIOUS
      <3>. QED
        BY <3>1, <3>2, Zenon
    <2>. QED
      BY <1>2, <2>1, <2>2 DEF HostSpawn
  <1>3. CASE ipc_init_mapping
    BY <1>3 DEF ipc_init_mapping, HostGoto, HostEnds, FrameFreed
  <1>4. CASE HostUnpin
    BY <1>4 DEF HostUnpin, HostGoto, History
  <1>5. CASE HostAlive
    BY <1>5 DEF HostAlive, HostGoto, History
  <1>6. CASE ipc_init_host_test
    BY <1>6 DEF ipc_init_host_test, HostGoto, History
  <1>7. CASE ipc_init_host_start
    BY <1>7 DEF ipc_init_host_start, HostGoto
  <1>8. CASE ipc_init_host_ok
    BY <1>8 DEF ipc_init_host_ok, HostGoto, History
  <1>9. CASE ipc_message_ready
    BY <1>9 DEF ipc_message_ready, HostGoto, HostEnds, FrameFreed, History
  <1>10. CASE command_received
    BY <1>10 DEF command_received, HostGoto
  <1>11. CASE NestedWait
    BY <1>11 DEF NestedWait, HostGoto, History
  <1>12. CASE ipc_ok_assert
    BY <1>12 DEF ipc_ok_assert, HostGoto, HostEnds, FrameFreed, History
  <1>13. CASE ipc_ok_set
    BY <1>13 DEF ipc_ok_set, HostGoto, History
  <1>14. CASE ipc_init_wait_start
    BY <1>14 DEF ipc_init_wait_start, ClientGoto, ClientEnds, FrameFreed, ClientRuns, ClientAccess
  <1>15. CASE ipc_init_ack
    BY <1>15 DEF ipc_init_ack, ClientGoto, ClientEnds, FrameFreed, ClientRuns, ClientAccess
  <1>16. CASE ipc_init_wait_ok
    BY <1>16 DEF ipc_init_wait_ok, ClientGoto, ClientEnds, FrameFreed, ClientRuns, ClientAccess
  <1>17. CASE ipc_message_send_assert
    BY <1>17 DEF ipc_message_send_assert, ClientGoto, ClientEnds, FrameFreed, ClientRuns
  <1>18. CASE ipc_message_send_write
    BY <1>18 DEF ipc_message_send_write, ClientGoto, ClientEnds, FrameFreed, ClientRuns, ClientAccess
  <1>19. CASE ipc_message_send_publish
    BY <1>19 DEF ipc_message_send_publish, ClientGoto, ClientEnds, FrameFreed, ClientRuns, ClientAccess
  <1>20. CASE ipc_message_send_wait
    BY <1>20 DEF ipc_message_send_wait, ClientGoto, ClientEnds, FrameFreed, ClientRuns, ClientAccess
  <1>21. CASE ProgramEnds
    BY <1>21 DEF ProgramEnds, ClientGoto, ClientEnds, FrameFreed, History
  <1>22. CASE TerminalEnds
    BY <1>22 DEF TerminalEnds, HostGoto, HostEnds, FrameFreed, History
  <1>23. CASE NestedEnds
    BY <1>23 DEF NestedEnds, History
  <1>24. CASE FrameReused
    BY <1>24 DEF FrameReused, History
  <1>25. CASE SwitchTerminal
    BY <1>25 DEF SwitchTerminal, History
  <1>26. CASE \E m \in Message : system(m)
    BY <1>26 DEF system, ClientRuns
  <1>27. CASE UNCHANGED ipcVars
    BY <1>27 DEF ipcVars
  <1>. QED
    BY <1>1, <1>2, <1>3, <1>4, <1>5, <1>6, <1>7, <1>8, <1>9, <1>10, <1>11, <1>12, <1>13, <1>14, <1>15, <1>16, <1>17, <1>18, <1>19, <1>20, <1>21, <1>22, <1>23, <1>24, <1>25, <1>26, <1>27 DEF IpcNext, HostStep, ClientStep

----------------------------------------------------------------------------
(* The phases *)

LEMMA TunnelInit == IpcInit => TunnelInv
  BY TunnelTypeInit DEF IpcInit, TunnelInv, Ended

\* A step of the terminal.
LEMMA TunnelHost ==
    ASSUME TunnelInv, TunnelTypeOK', HostPin \/ HostStep
    PROVE  TunnelInv'
  <1>. USE DEF TunnelInv, TunnelTypeOK, Ended, Phase, Unmapped, Greeting, Unasked, Asked, Serving, Handshaking,
               Sending
  <1>1. CASE HostPin
    BY <1>1 DEF HostPin, HostGoto, History
  <1>2. CASE HostSpawn
    BY <1>2 DEF HostSpawn, HostGoto
  <1>3. CASE ipc_init_mapping
    BY <1>3 DEF ipc_init_mapping, HostGoto, HostEnds, FrameFreed
  <1>4. CASE HostUnpin
    BY <1>4 DEF HostUnpin, HostGoto, History
  <1>5. CASE HostAlive
    BY <1>5 DEF HostAlive, HostGoto, History
  <1>6. CASE ipc_init_host_test
    BY <1>6 DEF ipc_init_host_test, HostGoto, History
  <1>7. CASE ipc_init_host_start
    BY <1>7 DEF ipc_init_host_start, HostGoto
  <1>8. CASE ipc_init_host_ok
    BY <1>8 DEF ipc_init_host_ok, HostGoto, History
  <1>9. CASE ipc_message_ready
    BY <1>9 DEF ipc_message_ready, HostGoto, HostEnds, FrameFreed, History
  <1>10. CASE command_received
    BY <1>10 DEF command_received, HostGoto
  <1>11. CASE NestedWait
    BY <1>11 DEF NestedWait, HostGoto, History
  <1>12. CASE ipc_ok_assert
    BY <1>12 DEF ipc_ok_assert, HostGoto, HostEnds, FrameFreed, History
  <1>13. CASE ipc_ok_set
    BY <1>13 DEF ipc_ok_set, HostGoto, History
  <1>. QED
    BY <1>1, <1>2, <1>3, <1>4, <1>5, <1>6, <1>7, <1>8, <1>9, <1>10, <1>11, <1>12, <1>13 DEF HostStep

\* A step of the program.
LEMMA TunnelClient ==
    ASSUME TunnelInv, TunnelTypeOK', ClientStep \/ \E m \in Message : system(m)
    PROVE  TunnelInv'
  <1>. USE DEF TunnelInv, TunnelTypeOK, Ended, Phase, Unmapped, Greeting, Unasked, Asked, Serving, Handshaking,
               Sending
  <1>1. CASE ipc_init_wait_start
    BY <1>1 DEF ipc_init_wait_start, ClientGoto, ClientEnds, FrameFreed, ClientRuns, ClientAccess
  <1>2. CASE ipc_init_ack
    BY <1>2 DEF ipc_init_ack, ClientGoto, ClientEnds, FrameFreed, ClientRuns, ClientAccess
  <1>3. CASE ipc_init_wait_ok
    BY <1>3 DEF ipc_init_wait_ok, ClientGoto, ClientEnds, FrameFreed, ClientRuns, ClientAccess
  <1>4. CASE ipc_message_send_assert
    BY <1>4 DEF ipc_message_send_assert, ClientGoto, ClientEnds, FrameFreed, ClientRuns
  <1>5. CASE ipc_message_send_write
    BY <1>5 DEF ipc_message_send_write, ClientGoto, ClientEnds, FrameFreed, ClientRuns, ClientAccess
  <1>6. CASE ipc_message_send_publish
    BY <1>6 DEF ipc_message_send_publish, ClientGoto, ClientEnds, FrameFreed, ClientRuns, ClientAccess
  <1>7. CASE ipc_message_send_wait
    BY <1>7 DEF ipc_message_send_wait, ClientGoto, ClientEnds, FrameFreed, ClientRuns, ClientAccess
  <1>8. CASE \E m \in Message : system(m)
    <2>1. PICK m \in Message : system(m)
      BY <1>8
    <2>2. /\ client.pc = "program" /\ client'.pc = IF client.initialised THEN "send" ELSE "wait_start"
          /\ client'.initialised = client.initialised
          /\ UNCHANGED <<host, tunnel, frame, nested, runs>>
      BY <2>1 DEF system, ClientRuns
    <2>. QED
      BY <2>2
  <1>. QED
    BY <1>1, <1>2, <1>3, <1>4, <1>5, <1>6, <1>7, <1>8 DEF ClientStep

\* The ends of processes, and what the others do.
LEMMA TunnelOthers ==
    ASSUME TunnelInv, TunnelTypeOK', ProgramEnds \/ TerminalEnds \/ NestedEnds \/ FrameReused \/ SwitchTerminal
    PROVE  TunnelInv'
  <1>. USE DEF TunnelInv, TunnelTypeOK, Ended, Phase, Unmapped, Greeting, Unasked, Asked, Serving, Handshaking,
               Sending
  <1>1. CASE ProgramEnds
    BY <1>1 DEF ProgramEnds, ClientGoto, ClientEnds, FrameFreed, History
  <1>2. CASE TerminalEnds
    BY <1>2 DEF TerminalEnds, HostGoto, HostEnds, FrameFreed, History
  <1>3. CASE NestedEnds
    BY <1>3 DEF NestedEnds, History
  <1>4. CASE FrameReused
    BY <1>4 DEF FrameReused, History
  <1>5. CASE SwitchTerminal
    BY <1>5 DEF SwitchTerminal, History
  <1>. QED
    BY <1>1, <1>2, <1>3, <1>4, <1>5

LEMMA TunnelNext == TunnelInv /\ [IpcNext]_ipcVars => TunnelInv'
  <1>. SUFFICES ASSUME TunnelInv, [IpcNext]_ipcVars
                PROVE  TunnelInv'
    OBVIOUS
  <1>1. TunnelTypeOK'
    BY TunnelTypeNext DEF TunnelInv
  <1>2. CASE UNCHANGED ipcVars
    BY <1>1, <1>2 DEF ipcVars, TunnelInv, Ended, Phase, Unmapped, Greeting, Unasked, Asked
  <1>. QED
    BY <1>1, <1>2, TunnelHost, TunnelClient, TunnelOthers DEF IpcNext

\* The terminal's and the program's side of the tunnel agree at every stage,
\* whatever the page held before it was mapped and wherever the two are
\* preempted or killed: a program past its handshake has a terminal past its
\* own, ipc_message_send's assertion holds while there is a terminal, and the
\* terminal runs the message sent, once.
THEOREM IpcSidesAgree == IpcSpec => []SidesAgree
  <1>1. TunnelInv => SidesAgree
    BY DEF TunnelInv, TunnelTypeOK, Phase, Unmapped, Greeting, Unasked, Asked, Ended, SidesAgree,
           HandshakeAgrees, SendFindsTunnelFree, RunsWhatWasSent, Serving, Handshaking, Sending
  <1>. QED
    BY <1>1, TunnelInit, TunnelNext, PTL DEF IpcSpec

\* system() returns only when its command has been run, once, and has ended,
\* unless the terminal is gone.
THEOREM IpcSystemBlocks == IpcSpec => SystemBlocks
  <1>1. ASSUME TunnelInv, [IpcNext]_ipcVars, client.pc = "wait_answer", client'.pc = "program",
               host.pc # "dead"
        PROVE  runs = 1 /\ ~nested
    <2>1. Unasked \/ Asked
      BY <1>1 DEF TunnelInv, TunnelTypeOK, Phase, Unmapped, Greeting, Ended, Handshaking
    <2>2. ipc_message_send_wait
      <3>1. client' # client /\ ~HostSpawn
        BY <1>1, <2>1 DEF TunnelInv, Unasked, Asked, HostSpawn, Serving
      <3>2. ClientStep
        BY <1>1, <3>1 DEF IpcNext, HostStep, HostPin, ipc_init_mapping, HostUnpin, HostAlive,
             ipc_init_host_test, ipc_init_host_start, ipc_init_host_ok, ipc_message_ready,
             command_received, NestedWait, ipc_ok_assert, ipc_ok_set, system, ClientRuns,
             ProgramEnds, ClientEnds, ClientGoto, TunnelTypeOK, TunnelInv, TerminalEnds, NestedEnds,
             FrameReused, SwitchTerminal, ipcVars
      <3>. QED
        BY <1>1, <3>2 DEF ClientStep, ipc_init_wait_start, ipc_init_ack, ipc_init_wait_ok,
             ipc_message_send_assert, ipc_message_send_write, ipc_message_send_publish,
             ClientAccess, ClientRuns
    <2>3. tunnel.state # "WAIT"
      BY <1>1, <2>1, <2>2 DEF ipc_message_send_wait, ClientAccess, ClientGoto, ClientEnds, Unasked,
                              Asked, TunnelInv, TunnelTypeOK
    <2>. QED
      BY <1>1, <2>1, <2>3 DEF Unasked, Asked, TunnelInv
  <1>2. TunnelInv /\ [IpcNext]_ipcVars =>
            [client.pc = "wait_answer" /\ client'.pc = "program" /\ host.pc # "dead"
                => runs = 1 /\ ~nested]_ipcVars
    BY <1>1
  <1>. QED
    BY <1>2, TunnelInit, TunnelNext, PTL DEF IpcSpec, SystemBlocks

=============================================================================
