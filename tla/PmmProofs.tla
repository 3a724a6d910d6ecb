----------------------------- MODULE PmmProofs -----------------------------
(***************************************************************************)
(* Proofs about the physical page allocator, for every size of memory,     *)
(* kernel layout, memory map and length of range.                          *)
(*                                                                         *)
(* The argument rests on two sentinels: the page before the paging region  *)
(* (the last page of the kernel image) and the last page of the address    *)
(* space.  Both are reserved, so both stay used, and neither is masked: the *)
(* inner loop of pmm_alloc_range cannot pass either of them.               *)
(***************************************************************************)
EXTENDS Pmm, FiniteSetTheorems, TLAPS

\* The safety properties of the module are inductive together.
Inv ==
    /\ TypeOK
    /\ NoDoubleAllocation
    /\ ReservedNeverHandedOut
    /\ PagingRegionSeparate
    /\ ScanStaysInBitmap
    /\ UsedIsAccountedFor

\* A remainder by the number of pages is a page number.
LEMMA ModInPage == \A x \in Int : x % NPages \in Page
  BY LayoutAssumption DEF Page

\* The last page of the address space is reserved under every memory map:
\* the loop in pmm_init stops one page short of 4 GiB.
LEMMA LastPageReserved ==
    ASSUME NEW b \in Boots
    PROVE  NPages - 1 \in ReservedPages(b)
  <1>1. ASSUME NEW s \in b.mmap PROVE NPages - 1 \notin SectionPages(s)
    <2>1. s \in Section
      BY BootsAssumption DEF BootInfo
    <2>2. s.base \in Nat /\ s.length \in Nat
      BY <2>1 DEF Section
    <2>. QED
      BY <2>2, LayoutAssumption DEF SectionPages, SectionEnd
  <1>2. NPages - 1 \notin UsablePages(b)
    BY <1>1 DEF UsablePages
  <1>. QED
    BY <1>2, LayoutAssumption DEF ReservedPages, Page

\* So are the pages of the kernel, the last of which is followed by the
\* paging region.
LEMMA KernelReserved ==
    ASSUME NEW b \in Boots
    PROVE  KernelEnd - 1 \in ReservedPages(b)
  BY LayoutAssumption DEF ReservedPages, BootPages, KernelPages

\* All reserved pages are pages of the bitmap.
LEMMA ReservedArePages ==
    ASSUME NEW b \in Boots
    PROVE  ReservedPages(b) \subseteq Page
  <1>1. b \in BootInfo
    BY BootsAssumption
  <1>2. b.info \in Page /\ b.modtable \in Page
        /\ b.modules \subseteq Page /\ b.fb \subseteq Page
    BY <1>1 DEF BootInfo
  <1>. QED
    BY <1>2, LayoutAssumption DEF ReservedPages, BootPages, KernelPages, Page

\* What pmm_alloc_range chooses is free and outside the paging region, and it
\* lies inside the bitmap: a range that reached either would first have met a
\* sentinel.
LEMMA RangeIsFree ==
    ASSUME TypeOK, ReservedNeverHandedOut,
           NEW count \in 1 .. MaxRange, NEW i \in Starts(count)
    PROVE  /\ i + count <= NPages
           /\ \A k \in i .. i + count - 1 : k \in FreeData
  <1>. DEFINE R == i .. i + count - 1
  <1>1. /\ i \in Page /\ i \notin used /\ i \notin Mask
        /\ \A k \in R : k \in Mask \/ k \notin used
    BY DEF Starts, FreeData, Rejected
  <1>2. NPages - 1 \in used /\ KernelEnd - 1 \in used
    BY LastPageReserved, KernelReserved DEF TypeOK, ReservedNeverHandedOut
  <1>3. NPages - 1 \notin R
    BY <1>1, <1>2, LayoutAssumption DEF Mask, Page
  <1>4. i + count <= NPages
    BY <1>1, <1>3, LayoutAssumption DEF Page
  <1>5. KernelEnd - 1 \notin R
    BY <1>1, <1>2, LayoutAssumption DEF Mask, Page
  <1>6. \A k \in R : k \notin Mask
    BY <1>1, <1>5, LayoutAssumption DEF Mask, Page
  <1>7. \A k \in R : k \in Page
    BY <1>1, <1>4, LayoutAssumption DEF Page
  <1>. QED
    BY <1>1, <1>4, <1>6, <1>7 DEF FreeData

\* The counters after pmm_usage_use and pmm_usage_unuse keep their type.
LEMMA UsageTyped ==
    ASSUME TypeOK, NEW n \in Int, pmm_usage_use(n) \/ pmm_usage_unuse(n)
    PROVE  free_memory' \in Page /\ used_memory' \in Page
  <1>1. free_memory \in Int /\ used_memory \in Int
    BY LayoutAssumption DEF TypeOK, Page
  <1>2. /\ free_memory - n \in Int /\ used_memory + n \in Int
        /\ free_memory + n \in Int /\ used_memory - n \in Int
    BY <1>1
  <1>. QED
    BY <1>2, ModInPage DEF pmm_usage_use, pmm_usage_unuse

----------------------------------------------------------------------------
\* Giving out free pages as memory keeps every part of the invariant; this is
\* the effect pmm_alloc and a successful pmm_alloc_range have in common.
LEMMA TakeData ==
    ASSUME Inv, NEW S \in SUBSET FreeData,
           used' = used \cup S, data' = Gain(data, S),
           free_memory' \in Page, used_memory' \in Page,
           overrun' = FALSE, UNCHANGED <<boot, table, halted>>
    PROVE  Inv'
  <1>. USE DEF Inv
  <1>1. S \subseteq Page /\ S \cap used = {} /\ S \cap Mask = {}
    BY DEF FreeData
  <1>2. \A p \in Page : data[p] \in Nat /\ table[p] \in Nat
    BY DEF TypeOK
  <1>3. \A p \in S : data[p] = 0 /\ table[p] = 0
    BY <1>1, <1>2 DEF NoDoubleAllocation
  <1>4. \A p \in Page : /\ p \in S => data'[p] = 1
                        /\ p \notin S => data'[p] = data[p]
    BY <1>1, <1>3 DEF Gain
  <1>5. TypeOK'
    <2>1. data' \in [Page -> Nat] /\ used' \subseteq Page
      BY <1>1, <1>2 DEF TypeOK, Gain
    <2>. QED
      BY <2>1 DEF TypeOK
  <1>6. NoDoubleAllocation'
    BY <1>1, <1>2, <1>3, <1>4 DEF NoDoubleAllocation
  <1>7. ReservedNeverHandedOut'
    BY <1>1, <1>4, ReservedArePages DEF ReservedNeverHandedOut, TypeOK
  <1>8. PagingRegionSeparate'
    BY <1>1, <1>4 DEF PagingRegionSeparate
  <1>9. UsedIsAccountedFor'
    <2>. SUFFICES ASSUME NEW p \in used'
                  PROVE  p \in ReservedPages(boot)' \/ data'[p] + table'[p] > 0
      BY DEF UsedIsAccountedFor
    <2>1. CASE p \in S
      BY <2>1, <1>1, <1>3, <1>4
    <2>2. CASE p \notin S
      BY <2>2, <1>4, <1>5 DEF UsedIsAccountedFor, TypeOK
    <2>. QED BY <2>1, <2>2
  <1>. QED
    BY <1>5, <1>6, <1>7, <1>8, <1>9 DEF ScanStaysInBitmap

\* Taking back memory that is held does too.
LEMMA ReturnData ==
    ASSUME Inv, NEW S \in SUBSET Page, \A k \in S : data[k] > 0,
           used' = used \ S, data' = Drop(data, S),
           free_memory' \in Page, used_memory' \in Page,
           UNCHANGED <<boot, table, overrun, halted>>
    PROVE  Inv'
  <1>. USE DEF Inv
  <1>2. \A p \in Page : data[p] \in Nat /\ table[p] \in Nat
    BY DEF TypeOK
  <1>3. \A p \in S : data[p] = 1 /\ table[p] = 0
    BY <1>2 DEF NoDoubleAllocation
  <1>4. \A p \in Page : /\ p \in S => data'[p] = 0
                        /\ p \notin S => data'[p] = data[p]
    BY <1>3 DEF Drop
  <1>5. TypeOK'
    BY <1>2, <1>4 DEF TypeOK, Drop
  <1>6. NoDoubleAllocation'
    BY <1>2, <1>3, <1>4 DEF NoDoubleAllocation
  <1>7. ReservedNeverHandedOut'
    BY <1>3, <1>4, ReservedArePages DEF ReservedNeverHandedOut, TypeOK
  <1>8. PagingRegionSeparate'
    BY <1>4 DEF PagingRegionSeparate
  <1>9. UsedIsAccountedFor'
    BY <1>4 DEF UsedIsAccountedFor, TypeOK
  <1>. QED
    BY <1>5, <1>6, <1>7, <1>8, <1>9 DEF ScanStaysInBitmap

\* The same two facts for page tables, which move one page at a time.
LEMMA TakeTable ==
    ASSUME Inv, NEW p \in FreeTable,
           used' = used \cup {p}, table' = Gain(table, {p}),
           free_memory' \in Page, used_memory' \in Page,
           UNCHANGED <<boot, data, overrun, halted>>
    PROVE  Inv'
  <1>. USE DEF Inv
  <1>1. p \in Page /\ p \notin used /\ p \in Mask
    BY DEF FreeTable
  <1>2. \A q \in Page : data[q] \in Nat /\ table[q] \in Nat
    BY DEF TypeOK
  <1>3. data[p] = 0 /\ table[p] = 0
    <2>1. data[p] + table[p] <= 1 /\ data[p] + table[p] # 1
      BY <1>1 DEF NoDoubleAllocation
    <2>. QED
      BY <1>1, <1>2, <2>1
  <1>4. \A q \in Page : /\ q = p => table'[q] = 1
                        /\ q # p => table'[q] = table[q]
    BY <1>1, <1>3 DEF Gain
  <1>5. TypeOK'
    BY <1>1, <1>2 DEF TypeOK, Gain
  <1>6. NoDoubleAllocation'
    <2>1. ASSUME NEW q \in Page
          PROVE  /\ data[q] + table'[q] <= 1
                 /\ data[q] + table'[q] = 1 => q \in used'
      <3>1. CASE q = p
        BY <3>1, <1>3, <1>4
      <3>2. CASE q # p
        BY <3>2, <1>4 DEF NoDoubleAllocation
      <3>. QED BY <3>1, <3>2
    <2>. QED
      BY <2>1 DEF NoDoubleAllocation
  <1>7. ReservedNeverHandedOut'
    BY <1>1, <1>4, ReservedArePages DEF ReservedNeverHandedOut, TypeOK
  <1>8. PagingRegionSeparate'
    BY <1>1, <1>4 DEF PagingRegionSeparate
  <1>9. UsedIsAccountedFor'
    <2>. SUFFICES ASSUME NEW q \in used'
                  PROVE  q \in ReservedPages(boot)' \/ data'[q] + table'[q] > 0
      BY DEF UsedIsAccountedFor
    <2>1. CASE q = p
      BY <2>1, <1>1, <1>3, <1>4
    <2>2. CASE q # p
      BY <2>2, <1>4, <1>5 DEF UsedIsAccountedFor, TypeOK
    <2>. QED BY <2>1, <2>2
  <1>. QED
    BY <1>5, <1>6, <1>7, <1>8, <1>9 DEF ScanStaysInBitmap

LEMMA ReturnTable ==
    ASSUME Inv, NEW p \in Page, table[p] > 0,
           used' = used \ {p}, table' = Drop(table, {p}),
           free_memory' \in Page, used_memory' \in Page,
           UNCHANGED <<boot, data, overrun, halted>>
    PROVE  Inv'
  <1>. USE DEF Inv
  <1>2. \A q \in Page : data[q] \in Nat /\ table[q] \in Nat
    BY DEF TypeOK
  <1>3. table[p] = 1 /\ data[p] = 0
    BY <1>2 DEF NoDoubleAllocation
  <1>4. \A q \in Page : /\ q = p => table'[q] = 0
                        /\ q # p => table'[q] = table[q]
    BY <1>3 DEF Drop
  <1>5. TypeOK'
    BY <1>2, <1>4 DEF TypeOK, Drop
  <1>6. NoDoubleAllocation'
    <2>1. ASSUME NEW q \in Page
          PROVE  /\ data[q] + table'[q] <= 1
                 /\ data[q] + table'[q] = 1 => q \in used'
      <3>1. CASE q = p
        BY <3>1, <1>3, <1>4
      <3>2. CASE q # p
        BY <3>2, <1>4 DEF NoDoubleAllocation
      <3>. QED BY <3>1, <3>2
    <2>. QED
      BY <2>1 DEF NoDoubleAllocation
  <1>7. ReservedNeverHandedOut'
    <2>1. boot \in Boots /\ boot' = boot
      BY DEF TypeOK
    <2>2. p \notin ReservedPages(boot)
      BY <1>3 DEF ReservedNeverHandedOut
    <2>3. ReservedPages(boot) \subseteq Page
      BY <2>1, ReservedArePages
    <2>. QED
      BY <1>4, <2>1, <2>2, <2>3 DEF ReservedNeverHandedOut
  <1>8. PagingRegionSeparate'
    BY <1>4 DEF PagingRegionSeparate
  <1>9. UsedIsAccountedFor'
    BY <1>4 DEF UsedIsAccountedFor, TypeOK
  <1>. QED
    BY <1>5, <1>6, <1>7, <1>8, <1>9 DEF ScanStaysInBitmap

----------------------------------------------------------------------------
\* pmm_init establishes the invariant.
LEMMA InitInv == Init => Inv
  <1>. SUFFICES ASSUME Init PROVE Inv
    OBVIOUS
  <1>1. PICK b \in Boots :
          /\ boot = b
          /\ used = ReservedPages(b)
          /\ free_memory = (Cardinality(UsablePages(b)) - BootCharge(b)) % NPages
          /\ used_memory = BootCharge(b) % NPages
          /\ data = [p \in Page |-> 0]
          /\ table = [p \in Page |-> 0]
          /\ overrun = FALSE
          /\ halted = FALSE
    BY DEF Init, pmm_init
  <1>2. BootCharge(b) \in Int /\ Cardinality(UsablePages(b)) \in Int
    <2>1. b \in BootInfo
      BY BootsAssumption
    <2>2. Page \in SUBSET Int /\ IsFiniteSet(Page)
      BY LayoutAssumption, FS_Interval DEF Page
    <2>3. IsFiniteSet(b.modules) /\ IsFiniteSet(b.fb)
      BY <2>1, <2>2, FS_Subset DEF BootInfo
    <2>4. IsFiniteSet(KernelPages)
      BY LayoutAssumption, FS_Interval DEF KernelPages
    <2>5. UsablePages(b) \subseteq Page
      <3>1. ASSUME NEW s \in b.mmap PROVE SectionPages(s) \subseteq Page
        <4>1. s.base \in Nat /\ s.length \in Nat
          BY <2>1 DEF BootInfo, Section
        <4>. QED
          BY <4>1, LayoutAssumption DEF SectionPages, SectionEnd, Page
      <3>. QED
        BY <3>1 DEF UsablePages
    <2>6. IsFiniteSet(UsablePages(b))
      BY <2>2, <2>5, FS_Subset
    <2>7. /\ Cardinality(KernelPages) \in Nat
          /\ Cardinality(b.modules) \in Nat
          /\ Cardinality(b.fb) \in Nat
          /\ Cardinality(UsablePages(b)) \in Nat
      BY <2>3, <2>4, <2>6, FS_CardinalityType
    <2>. QED
      BY <2>7 DEF BootCharge
  <1>3. free_memory \in Page /\ used_memory \in Page
    <2>1. Cardinality(UsablePages(b)) - BootCharge(b) \in Int
      BY <1>2
    <2>. QED
      BY <1>1, <1>2, <2>1, ModInPage
  <1>4. TypeOK
    BY <1>1, <1>3, ReservedArePages DEF TypeOK
  <1>5. NoDoubleAllocation
    BY <1>1 DEF NoDoubleAllocation
  <1>6. ReservedNeverHandedOut
    BY <1>1, ReservedArePages DEF ReservedNeverHandedOut
  <1>7. PagingRegionSeparate
    BY <1>1 DEF PagingRegionSeparate
  <1>8. ScanStaysInBitmap /\ UsedIsAccountedFor
    BY <1>1 DEF ScanStaysInBitmap, UsedIsAccountedFor
  <1>. QED
    BY <1>4, <1>5, <1>6, <1>7, <1>8 DEF Inv

\* Every operation of the allocator preserves it.
LEMMA NextInv == Inv /\ [Next]_vars => Inv'
  <1>. SUFFICES ASSUME Inv, [Next]_vars PROVE Inv'
    OBVIOUS
  <1>0. TypeOK /\ ReservedNeverHandedOut /\ overrun = FALSE
    BY DEF Inv, ScanStaysInBitmap, TypeOK
  <1>1. CASE pmm_alloc
    <2>1. CASE Panic
      BY <2>1 DEF Panic, Inv, TypeOK, NoDoubleAllocation, ReservedNeverHandedOut,
                  PagingRegionSeparate, ScanStaysInBitmap, UsedIsAccountedFor
    <2>2. ASSUME NEW p \in Page, IsLeast(p, FreeData), used' = used \cup {p},
                 pmm_usage_use(1), data' = Gain(data, {p}),
                 UNCHANGED <<boot, table, overrun, halted>>
          PROVE  Inv'
      <3>1. {p} \in SUBSET FreeData
        BY <2>2 DEF IsLeast
      <3>2. free_memory' \in Page /\ used_memory' \in Page
        BY <1>0, <2>2, UsageTyped
      <3>. QED
        BY <1>0, <2>2, <3>1, <3>2, TakeData
    <2>. QED
      BY <1>1, <2>1, <2>2 DEF pmm_alloc
  <1>2. CASE pmm_alloc_pagetable
    <2>1. CASE Panic
      BY <2>1 DEF Panic, Inv, TypeOK, NoDoubleAllocation, ReservedNeverHandedOut,
                  PagingRegionSeparate, ScanStaysInBitmap, UsedIsAccountedFor
    <2>2. ASSUME NEW p \in Page, IsLeast(p, FreeTable), used' = used \cup {p},
                 pmm_usage_use(1), table' = Gain(table, {p}),
                 UNCHANGED <<boot, data, overrun, halted>>
          PROVE  Inv'
      <3>1. p \in FreeTable
        BY <2>2 DEF IsLeast
      <3>2. free_memory' \in Page /\ used_memory' \in Page
        BY <1>0, <2>2, UsageTyped
      <3>. QED
        BY <2>2, <3>1, <3>2, TakeTable
    <2>. QED
      BY <1>2, <2>1, <2>2 DEF pmm_alloc_pagetable
  <1>3. ASSUME NEW count \in 1 .. MaxRange, pmm_alloc_range(count)
        PROVE  Inv'
    <2>1. CASE UNCHANGED vars
      BY <2>1 DEF vars, Inv, TypeOK, NoDoubleAllocation, ReservedNeverHandedOut,
                  PagingRegionSeparate, ScanStaysInBitmap, UsedIsAccountedFor
    <2>2. ASSUME NEW i \in Page, IsLeast(i, Starts(count)),
                 used' = used \cup ((i .. i + count - 1) \cap Page),
                 pmm_usage_use(count), data' = Gain(data, i .. i + count - 1),
                 overrun' = (i + count > NPages),
                 UNCHANGED <<boot, table, halted>>
          PROVE  Inv'
      <3>. DEFINE S == i .. i + count - 1
      <3>1. i \in Starts(count)
        BY <2>2 DEF IsLeast
      <3>2. i + count <= NPages /\ S \in SUBSET FreeData
        BY <1>0, <3>1, RangeIsFree
      <3>3. S \cap Page = S
        BY <3>2 DEF FreeData
      <3>4. free_memory' \in Page /\ used_memory' \in Page
        BY <1>0, <2>2, UsageTyped
      <3>5. overrun' = FALSE
        <4>1. ~(i + count > NPages)
          BY <3>2, LayoutAssumption DEF Page
        <4>2. (i + count > NPages) = FALSE
          BY <4>1, LayoutAssumption, SMT DEF Page
        <4>3. overrun' = (i + count > NPages)
          BY <2>2, Zenon
        <4>. QED
          BY <4>2, <4>3, Zenon
      <3>6. used' = used \cup S
        BY <2>2, <3>3
      <3>. QED
        BY <2>2, <3>2, <3>4, <3>5, <3>6, TakeData
    <2>. QED
      BY <1>3, <2>1, <2>2 DEF pmm_alloc_range
  <1>4. ASSUME NEW p \in Page, pmm_free_data(p) PROVE Inv'
    <2>1. free_memory' \in Page /\ used_memory' \in Page
      BY <1>0, <1>4, UsageTyped DEF pmm_free_data
    <2>. QED
      BY <1>4, <2>1, ReturnData DEF pmm_free_data
  <1>5. ASSUME NEW p \in Page, pmm_free_table(p) PROVE Inv'
    <2>1. free_memory' \in Page /\ used_memory' \in Page
      BY <1>0, <1>5, UsageTyped DEF pmm_free_table
    <2>. QED
      BY <1>5, <2>1, ReturnTable DEF pmm_free_table
  <1>6. ASSUME NEW p \in Page, NEW count \in 1 .. MaxRange, pmm_free_range(p, count)
        PROVE  Inv'
    <2>1. free_memory' \in Page /\ used_memory' \in Page
      BY <1>0, <1>6, UsageTyped DEF pmm_free_range
    <2>2. (p .. p + count - 1) \in SUBSET Page
      BY <1>6, LayoutAssumption DEF pmm_free_range, Page
    <2>. QED
      BY <1>6, <2>1, <2>2, ReturnData DEF pmm_free_range
  <1>7. CASE UNCHANGED vars
    BY <1>7 DEF vars, Inv, TypeOK, NoDoubleAllocation, ReservedNeverHandedOut,
                PagingRegionSeparate, ScanStaysInBitmap, UsedIsAccountedFor
  <1>. QED
    BY <1>1, <1>2, <1>3, <1>4, <1>5, <1>6, <1>7 DEF Next

----------------------------------------------------------------------------
\* The whole invariant of the allocator, for every layout and memory map.
THEOREM PmmInvariant == Spec => []Inv
  BY InitInv, NextInv, PTL DEF Spec

\* No page is ever given to two callers.
THEOREM PmmNoDoubleAllocation == Spec => []NoDoubleAllocation
  <1>1. Inv => NoDoubleAllocation
    BY DEF Inv
  <1>. QED
    BY <1>1, PmmInvariant, PTL

\* Page tables and memory stay apart although the range scan does not test
\* the mask of the pages it takes.
THEOREM PmmPagingRegionSeparate == Spec => []PagingRegionSeparate
  <1>1. Inv => PagingRegionSeparate
    BY DEF Inv
  <1>. QED
    BY <1>1, PmmInvariant, PTL

\* The range scan never passes the end of the bitmap.
THEOREM PmmScanStaysInBitmap == Spec => []ScanStaysInBitmap
  <1>1. Inv => ScanStaysInBitmap
    BY DEF Inv
  <1>. QED
    BY <1>1, PmmInvariant, PTL

----------------------------------------------------------------------------
(* The counters *)

\* Division with remainder is unique.
LEMMA RemainderUnique ==
    ASSUME NEW N \in Nat, N > 0, NEW k \in Int, NEW m \in Int,
           NEW r \in 0 .. N - 1, NEW s \in 0 .. N - 1,
           N * k + r = N * m + s
    PROVE  r = s
  <1>1. N * (k - m) = s - r
    OBVIOUS
  <1>2. k - m \in Int /\ -N < s - r /\ s - r < N
    OBVIOUS
  <1>3. CASE k - m >= 1
    <2>1. N * (k - m) >= N
      BY <1>2, <1>3
    <2>. QED
      BY <1>1, <1>2, <2>1
  <1>4. CASE k - m <= -1
    <2>1. N * (k - m) <= -N
      BY <1>2, <1>4
    <2>. QED
      BY <1>1, <1>2, <2>1
  <1>5. CASE k - m = 0
    BY <1>1, <1>5
  <1>. QED
    BY <1>2, <1>3, <1>4, <1>5

\* A counter that wraps may be subtracted from before or after it wraps.
LEMMA WrapThenSubtract ==
    ASSUME NEW N \in Nat, N > 0, NEW a \in Int, NEW b \in Int
    PROVE  ((a % N) - b) % N = (a - b) % N
  <1>. DEFINE q == a \div N
              d == (a - b) \div N
              x == (a % N) - b
  <1>1. q \in Int /\ d \in Int /\ d - q \in Int /\ x \in Int /\ x \div N \in Int
    OBVIOUS
  <1>2. a = N * q + (a % N)
    OBVIOUS
  <1>3. a - b = N * d + ((a - b) % N) /\ (a - b) % N \in 0 .. N - 1
    OBVIOUS
  <1>4. x = N * (x \div N) + (x % N) /\ x % N \in 0 .. N - 1
    OBVIOUS
  <1>5. N * (x \div N) + (x % N) = N * (d - q) + ((a - b) % N)
    BY <1>1, <1>2, <1>3, <1>4
  <1>. HIDE DEF q, d, x
  <1>6. x % N = (a - b) % N
    BY <1>1, <1>3, <1>4, <1>5, RemainderUnique
  <1>. QED
    BY <1>6 DEF x

\* Disjoint sets add up.
LEMMA DisjointCount ==
    ASSUME NEW S, NEW T, IsFiniteSet(S), IsFiniteSet(T), S \cap T = {}
    PROVE  Cardinality(S \cup T) = Cardinality(S) + Cardinality(T)
  <1>1. Cardinality(S \cup T) = Cardinality(S) + Cardinality(T) - Cardinality(S \cap T)
    BY FS_Union
  <1>2. Cardinality(S \cap T) = 0
    BY FS_EmptySet
  <1>3. Cardinality(S) \in Nat /\ Cardinality(T) \in Nat
    BY FS_CardinalityType
  <1>. QED
    BY <1>1, <1>2, <1>3

\* The number of free pages when a set of pages changes its bits.
LEMMA FreeCount ==
    ASSUME NEW U \in SUBSET Page, NEW S \in SUBSET Page
    PROVE  /\ Cardinality(Page \ U) \in Nat /\ Cardinality(S) \in Nat
           /\ S \cap U = {} =>
                Cardinality(Page \ (U \cup S)) = Cardinality(Page \ U) - Cardinality(S)
           /\ S \subseteq U =>
                Cardinality(Page \ (U \ S)) = Cardinality(Page \ U) + Cardinality(S)
  <1>1. IsFiniteSet(Page)
    BY LayoutAssumption, FS_Interval DEF Page
  <1>2. IsFiniteSet(Page \ U) /\ IsFiniteSet(S) /\ IsFiniteSet(Page \ (U \cup S))
    BY <1>1, FS_Subset
  <1>3. /\ Cardinality(Page \ U) \in Nat /\ Cardinality(S) \in Nat
        /\ Cardinality(Page \ (U \cup S)) \in Nat
    BY <1>2, FS_CardinalityType
  <1>4. ASSUME S \cap U = {}
        PROVE  Cardinality(Page \ (U \cup S)) = Cardinality(Page \ U) - Cardinality(S)
    <2>1. Page \ U = (Page \ (U \cup S)) \cup S /\ (Page \ (U \cup S)) \cap S = {}
      BY <1>4
    <2>2. Cardinality(Page \ U) = Cardinality(Page \ (U \cup S)) + Cardinality(S)
      BY <1>2, <2>1, DisjointCount
    <2>. QED
      BY <1>3, <2>2
  <1>5. ASSUME S \subseteq U
        PROVE  Cardinality(Page \ (U \ S)) = Cardinality(Page \ U) + Cardinality(S)
    <2>1. Page \ (U \ S) = (Page \ U) \cup S /\ (Page \ U) \cap S = {}
      BY <1>5
    <2>. QED
      BY <1>2, <1>3, <2>1, DisjointCount
  <1>. QED
    BY <1>3, <1>4, <1>5

\* A range has as many pages as were asked for.
LEMMA RangeSize ==
    ASSUME NEW i \in Int, NEW count \in Nat
    PROVE  Cardinality(i .. i + count - 1) = count
  BY FS_Interval

\* What UsageTracksBitmap says of one step.
InStep ==
    (free_memory' - Cardinality(Page \ used')) % NPages
        = (free_memory - Cardinality(Page \ used)) % NPages

\* Charging as many pages as get their bit set, or crediting as many as get it
\* cleared, keeps counter and bitmap in step, also when the counter wraps.
LEMMA ChargeInStep ==
    ASSUME TypeOK, NEW S \in SUBSET Page,
           \/ S \cap used = {} /\ used' = used \cup S /\ pmm_usage_use(Cardinality(S))
           \/ S \subseteq used /\ used' = used \ S /\ pmm_usage_unuse(Cardinality(S))
    PROVE  InStep
  <1>. DEFINE n == Cardinality(S)
              c == Cardinality(Page \ used)
  <1>1. NPages \in Nat /\ NPages > 0 /\ free_memory \in Int /\ used \in SUBSET Page
    BY LayoutAssumption DEF TypeOK, Page
  <1>2. n \in Nat /\ c \in Nat
    BY <1>1, FreeCount
  <1>3. CASE S \cap used = {} /\ used' = used \cup S /\ pmm_usage_use(n)
    <2>1. Cardinality(Page \ used') = c - n
      BY <1>1, <1>3, FreeCount
    <2>2. free_memory' = (free_memory - n) % NPages
      BY <1>3 DEF pmm_usage_use
    <2>. HIDE DEF n, c
    <2>3. free_memory - n \in Int /\ c - n \in Int
      BY <1>1, <1>2
    <2>4. (((free_memory - n) % NPages) - (c - n)) % NPages
            = ((free_memory - n) - (c - n)) % NPages
      BY <1>1, <2>3, WrapThenSubtract
    <2>5. (free_memory - n) - (c - n) = free_memory - c
      BY <1>1, <1>2
    <2>. QED
      BY <2>1, <2>2, <2>4, <2>5 DEF InStep, c
  <1>4. CASE S \subseteq used /\ used' = used \ S /\ pmm_usage_unuse(n)
    <2>1. Cardinality(Page \ used') = c + n
      BY <1>1, <1>4, FreeCount
    <2>2. free_memory' = (free_memory + n) % NPages
      BY <1>4 DEF pmm_usage_unuse
    <2>. HIDE DEF n, c
    <2>3. free_memory + n \in Int /\ c + n \in Int
      BY <1>1, <1>2
    <2>4. (((free_memory + n) % NPages) - (c + n)) % NPages
            = ((free_memory + n) - (c + n)) % NPages
      BY <1>1, <2>3, WrapThenSubtract
    <2>5. (free_memory + n) - (c + n) = free_memory - c
      BY <1>1, <1>2
    <2>. QED
      BY <2>1, <2>2, <2>4, <2>5 DEF InStep, c
  <1>. QED
    BY <1>3, <1>4

\* An operation that fails leaves bitmap and counter alone.
LEMMA NothingMoves ==
    ASSUME UNCHANGED <<used, free_memory>>
    PROVE  InStep
  BY DEF InStep

\* Every operation charges exactly the pages whose bits it changes: none is
\* charged for a bit that was set before, in particular not inside a range.
LEMMA NextInStep == Inv /\ [Next]_vars => InStep
  <1>. SUFFICES ASSUME Inv, [Next]_vars PROVE InStep
    OBVIOUS
  <1>0. /\ TypeOK /\ ReservedNeverHandedOut
        /\ \A p \in Page : data[p] > 0 => p \in used
        /\ \A p \in Page : table[p] > 0 => p \in used
    BY DEF Inv, TypeOK, NoDoubleAllocation
  <1>1. CASE pmm_alloc
    <2>1. ASSUME NEW p \in Page, IsLeast(p, FreeData), used' = used \cup {p}, pmm_usage_use(1)
          PROVE  InStep
      <3>1. p \notin used /\ Cardinality({p}) = 1
        BY <2>1, FS_Singleton DEF IsLeast, FreeData
      <3>. QED
        BY <1>0, <2>1, <3>1, ChargeInStep
    <2>. QED
      BY <1>1, <2>1, NothingMoves DEF pmm_alloc, Panic
  <1>2. CASE pmm_alloc_pagetable
    <2>1. ASSUME NEW p \in Page, IsLeast(p, FreeTable), used' = used \cup {p}, pmm_usage_use(1)
          PROVE  InStep
      <3>1. p \notin used /\ Cardinality({p}) = 1
        BY <2>1, FS_Singleton DEF IsLeast, FreeTable
      <3>. QED
        BY <1>0, <2>1, <3>1, ChargeInStep
    <2>. QED
      BY <1>2, <2>1, NothingMoves DEF pmm_alloc_pagetable, Panic
  <1>3. ASSUME NEW count \in 1 .. MaxRange, pmm_alloc_range(count)
        PROVE  InStep
    <2>1. ASSUME NEW i \in Page, IsLeast(i, Starts(count)),
                 used' = used \cup ((i .. i + count - 1) \cap Page), pmm_usage_use(count)
          PROVE  InStep
      <3>. DEFINE S == i .. i + count - 1
      <3>1. \A k \in S : k \in FreeData
        BY <1>0, <2>1, RangeIsFree DEF IsLeast
      <3>2. S \in SUBSET Page /\ S \cap used = {} /\ S \cap Page = S
        BY <3>1 DEF FreeData
      <3>3. Cardinality(S) = count
        BY RangeSize DEF Page
      <3>. HIDE DEF S
      <3>4. used' = used \cup S
        BY <2>1, <3>2 DEF S
      <3>. QED
        BY <1>0, <2>1, <3>2, <3>3, <3>4, ChargeInStep
    <2>. QED
      BY <1>3, <2>1, NothingMoves DEF pmm_alloc_range, vars
  <1>4. ASSUME NEW p \in Page, pmm_free_data(p) \/ pmm_free_table(p)
        PROVE  InStep
    <2>1. p \in used /\ used' = used \ {p} /\ pmm_usage_unuse(1)
      BY <1>0, <1>4 DEF pmm_free_data, pmm_free_table
    <2>2. Cardinality({p}) = 1
      BY FS_Singleton
    <2>. QED
      BY <1>0, <2>1, <2>2, ChargeInStep
  <1>5. ASSUME NEW p \in Page, NEW count \in 1 .. MaxRange, pmm_free_range(p, count)
        PROVE  InStep
    <2>. DEFINE S == p .. p + count - 1
    <2>1. S \in SUBSET Page
      BY <1>5, LayoutAssumption DEF pmm_free_range, Page
    <2>2. S \subseteq used /\ used' = used \ S /\ pmm_usage_unuse(count)
      BY <1>0, <1>5, <2>1 DEF pmm_free_range
    <2>3. Cardinality(S) = count
      BY RangeSize DEF Page
    <2>. HIDE DEF S
    <2>. QED
      BY <1>0, <2>1, <2>2, <2>3, ChargeInStep
  <1>6. CASE UNCHANGED vars
    BY <1>6, NothingMoves DEF vars
  <1>. QED
    BY <1>1, <1>2, <1>3, <1>4, <1>5, <1>6 DEF Next

\* free_memory, which sys_raminfo reports, moves with the bitmap in every step.
THEOREM PmmUsageTracksBitmap == Spec => UsageTracksBitmap
  <1>1. Inv /\ [Next]_vars => [InStep]_vars
    BY NextInStep
  <1>2. UsageTracksBitmap <=> [][InStep]_vars
    BY DEF UsageTracksBitmap, InStep
  <1>. QED
    BY <1>1, <1>2, PmmInvariant, PTL DEF Spec

----------------------------------------------------------------------------
(* The allocator implements its abstract specification *)

\* The pages callers hold: the abstract `held`.
Held == {p \in Page : data[p] + table[p] > 0}

\* One step of the abstract allocator, or none.
PoolStep == Pool!Next \/ UNCHANGED <<Page \ used, Held>>

\* Free pages that get their bit set and their holder are lent.
LEMMA LendStep ==
    ASSUME TypeOK, NEW S \in SUBSET Page, S # {}, S \cap used = {},
           used' = used \cup S, Held' = Held \cup S
    PROVE  Pool!Next
  <1>1. (Page \ used) \ (Page \ used') = S
    OBVIOUS
  <1>2. S \subseteq Page \ used /\ Page \ used' = (Page \ used) \ S
    OBVIOUS
  <1>. QED
    BY <1>1, <1>2 DEF Pool!Next, Pool!Lend, Held

\* Held pages that lose both are taken back.
LEMMA TakeBackStep ==
    ASSUME TypeOK, NEW S \in SUBSET Held, S # {},
           used' = used \ S, Held' = Held \ S
    PROVE  Pool!Next
  <1>1. S \subseteq Page /\ Held \ Held' = S
    BY DEF Held
  <1>2. Page \ used' = (Page \ used) \cup S
    BY <1>1
  <1>. QED
    BY <1>1, <1>2 DEF Pool!Next, Pool!TakeBack, Held

\* At boot some pages are free and none is held.
LEMMA PoolInit == Init => Pool!Init
  <1>. SUFFICES ASSUME Init PROVE Pool!Init
    OBVIOUS
  <1>1. data = [p \in Page |-> 0] /\ table = [p \in Page |-> 0]
    BY DEF Init, pmm_init
  <1>. QED
    BY <1>1 DEF Pool!Init

\* Every operation is a step of the abstract allocator or leaves its state alone.
LEMMA PoolNext == Inv /\ [Next]_vars => PoolStep
  <1>. SUFFICES ASSUME Inv, [Next]_vars PROVE PoolStep
    OBVIOUS
  <1>0. /\ TypeOK /\ ReservedNeverHandedOut
        /\ data \in [Page -> Nat] /\ table \in [Page -> Nat]
        /\ \A p \in Page : data[p] + table[p] <= 1
        /\ \A p \in Page : data[p] + table[p] = 1 => p \in used
    BY DEF Inv, TypeOK, NoDoubleAllocation
  <1>1. ASSUME UNCHANGED <<used, data, table>> PROVE PoolStep
    BY <1>1 DEF PoolStep, Held
  <1>2. ASSUME NEW S \in SUBSET FreeData, S # {}, used' = used \cup S,
               data' = Gain(data, S), table' = table
        PROVE  PoolStep
    <2>1. S \in SUBSET Page /\ S \cap used = {}
      BY DEF FreeData
    <2>2. ASSUME NEW p \in Page
          PROVE  data'[p] + table'[p] > 0 <=> (data[p] + table[p] > 0 \/ p \in S)
      BY <1>0, <1>2 DEF Gain
    <2>3. Held' = Held \cup S
      BY <2>1, <2>2 DEF Held
    <2>. QED
      BY <1>0, <1>2, <2>1, <2>3, LendStep DEF PoolStep
  <1>3. CASE pmm_alloc
    <2>1. ASSUME NEW p \in Page, IsLeast(p, FreeData), used' = used \cup {p},
                 data' = Gain(data, {p}), table' = table
          PROVE  PoolStep
      BY <2>1, <1>2 DEF IsLeast
    <2>. QED
      BY <1>1, <1>3, <2>1 DEF pmm_alloc, Panic
  <1>4. CASE pmm_alloc_pagetable
    <2>1. ASSUME NEW p \in Page, IsLeast(p, FreeTable), used' = used \cup {p},
                 table' = Gain(table, {p}), data' = data
          PROVE  PoolStep
      <3>1. p \notin used
        BY <2>1 DEF IsLeast, FreeTable
      <3>2. ASSUME NEW q \in Page
            PROVE  data'[q] + table'[q] > 0 <=> (data[q] + table[q] > 0 \/ q = p)
        BY <1>0, <2>1 DEF Gain
      <3>3. Held' = Held \cup {p}
        BY <3>2 DEF Held
      <3>. QED
        BY <1>0, <2>1, <3>1, <3>3, {p} # {}, {p} \in SUBSET Page, {p} \cap used = {},
           LendStep DEF PoolStep
    <2>. QED
      BY <1>1, <1>4, <2>1 DEF pmm_alloc_pagetable, Panic
  <1>5. ASSUME NEW count \in 1 .. MaxRange, pmm_alloc_range(count)
        PROVE  PoolStep
    <2>1. ASSUME NEW i \in Page, IsLeast(i, Starts(count)),
                 used' = used \cup ((i .. i + count - 1) \cap Page),
                 data' = Gain(data, i .. i + count - 1), table' = table
          PROVE  PoolStep
      <3>. DEFINE S == i .. i + count - 1
      <3>1. S \in SUBSET FreeData
        BY <1>0, <2>1, RangeIsFree DEF IsLeast
      <3>2. i \in S /\ S \cap Page = S
        BY <3>1 DEF FreeData, Page
      <3>. HIDE DEF S
      <3>3. used' = used \cup S /\ data' = Gain(data, S)
        BY <2>1, <3>2 DEF S
      <3>. QED
        BY <1>2, <2>1, <3>1, <3>2, <3>3
    <2>. QED
      BY <1>1, <1>5, <2>1 DEF pmm_alloc_range, vars
  <1>6. ASSUME NEW S \in SUBSET Page, S # {}, \A k \in S : data[k] > 0,
               used' = used \ S, data' = Drop(data, S), table' = table
        PROVE  PoolStep
    <2>1. ASSUME NEW p \in Page
          PROVE  data'[p] + table'[p] > 0 <=> (data[p] + table[p] > 0 /\ p \notin S)
      BY <1>0, <1>6 DEF Drop
    <2>2. S \in SUBSET Held /\ Held' = Held \ S
      BY <1>0, <1>6, <2>1 DEF Held
    <2>. QED
      BY <1>0, <1>6, <2>2, TakeBackStep DEF PoolStep
  <1>7. ASSUME NEW p \in Page, pmm_free_data(p) PROVE PoolStep
    BY <1>6, <1>7 DEF pmm_free_data
  <1>8. ASSUME NEW p \in Page, pmm_free_table(p) PROVE PoolStep
    <2>1. /\ table[p] > 0 /\ used' = used \ {p}
          /\ table' = Drop(table, {p}) /\ data' = data
      BY <1>8 DEF pmm_free_table
    <2>2. ASSUME NEW q \in Page
          PROVE  data'[q] + table'[q] > 0 <=> (data[q] + table[q] > 0 /\ q # p)
      BY <1>0, <2>1 DEF Drop
    <2>3. data[p] + table[p] > 0
      BY <1>0, <2>1
    <2>4. {p} \in SUBSET Held /\ Held' = Held \ {p}
      BY <2>2, <2>3 DEF Held
    <2>. QED
      BY <1>0, <2>1, <2>4, TakeBackStep DEF PoolStep
  <1>9. ASSUME NEW p \in Page, NEW count \in 1 .. MaxRange, pmm_free_range(p, count)
        PROVE  PoolStep
    <2>1. /\ (p .. p + count - 1) \in SUBSET Page
          /\ p \in p .. p + count - 1
      BY <1>9, LayoutAssumption DEF pmm_free_range, Page
    <2>. QED
      BY <1>6, <1>9, <2>1 DEF pmm_free_range
  <1>10. CASE UNCHANGED vars
    BY <1>1, <1>10 DEF vars
  <1>. QED
    BY <1>3, <1>4, <1>5, <1>7, <1>8, <1>9, <1>10 DEF Next

\* pmm.c implements the abstract allocator: every call lends pages that were free
\* or takes back pages that were lent, all of them and no others.
THEOREM PmmImplementsAllocator == Spec => ImplementsAllocator
  <1>1. Inv /\ [Next]_vars => [Pool!Next]_<<Page \ used, {p \in Page : data[p] + table[p] > 0}>>
    BY PoolNext DEF PoolStep, Held
  <1>. QED
    BY <1>1, PoolInit, PmmInvariant, PTL DEF Spec, ImplementsAllocator, Pool!Spec

=============================================================================
