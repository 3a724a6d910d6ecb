-------------------------------- MODULE Pmm --------------------------------
(***************************************************************************)
(* The physical page allocator, mckrnl/memory/pmm.c.                       *)
(*                                                                         *)
(* One bitmap covers the 4 GiB address space, one bit per 4 KiB page.      *)
(* pmm_init frees what the boot loader's memory map calls usable and then  *)
(* marks the kernel, the boot structures, the modules and page 0 used.     *)
(* The pages of the .paging section are set apart by a second, constant    *)
(* bitmap (the mask): pmm_alloc_pagetable takes only masked pages,         *)
(* pmm_alloc and pmm_alloc_range are meant to take only the others.        *)
(*                                                                         *)
(* The callers (vmm.c, scheduler.c, sys_mmap.c, sys_mmmap.c) are the       *)
(* environment: they free only pages they were given.                      *)
(*                                                                         *)
(* Abstraction.  Addresses and sizes are in pages.  The two 32-bit byte    *)
(* counters are kept in pages too, so they wrap at 2^32 / 4096 pages,      *)
(* which is the number of pages of the bitmap.                             *)
(*                                                                         *)
(* Definitions named Wrong_... are faulty variants of the definition that  *)
(* follows them.  No behaviour of Spec uses them; they show that the       *)
(* properties below can tell such a fault.                                 *)
(***************************************************************************)
EXTENDS Integers, FiniteSets

CONSTANTS
    NPages,       \* BITMAP_SIZE * 32
    KernelStart,  \* link.ld: kernel_start
    KernelEnd,    \* link.ld: kernel_end, which is also paging_start
    PagingEnd,    \* link.ld: paging_end
    Boots,        \* what the boot loader may hand over (see BootInfo)
    MaxRange      \* bound: the longest range a caller asks for

Page == 0 .. NPages - 1

Wrong_KernelPages == KernelStart .. KernelEnd - 2

KernelPages == KernelStart .. KernelEnd - 1

\* bitmap_pagetable_mask: link.ld puts .paging right behind the kernel.
Mask == KernelEnd .. PagingEnd - 1

\* One multiboot_mmap_t entry, its bounds in pages (64 bits wide in the code).
Section == [base : Nat, length : Nat, type : Nat]

\* The memory map, the page of the multiboot structure and of the module
\* table, the pages of the modules and of the framebuffer.
BootInfo == [mmap : SUBSET Section, info : Page, modtable : Page,
             modules : SUBSET Page, fb : SUBSET Page]

ASSUME LayoutAssumption ==
    /\ NPages \in Nat
    /\ KernelStart \in Nat /\ KernelEnd \in Nat /\ PagingEnd \in Nat
    /\ 0 < KernelStart /\ KernelStart < KernelEnd
    /\ KernelEnd <= PagingEnd /\ PagingEnd < NPages
    /\ MaxRange \in Nat \ {0}

ASSUME BootsAssumption == Boots \subseteq BootInfo

VARIABLES
    boot,         \* what was handed over at boot; constant afterwards
    used,         \* bitmap: the pages whose bit says used
    free_memory,  \* in pages, modulo NPages
    used_memory,  \* in pages, modulo NPages
    data,         \* for each page, by how many callers it is held as memory
    table,        \* ... and by how many as a page directory or page table
    overrun,      \* a scan has read a bit behind the end of the bitmap
    halted        \* the kernel has panicked

vars == <<boot, used, free_memory, used_memory, data, table, overrun, halted>>

----------------------------------------------------------------------------
(* pmm_init *)

Wrong_SectionEnd(s) ==
    IF s.base + s.length > NPages THEN NPages ELSE s.base + s.length

\* The loop over one memory map entry: what lies beyond 4 GiB is skipped, and
\* an entry that reaches 4 GiB is cut off at 0xfffff000, one page below it.
SectionEnd(s) ==
    IF s.base + s.length > NPages - 1 THEN NPages - 1 ELSE s.base + s.length

SectionPages(s) ==
    IF s.type # 1 \/ s.base > NPages - 1 THEN {} ELSE s.base .. SectionEnd(s) - 1

UsablePages(b) == UNION {SectionPages(s) : s \in b.mmap}

\* Pages passed to pmm_mark_used while booting.  The framebuffer is marked by
\* vmm_init, before anything but page tables has been allocated.
BootPages(b) == KernelPages \cup {b.info, b.modtable, 0} \cup b.modules \cup b.fb

ReservedPages(b) == (Page \ UsablePages(b)) \cup BootPages(b)

\* pmm_mark_used charges a page each time it is called, also for one that is
\* already used; used_memory is cleared between the two loops.
BootCharge(b) ==
    Cardinality(KernelPages) + 3 + Cardinality(b.modules) + Cardinality(b.fb)

pmm_init ==
    \E b \in Boots :
        /\ boot = b
        /\ used = ReservedPages(b)
        /\ free_memory = (Cardinality(UsablePages(b)) - BootCharge(b)) % NPages
        /\ used_memory = BootCharge(b) % NPages
        /\ data = [p \in Page |-> 0]
        /\ table = [p \in Page |-> 0]
        /\ overrun = FALSE
        /\ halted = FALSE

----------------------------------------------------------------------------
(* Allocation and release *)

pmm_usage_use(amount) ==
    /\ free_memory' = (free_memory - amount) % NPages
    /\ used_memory' = (used_memory + amount) % NPages

Wrong_usage_unuse(amount) ==
    /\ free_memory' = (free_memory + 1) % NPages
    /\ used_memory' = (used_memory - 1) % NPages

pmm_usage_unuse(amount) ==
    /\ free_memory' = (free_memory + amount) % NPages
    /\ used_memory' = (used_memory - amount) % NPages

Gain(refs, pages) == [p \in Page |-> IF p \in pages THEN refs[p] + 1 ELSE refs[p]]
Drop(refs, pages) == [p \in Page |-> IF p \in pages THEN refs[p] - 1 ELSE refs[p]]

\* The pages pmm_alloc and pmm_alloc_pagetable choose from.
FreeData == {p \in Page : p \notin used /\ p \notin Mask}
FreeTable == {p \in Page : p \notin used /\ p \in Mask}

IsLeast(p, S) == p \in S /\ \A q \in S : p <= q

\* abortf: the kernel prints the panic and stops.
Panic ==
    /\ halted' = TRUE
    /\ UNCHANGED <<boot, used, free_memory, used_memory, data, table, overrun>>

pmm_alloc ==
    /\ ~halted
    /\ \/ \E p \in Page :
            /\ IsLeast(p, FreeData)
            /\ used' = used \cup {p}
            /\ pmm_usage_use(1)
            /\ data' = Gain(data, {p})
            /\ UNCHANGED <<boot, table, overrun, halted>>
       \/ FreeData = {} /\ Panic

pmm_alloc_pagetable ==
    /\ ~halted
    /\ \/ \E p \in Page :
            /\ IsLeast(p, FreeTable)
            /\ used' = used \cup {p}
            /\ pmm_usage_use(1)
            /\ table' = Gain(table, {p})
            /\ UNCHANGED <<boot, data, overrun, halted>>
       \/ FreeTable = {} /\ Panic

Wrong_Rejected(i, count) == \E k \in i .. i + count - 2 : k \in used /\ k \notin Mask

\* The inner loop of pmm_alloc_range gives up a start page when it meets a
\* page that is used and not masked; a used page of the paging region does
\* not stop it.
Rejected(i, count) == \E k \in i .. i + count - 1 : k \in used /\ k \notin Mask

\* The start pages for which the inner loop runs to its end; it does not
\* compare i + j with the size of the bitmap.
Starts(count) == {i \in Page : i \in FreeData /\ ~ Rejected(i, count)}

pmm_alloc_range(count) ==
    /\ ~halted
    /\ ~overrun
    /\ \/ \E i \in Page :
            /\ IsLeast(i, Starts(count))
            /\ used' = used \cup ((i .. i + count - 1) \cap Page)
            /\ pmm_usage_use(count)
            /\ data' = Gain(data, i .. i + count - 1)
            /\ overrun' = (i + count > NPages)
            /\ UNCHANGED <<boot, table, halted>>
       \/ Starts(count) = {} /\ UNCHANGED vars    \* returns NULL

pmm_free_data(p) ==
    /\ ~halted
    /\ data[p] > 0
    /\ used' = used \ {p}
    /\ pmm_usage_unuse(1)
    /\ data' = Drop(data, {p})
    /\ UNCHANGED <<boot, table, overrun, halted>>

pmm_free_table(p) ==
    /\ ~halted
    /\ table[p] > 0
    /\ used' = used \ {p}
    /\ pmm_usage_unuse(1)
    /\ table' = Drop(table, {p})
    /\ UNCHANGED <<boot, data, overrun, halted>>

Wrong_free_range_short(p, count) ==
    /\ ~halted
    /\ p + count <= NPages
    /\ \A k \in p .. p + count - 1 : data[k] > 0
    /\ used' = used \ (p .. p + count - 2)
    /\ pmm_usage_unuse(count)
    /\ data' = Drop(data, p .. p + count - 1)
    /\ UNCHANGED <<boot, table, overrun, halted>>

pmm_free_range(p, count) ==
    /\ ~halted
    /\ p + count <= NPages
    /\ \A k \in p .. p + count - 1 : data[k] > 0
    /\ used' = used \ (p .. p + count - 1)
    /\ pmm_usage_unuse(count)
    /\ data' = Drop(data, p .. p + count - 1)
    /\ UNCHANGED <<boot, table, overrun, halted>>

----------------------------------------------------------------------------
Init == pmm_init

Next ==
    \/ pmm_alloc
    \/ pmm_alloc_pagetable
    \/ \E count \in 1 .. MaxRange : pmm_alloc_range(count)
    \/ \E p \in Page : pmm_free_data(p)
    \/ \E p \in Page : pmm_free_table(p)
    \/ \E p \in Page, count \in 1 .. MaxRange : pmm_free_range(p, count)

Spec == Init /\ [][Next]_vars

----------------------------------------------------------------------------
(* Properties *)

\* Every variable has its type; the page counters stay inside 32 bits.
TypeOK ==
    /\ boot \in Boots
    /\ used \subseteq Page
    /\ free_memory \in Page
    /\ used_memory \in Page
    /\ data \in [Page -> Nat]
    /\ table \in [Page -> Nat]
    /\ overrun \in BOOLEAN
    /\ halted \in BOOLEAN

\* No page is handed to two callers, whatever mix of pmm_alloc,
\* pmm_alloc_pagetable and pmm_alloc_range handed it out, and a page that is
\* held is marked used.
NoDoubleAllocation ==
    \A p \in Page : /\ data[p] + table[p] <= 1
                    /\ data[p] + table[p] = 1 => p \in used

\* The kernel image, page 0 (which callers read as NULL), the modules, the
\* framebuffer and memory that does not exist are never handed out.
ReservedNeverHandedOut ==
    \A p \in ReservedPages(boot) : p \in used /\ data[p] = 0 /\ table[p] = 0

\* pmm_alloc_range does not test the mask inside a range, yet no range ever
\* runs into the .paging section: page tables and memory never mix.
PagingRegionSeparate ==
    \A p \in Page : /\ data[p] > 0 => p \notin Mask
                    /\ table[p] > 0 => p \in Mask

\* The inner loop of pmm_alloc_range tests bits i + j without comparing them
\* with BITMAP_SIZE * 32; it never passes the end of the bitmap.
ScanStaysInBitmap == ~overrun

\* Nothing leaks inside the allocator: a used page is reserved or held.
UsedIsAccountedFor ==
    \A p \in used : p \in ReservedPages(boot) \/ data[p] + table[p] > 0

\* free_memory moves with the bitmap: their difference, fixed at boot, is
\* never changed by an allocation or a release (what sys_raminfo reports).
UsageTracksBitmap ==
    [][(free_memory' - Cardinality(Page \ used')) % NPages
         = (free_memory - Cardinality(Page \ used)) % NPages]_vars

Pool == INSTANCE Allocator
    WITH Item <- Page, free <- Page \ used, held <- {p \in Page : data[p] + table[p] > 0}

\* pmm.c is an allocator: from boot on every page is reserved, free or held, and
\* each call moves exactly the pages it hands out or takes back.  So neither the
\* kernel, page 0, the modules, the framebuffer nor memory that does not exist
\* is ever handed out, and nothing leaks inside the bitmap.
ImplementsAllocator == Pool!Spec

=============================================================================
