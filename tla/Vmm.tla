-------------------------------- MODULE Vmm --------------------------------
(***************************************************************************)
(* Address spaces: mckrnl/memory/vmm.c, and the code that builds and       *)
(* releases them: init_task, init_elf and exit_task of scheduler.c, the    *)
(* system calls mmap and mmmap, and the resource array of a task           *)
(* (resource.c), which lives in kernel pages of its own.                   *)
(*                                                                         *)
(* Kernel memory is mapped at its physical address, in page tables that    *)
(* every address space shares: a directory entry of the kernel is copied   *)
(* into the directories of all active tasks when it comes into being.      *)
(* A task's own pages lie in directory entries the kernel does not use.    *)
(*                                                                         *)
(* Abstraction.  Addresses are page numbers.  A page table is named by the *)
(* directory entry it hangs in; `tables` counts the pages of the .paging   *)
(* section in use.  Frames are handed out first fit, as in Pmm.  The parts *)
(* of init_elf are steps, but nothing else runs between them (`call`).     *)
(* The content of memory is left out.                                      *)
(***************************************************************************)
EXTENDS Integers, FiniteSets, Sequences

CONSTANTS
    NFrames,     \* frames of memory, 0 .. NFrames - 1
    Reserved,    \* frames marked used and mapped at boot: page 0, the kernel
    PerTable,    \* entries of a page table (1024)
    Offset,      \* USER_SPACE_OFFSET, behind all frames
    UserPage,    \* pages a program may ask for with mmap and mmmap
    Images,      \* ELF images: sequences of segments [virt, pages]
    Slot,        \* the task table
    KStack,      \* KERNEL_STACK_SIZE_PAGES
    UStack,      \* USER_STACK_SIZE_PAGES
    PerPage,     \* entries of a resource array in one page (512)
    MaxTables,   \* pages of the .paging section
    MaxPid,      \* bound: processes ever created
    MaxStrings,  \* bound: argv and envp strings of one program
    MaxResources, \* bound: entries of a resource array
    MaxShared,   \* bound: frames that mmmap ever maps
    MaxLeaks     \* bound: mmap is not called when so many frames are lost

Frame == 0 .. NFrames - 1
Dir(v) == v \div PerTable
Dirs(pages) == {Dir(v) : v \in pages}

ASSUME VmmAssumption ==
    /\ NFrames \in Nat /\ PerTable \in Nat \ {0} /\ Offset \in Nat
    /\ Reserved \subseteq Frame /\ 0 \in Reserved
    /\ Dir(Offset) > Dir(NFrames)
    /\ UserPage \subseteq Nat /\ Slot \subseteq Nat /\ IsFiniteSet(Slot)
    /\ KStack \in 1 .. NFrames /\ UStack \in 1 .. NFrames /\ PerPage \in Nat \ {0}
    /\ MaxResources \in Nat /\ MaxResources \div PerPage < NFrames
    /\ \A image \in Images : image \in Seq([virt : Nat, pages : Nat])

VARIABLES
    used,       \* frames whose bit is set
    tables,     \* pages taken by pmm_alloc_pagetable and not freed
    kmap,       \* pages present in kernel_context
    tasks,      \* the task table
    current_pid, \* the next pid
    call,       \* init_elf at work: the slot and what is left to do
    exhausted,  \* an allocation has returned NULL, and its caller uses that
    shared,     \* history: the frames mmmap has mapped, until they are freed
    doomed,     \* history: frames freed while something still used them
    halted      \* abortf

vars == <<used, tables, kmap, tasks, current_pid, call, exhausted,
          shared, doomed, halted>>

\* seen: directory entries copied from the kernel.  own: entries with a table
\* of the task's own.  map: what those tables say.  stack: the kernel stack.
\* array: the frames of the resource array.
NoTask == [active |-> FALSE, seen |-> {}, own |-> {}, map |-> [v \in {} |-> 0], stack |-> {},
           array |-> {}, num_resources |-> 0]

Idle == [slot |-> -1, segments |-> <<>>, strings |-> 0]

Active == {t \in Slot : tasks[t].active}
kdir == Dirs(kmap)

\* After a panic, or once NULL is used as an address, nothing more is modelled.
Running == ~halted /\ ~exhausted

----------------------------------------------------------------------------
(* Allocation *)

Starts(u, n) == {i \in Frame : i + n <= NFrames /\ (i .. i + n - 1) \cap u = {}}

\* pmm_alloc_range: the first fit, or NULL, which its callers use as an address.
Fits(u, n) == Starts(u, n) # {}
First(u, n) == IF Fits(u, n) THEN CHOOSE i \in Starts(u, n) : \A j \in Starts(u, n) : i <= j
                             ELSE 0
Block(u, n) == First(u, n) .. First(u, n) + n - 1
Marked(u, n) == IF Fits(u, n) THEN u \cup Block(u, n) ELSE u

Wrong_MapInKernel(tk, pages) == tk

\* vmm_map_page into kernel_context: a directory entry that is new is copied
\* into the directory of every active task, whatever the task had there.
MapInKernel(tk, pages) ==
    LET new == Dirs(pages) \ kdir
    IN  [t \in Slot |->
            IF tk[t].active
            THEN [tk[t] EXCEPT
                    !.seen = @ \cup new,
                    !.own = @ \ new,
                    !.map = [v \in {w \in DOMAIN @ : Dir(w) \notin new} |-> @[v]]]
            ELSE tk[t]]

\* vmm_map_page into the context of a task, for the pages of m.
Overlay(m, map) == [v \in DOMAIN m \cup DOMAIN map |-> IF v \in DOMAIN m THEN m[v] ELSE map[v]]

MapPages(task, m) == [task EXCEPT !.own = @ \cup Dirs(DOMAIN m), !.map = Overlay(m, @)]

MapPage(task, v, f) == MapPages(task, [u \in {v} |-> f])

\* ... which panics where the kernel has a table; every new table takes a page.
Overlaps(pages) == Dirs(pages) \cap kdir # {}

TakeTables(n) == tables' = tables + n

Halt ==
    /\ halted' = TRUE
    /\ UNCHANGED <<used, tables, kmap, tasks, current_pid, call, exhausted, shared, doomed>>

----------------------------------------------------------------------------
(* Release *)

MappedBy(task) == {task.map[v] : v \in DOMAIN task.map}

\* Who relies on which frame: mapped pages, stacks and arrays.
Users(tk) ==
    UNION {{<<"page", t, v, tk[t].map[v]>> : v \in DOMAIN tk[t].map}
             \cup {<<"stack", t, 0, f>> : f \in tk[t].stack}
             \cup {<<"array", t, 0, f>> : f \in tk[t].array} : t \in Slot}

UsedFrames(users) == {u[4] : u \in users}

\* Frames in use that nothing names any more.
Leaked == used \ (Reserved \cup UsedFrames(Users(tasks)))

\* pmm_free of all frames of a set.
Release(frames) ==
    /\ used' = used \ frames
    /\ shared' = shared \ frames
    /\ doomed' = doomed \cup (frames \cap UsedFrames(Users(tasks')))

----------------------------------------------------------------------------
(* Processes *)

\* init_task: the kernel stack and the user stack are kernel memory; then the
\* context is created, takes over the kernel's entries and maps the user stack.
init_task(t) ==
    LET stack == Block(used, KStack)
        user_stack == Block(Marked(used, KStack), UStack)
        kernel == stack \cup user_stack
        fresh == MapPages([NoTask EXCEPT !.active = TRUE, !.seen = kdir \cup Dirs(kernel),
                                         !.stack = stack],
                          [v \in {f + Offset : f \in user_stack} |-> v - Offset])
        new == Cardinality(Dirs(kernel) \ kdir) + 2 + Cardinality(fresh.own)
    IN  IF tables + new > MaxTables THEN Halt
        ELSE /\ used' = Marked(Marked(used, KStack), UStack)
             /\ exhausted' = (exhausted \/ ~ Fits(used, KStack)
                                        \/ ~ Fits(Marked(used, KStack), UStack))
             /\ kmap' = kmap \cup kernel
             /\ tasks' = [MapInKernel(tasks, kernel) EXCEPT ![t] = fresh]
             /\ TakeTables(new)
             /\ current_pid' = current_pid + 1
             /\ UNCHANGED <<shared, doomed, halted>>

\* sys_spawn of a program with so many strings in argv and envp.
init_elf(image, strings) ==
    /\ Running /\ call = Idle
    /\ Active # Slot /\ current_pid < MaxPid
    /\ LET t == CHOOSE s \in Slot \ Active : \A r \in Slot \ Active : s <= r
       IN  /\ init_task(t)
           /\ halted' \/ call' = [slot |-> t, segments |-> image, strings |-> strings + 2]

\* What vmm_lookup finds in the new context.
Present(v) == v \in DOMAIN tasks[call.slot].map \/ v \in kmap

Wrong_Missing(s) == s.virt .. s.virt + s.pages - 1

\* The pages of a segment that get memory; those that are present keep theirs
\* and the frame allocated for them is freed.
Missing(s) == {v \in s.virt .. s.virt + s.pages - 1 : ~ Present(v)}

Surplus(s, first) == {first + (v - s.virt) : v \in {w \in s.virt .. s.virt + s.pages - 1 : Present(w)}}

\* One program header: memory in one piece, mapped where nothing is mapped
\* yet; frames that are not needed are freed.
LoadSegment ==
    /\ Running /\ call.segments # <<>>
    /\ LET s == Head(call.segments)
           first == First(used, s.pages)
           task == MapPages(tasks[call.slot], [v \in Missing(s) |-> first + (v - s.virt)])
           new == Cardinality(task.own \ tasks[call.slot].own)
       IN  IF Overlaps(Missing(s)) \/ tables + new > MaxTables THEN Halt
           ELSE /\ used' = Marked(used, s.pages) \ Surplus(s, first)
                /\ exhausted' = (exhausted \/ ~ Fits(used, s.pages))
                /\ tasks' = [tasks EXCEPT ![call.slot] = task]
                /\ TakeTables(new)
                /\ call' = [call EXCEPT !.segments = Tail(@)]
                /\ UNCHANGED <<kmap, current_pid, shared, doomed, halted>>

\* One page for argv, for envp or for a string: kernel memory that the new
\* task sees at the offset.
CopyString ==
    /\ Running /\ call # Idle /\ call.segments = <<>>
    /\ LET page == Block(used, 1)
           there == MapInKernel(tasks, page)
           task == MapPages(there[call.slot], [v \in {f + Offset : f \in page} |-> v - Offset])
           new == Cardinality(Dirs(page) \ kdir) + Cardinality(task.own \ there[call.slot].own)
       IN  IF tables + new > MaxTables THEN Halt
           ELSE /\ used' = Marked(used, 1)
                /\ exhausted' = (exhausted \/ ~ Fits(used, 1))
                /\ kmap' = kmap \cup page
                /\ tasks' = [there EXCEPT ![call.slot] = task]
                /\ TakeTables(new)
                /\ call' = IF call.strings = 1 THEN Idle
                           ELSE [call EXCEPT !.strings = @ - 1]
                /\ UNCHANGED <<current_pid, shared, doomed, halted>>

\* The pages vmm_resize takes for n entries, and those resource_dealloc frees.
SizePages(n) == n \div PerPage + 1
TO_PAGES(n) == (n + PerPage - 1) \div PerPage

ArrayFreed(task) ==
    {f \in task.array : \E first \in task.array :
        /\ \A g \in task.array : first <= g
        /\ f < first + TO_PAGES(task.num_resources)}

Wrong_exit_task(t) ==
    /\ Running /\ call = Idle
    /\ tasks[t].active
    /\ tasks' = [tasks EXCEPT ![t] = NoTask]
    /\ tables' = tables - 2
    /\ UNCHANGED <<kmap, current_pid, call, exhausted, halted>>
    /\ Release(ArrayFreed(tasks[t]) \cup MappedBy(tasks[t]) \cup tasks[t].stack)

\* exit_task: the resource array, everything in the task's own tables, the
\* tables, the directory and the context, the kernel stack.  The user stack
\* and the strings are freed as mapped pages.
exit_task(t) ==
    /\ Running /\ call = Idle
    /\ tasks[t].active
    /\ tasks' = [tasks EXCEPT ![t] = NoTask]
    /\ tables' = tables - Cardinality(tasks[t].own) - 2
    /\ UNCHANGED <<kmap, current_pid, call, exhausted, halted>>
    /\ Release(ArrayFreed(tasks[t]) \cup MappedBy(tasks[t]) \cup tasks[t].stack)

----------------------------------------------------------------------------
(* System calls and kernel memory *)

\* mmap of a page: a page that is mapped already is replaced and never freed.
\* At an address inside a page nothing is mapped, and the frame stays used.
sys_mmap(t, v) ==
    /\ Running /\ call = Idle
    /\ tasks[t].active
    /\ Cardinality(Leaked) < MaxLeaks
    /\ LET f == First(used, 1)
           task == MapPage(tasks[t], v, f)
           new == Cardinality(task.own \ tasks[t].own)
       IN  IF ~ Fits(used, 1) \/ Overlaps({v}) \/ tables + new > MaxTables THEN Halt
           ELSE /\ used' = used \cup {f}
                /\ \/ tasks' = [tasks EXCEPT ![t] = task] /\ TakeTables(new)
                   \/ UNCHANGED <<tasks, tables>>    \* misaligned
                /\ UNCHANGED <<kmap, current_pid, call, exhausted, shared, doomed, halted>>

\* mmmap: one frame in the caller's and in another task's address space.  With
\* a pid that is gone the call faults after the first of the two, which is the
\* end of the caller and of its mappings: exit_task.
sys_mmmap(t, v, r, w) ==
    /\ Running /\ call = Idle
    /\ {t, r} \subseteq Active
    /\ Cardinality(shared \cup doomed) < MaxShared
    /\ LET f == First(used, 1)
           local == [tasks EXCEPT ![t] = MapPage(@, v, f)]
           both == [local EXCEPT ![r] = MapPage(@, w, f)]
           new == IF t = r THEN Cardinality(both[t].own \ tasks[t].own)
                  ELSE Cardinality(both[t].own \ tasks[t].own)
                         + Cardinality(both[r].own \ tasks[r].own)
       IN  IF ~ Fits(used, 1) \/ Overlaps({v, w}) \/ tables + new > MaxTables THEN Halt
           ELSE /\ used' = used \cup {f}
                /\ tasks' = both
                /\ TakeTables(new)
                /\ shared' = shared \cup {f}
                /\ UNCHANGED <<kmap, current_pid, call, exhausted, doomed, halted>>

\* resource_register_self when no entry is free: vmm_resize by one entry.
resource_register_self(t) ==
    /\ Running /\ call = Idle
    /\ tasks[t].active /\ tasks[t].num_resources < MaxResources
    /\ LET n == tasks[t].num_resources
           pages == SizePages(n + 1)
           array == IF n > 0 /\ pages = SizePages(n) THEN tasks[t].array ELSE Block(used, pages)
           grows == array # tasks[t].array
           new == Cardinality(Dirs(array) \ kdir)
       IN  IF tables + new > MaxTables THEN Halt
           ELSE /\ tasks' = [MapInKernel(tasks, array) EXCEPT
                                ![t].array = array, ![t].num_resources = n + 1]
                /\ used' = IF grows THEN Marked(used, pages) \ tasks[t].array ELSE used
                /\ exhausted' = (exhausted \/ (grows /\ ~ Fits(used, pages)))
                /\ kmap' = kmap \cup array
                /\ TakeTables(new)
                /\ UNCHANGED <<current_pid, call, shared, doomed, halted>>

----------------------------------------------------------------------------
Init ==
    /\ used = Reserved
    /\ kmap = Reserved
    /\ tables = 2 + Cardinality(Dirs(Reserved))
    /\ tasks = [t \in Slot |-> NoTask]
    /\ current_pid = 0
    /\ call = Idle
    /\ exhausted = FALSE
    /\ shared = {}
    /\ doomed = {}
    /\ halted = FALSE

Next ==
    \/ \E image \in Images, strings \in 0 .. MaxStrings : init_elf(image, strings)
    \/ LoadSegment
    \/ CopyString
    \/ \E t \in Slot : exit_task(t) \/ resource_register_self(t)
    \/ \E t \in Slot, v \in UserPage : sys_mmap(t, v)
    \/ \E t, r \in Slot, v, w \in UserPage : sys_mmmap(t, v, r, w)

Spec == Init /\ [][Next]_vars

----------------------------------------------------------------------------
(* Properties *)

\* vmm_map_page copies new kernel tables only into tasks that are active at
\* that moment and vmm_clone_kernel_context runs once: still every active task
\* has all of the kernel in its directory, and none of its own tables is in a
\* kernel entry, so that a system call or interrupt finds its data.
KernelInEverySpace ==
    \A t \in Active : tasks[t].seen = kdir /\ tasks[t].own \cap kdir = {}

\* A frame that a task or the kernel relies on is marked used and has that one
\* user, except that a frame shared by mmmap has several until the first of
\* its tasks ends; from then on (doomed) it may be freed again in the hands of
\* its next owner.  The damage stays with such frames.  Once an allocation has
\* returned NULL (exhausted) its callers use page 0, and nothing is promised.
FramesHaveOneOwner ==
    ~exhausted =>
        LET users == Users(tasks)
        IN  /\ UsedFrames(users) \subseteq (used \ Reserved) \cup doomed
            /\ \A a, b \in users : a # b /\ a[4] = b[4] => a[4] \in shared \cup doomed

OwnTables == UNION {{<<t, d>> : d \in tasks[t].own} : t \in Slot}

\* Pages of the .paging section nothing names any more.
LeakedTables == tables - 2 - 2 * Cardinality(Active) - Cardinality(OwnTables) - Cardinality(kdir)

\* The end of a task leaves nothing of it behind: no frame, no table, not even
\* when segments overlap, the array has moved or mmmap has shared a page.  The
\* one exception is the last page of a resource array that exactly fills its
\* pages, which vmm_resize has allocated and resource_dealloc does not count.
ExitLeavesNothing ==
    [][\A t \in Active : ~ tasks'[t].active =>
            /\ Leaked' \ Leaked \subseteq
                   IF tasks[t].num_resources % PerPage = 0 THEN tasks[t].array ELSE {}
            /\ LeakedTables' = LeakedTables]_vars

=============================================================================
