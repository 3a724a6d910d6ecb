------------------------------ MODULE VmmProofs ------------------------------
(***************************************************************************)
(* Proofs about address spaces, for every amount of memory, every size of  *)
(* page tables, stacks and images, and any number of tasks.                *)
(***************************************************************************)
EXTENDS Vmm, FiniteSetTheorems, TLAPS

Maps == UNION {[S -> Int] : S \in SUBSET Int}

Tasks ==
    [active : BOOLEAN, seen : SUBSET Int, own : SUBSET Int, map : Maps, stack : SUBSET Frame,
     array : SUBSET Frame, num_resources : Nat]

TypeOK ==
    /\ tasks \in [Slot -> Tasks]
    /\ kmap \subseteq Frame
    /\ call = Idle \/ call.slot \in Slot
    /\ call \in [slot : Int, segments : Seq([virt : Nat, pages : Nat]), strings : Int]

----------------------------------------------------------------------------
(* Lemmas about numbers and directory entries *)

\* A set of numbers has a least one.
LEMMA LeastNumber ==
    ASSUME NEW T, T \subseteq Nat, T # {}
    PROVE  \E i \in T : \A j \in T : i <= j
  <1>1. PICK i \in T : \A j \in T : ~ (<<j, i>> \in OpToRel(<, Nat))
    BY WFMin, NatLessThanWellFounded
  <1>2. ASSUME NEW j \in T
        PROVE  i <= j
    <2>1. i \in Nat /\ j \in Nat
      OBVIOUS
    <2>2. ~ (<<j, i>> \in OpToRel(<, Nat))
      BY <1>1
    <2>. QED
      BY <2>1, <2>2 DEF OpToRel
  <1>. QED
    BY <1>2

\* Division keeps the order.
LEMMA DivMonotone ==
    ASSUME NEW a \in Int, NEW b \in Int, NEW p \in Nat \ {0}, a <= b
    PROVE  a \div p <= b \div p
  <1>. DEFINE q == a \div p
              r == b \div p
  <1>1. q \in Int /\ r \in Int
    OBVIOUS
  <1>2. p * q <= a /\ b < p * r + p
    <2>1. a = p * q + (a % p) /\ a % p \in 0 .. p - 1
      OBVIOUS
    <2>2. b = p * r + (b % p) /\ b % p \in 0 .. p - 1
      OBVIOUS
    <2>3. p * q \in Int /\ p * r \in Int
      BY <1>1
    <2>. HIDE DEF q, r
    <2>. QED
      BY <2>1, <2>2, <2>3
  <1>. HIDE DEF q, r
  <1>3. p * q < p * r + p
    BY <1>1, <1>2
  <1>4. q < r + 1
    <2>. SUFFICES ASSUME q >= r + 1
                  PROVE  FALSE
      BY <1>1
    <2>1. PICK d \in Nat : q = r + 1 + d
      <3>1. q - r - 1 \in Nat /\ q = r + 1 + (q - r - 1)
        BY <1>1
      <3>. QED
        BY <3>1
    <2>2. p * q = p * r + p + p * d /\ p * d \in Nat /\ p * r \in Int
      BY <1>1, <2>1
    <2>. QED
      BY <1>3, <2>2
  <1>5. q <= r
    BY <1>1, <1>4
  <1>. QED
    BY <1>5 DEF q, r

LEMMA DirsType == ASSUME NEW S, S \subseteq Int PROVE Dirs(S) \subseteq Int
  BY VmmAssumption DEF Dirs, Dir

\* Kernel memory and the offset addresses of frames have no entry in common.
LEMMA OffsetApart ==
    ASSUME NEW S, S \subseteq Frame, NEW T, T \subseteq Frame
    PROVE  Dirs(S) \cap Dirs({f + Offset : f \in T}) = {}
  <1>. SUFFICES ASSUME NEW f \in Frame, NEW g \in Frame, Dir(f) = Dir(g + Offset)
                PROVE  FALSE
    BY DEF Dirs
  <1>1. /\ NFrames \in Nat /\ PerTable \in Nat \ {0} /\ Offset \in Nat
        /\ f \in Int /\ g \in Int /\ f <= NFrames /\ Offset <= g + Offset /\ g + Offset \in Int
    BY VmmAssumption DEF Frame
  <1>2. Dir(f) <= Dir(NFrames) /\ Dir(Offset) <= Dir(g + Offset)
    BY <1>1, DivMonotone DEF Dir
  <1>3. Dir(f) \in Int /\ Dir(NFrames) \in Int /\ Dir(Offset) \in Int /\ Dir(g + Offset) \in Int
    BY <1>1 DEF Dir
  <1>. QED
    BY <1>2, <1>3, VmmAssumption

----------------------------------------------------------------------------
(* Lemmas about the operators on memory and tasks *)

\* What pmm_alloc_range returns is free, and in memory; also when it returns
\* NULL its callers stay in memory.
LEMMA RangeIsFree ==
    ASSUME NEW u, NEW n \in Nat
    PROVE  /\ n <= NFrames => Block(u, n) \subseteq Frame
           /\ Fits(u, n) => Block(u, n) \cap u = {}
           /\ First(u, n) \in Nat
  <1>1. NFrames \in Nat
    BY VmmAssumption
  <1>2. CASE Fits(u, n)
    <2>1. Starts(u, n) \subseteq Nat /\ Starts(u, n) # {}
      BY <1>1, <1>2 DEF Starts, Fits, Frame
    <2>2. \E i \in Starts(u, n) : \A j \in Starts(u, n) : i <= j
      BY <2>1, LeastNumber
    <2>3. First(u, n) \in Starts(u, n)
      BY <1>2, <2>2 DEF First
    <2>. QED
      BY <1>1, <2>1, <2>3 DEF Starts, Block, Frame
  <1>3. CASE ~ Fits(u, n)
    BY <1>1, <1>3 DEF Block, First, Frame
  <1>. QED
    BY <1>2, <1>3

LEMMA MapHas ==
    ASSUME NEW m \in Maps
    PROVE  /\ DOMAIN m \subseteq Int
           /\ \A v \in DOMAIN m : m[v] \in Int
  <1>1. PICK S \in SUBSET Int : m \in [S -> Int]
    BY DEF Maps
  <1>. QED
    BY <1>1

LEMMA OverlayType ==
    ASSUME NEW m \in Maps, NEW map \in Maps
    PROVE  Overlay(m, map) \in Maps
  <1>1. DOMAIN m \subseteq Int /\ DOMAIN map \subseteq Int
    BY MapHas
  <1>2. \A v \in DOMAIN m : m[v] \in Int
    BY MapHas
  <1>3. \A v \in DOMAIN map : map[v] \in Int
    BY MapHas
  <1>4. Overlay(m, map) \in [DOMAIN m \cup DOMAIN map -> Int]
    BY <1>2, <1>3 DEF Overlay
  <1>. QED
    BY <1>1, <1>4 DEF Maps

\* Mapping pages in a task changes its own tables and its map, nothing else.
LEMMA MapPagesDoes ==
    ASSUME NEW task \in Tasks, NEW m \in Maps
    PROVE  /\ MapPages(task, m) \in Tasks
           /\ MapPages(task, m).own = task.own \cup Dirs(DOMAIN m)
           /\ MapPages(task, m).map = Overlay(m, task.map)
           /\ MapPages(task, m).active = task.active /\ MapPages(task, m).seen = task.seen
           /\ MapPages(task, m).stack = task.stack /\ MapPages(task, m).array = task.array
           /\ MapPages(task, m).num_resources = task.num_resources
  <1>1. Overlay(m, task.map) \in Maps
    BY OverlayType DEF Tasks
  <1>2. Dirs(DOMAIN m) \subseteq Int
    BY DirsType, MapHas
  <1>. QED
    BY <1>1, <1>2 DEF MapPages, Tasks

\* New kernel pages reach every active task, and drive its own out of their
\* directory entries.
LEMMA MapInKernelDoes ==
    ASSUME NEW tk \in [Slot -> Tasks], NEW pages, pages \subseteq Frame
    PROVE  /\ MapInKernel(tk, pages) \in [Slot -> Tasks]
           /\ \A t \in Slot :
                LET new == MapInKernel(tk, pages)[t]
                IN  /\ new.active = tk[t].active
                    /\ new.stack = tk[t].stack /\ new.array = tk[t].array
                    /\ new.num_resources = tk[t].num_resources /\ new.own \subseteq tk[t].own
                    /\ DOMAIN new.map \subseteq DOMAIN tk[t].map
                    /\ \A v \in DOMAIN new.map : new.map[v] = tk[t].map[v]
                    /\ tk[t].active => /\ new.seen = tk[t].seen \cup (Dirs(pages) \ kdir)
                                       /\ new.own = tk[t].own \ (Dirs(pages) \ kdir)
  <1>. DEFINE fresh == Dirs(pages) \ kdir
              kept(map) == [v \in {w \in DOMAIN map : Dir(w) \notin fresh} |-> map[v]]
  <1>1. fresh \subseteq Int
    <2>1. pages \subseteq Int
      BY DEF Frame
    <2>. QED
      BY <2>1, DirsType
  <1>2. \A map \in Maps : kept(map) \in Maps
    <2>. TAKE map \in Maps
    <2>1. DOMAIN map \subseteq Int /\ \A v \in DOMAIN map : map[v] \in Int
      BY MapHas
    <2>2. kept(map) \in [{w \in DOMAIN map : Dir(w) \notin fresh} -> Int]
      BY <2>1
    <2>. QED
      BY <2>1, <2>2 DEF Maps
  <1>. DEFINE after(task) == [task EXCEPT !.seen = @ \cup fresh, !.own = @ \ fresh, !.map = kept(@)]
  <1>3. \A t \in Slot : MapInKernel(tk, pages)[t] = IF tk[t].active THEN after(tk[t]) ELSE tk[t]
    BY DEF MapInKernel
  <1>4. DOMAIN MapInKernel(tk, pages) = Slot
    BY DEF MapInKernel
  <1>. HIDE DEF fresh
  <1>5. \A task \in Tasks : after(task) \in Tasks
    BY <1>1, <1>2 DEF Tasks
  <1>6. MapInKernel(tk, pages) \in [Slot -> Tasks]
    <2>1. \A t \in Slot : MapInKernel(tk, pages)[t] \in Tasks
      BY <1>3, <1>5
    <2>2. MapInKernel(tk, pages) = [t \in Slot |-> MapInKernel(tk, pages)[t]]
      BY DEF MapInKernel
    <2>. QED
      BY <2>1, <2>2
  <1>7. ASSUME NEW t \in Slot
        PROVE  LET new == MapInKernel(tk, pages)[t]
               IN  /\ new.active = tk[t].active
                   /\ new.stack = tk[t].stack /\ new.array = tk[t].array
                   /\ new.num_resources = tk[t].num_resources /\ new.own \subseteq tk[t].own
                   /\ DOMAIN new.map \subseteq DOMAIN tk[t].map
                   /\ \A v \in DOMAIN new.map : new.map[v] = tk[t].map[v]
                   /\ tk[t].active => new.seen = tk[t].seen \cup fresh /\ new.own = tk[t].own \ fresh
    <2>0. tk[t] \in Tasks
      OBVIOUS
    <2>1. CASE tk[t].active
      <3>1. MapInKernel(tk, pages)[t] = after(tk[t])
        BY <1>3, <2>1
      <3>2. /\ after(tk[t]).active = tk[t].active
            /\ after(tk[t]).stack = tk[t].stack /\ after(tk[t]).array = tk[t].array
            /\ after(tk[t]).num_resources = tk[t].num_resources
            /\ after(tk[t]).seen = tk[t].seen \cup fresh
            /\ after(tk[t]).own = tk[t].own \ fresh
            /\ after(tk[t]).map = kept(tk[t].map)
        BY <2>0 DEF Tasks
      <3>3. /\ DOMAIN kept(tk[t].map) \subseteq DOMAIN tk[t].map
            /\ \A v \in DOMAIN kept(tk[t].map) : kept(tk[t].map)[v] = tk[t].map[v]
        OBVIOUS
      <3>. HIDE DEF after, kept
      <3>. QED
        BY <3>1, <3>2, <3>3
    <2>2. CASE ~ tk[t].active
      BY <1>3, <2>2
    <2>. QED
      BY <2>1, <2>2
  <1>. QED
    BY <1>6, <1>7 DEF fresh

----------------------------------------------------------------------------
(* The kernel in every address space *)

SpaceInv == TypeOK /\ KernelInEverySpace

\* A task table in which every active task has the kernel with these pages.
Spans(tk, pages) ==
    /\ tk \in [Slot -> Tasks]
    /\ \A t \in Slot : tk[t].active => tk[t].seen = Dirs(pages) /\ tk[t].own \cap Dirs(pages) = {}

LEMMA SpaceIsSpans == SpaceInv => Spans(tasks, kmap)
  BY DEF SpaceInv, TypeOK, KernelInEverySpace, Active, kdir, Spans

LEMMA DirsUnion == \A S, T : Dirs(S \cup T) = Dirs(S) \cup Dirs(T)
  BY DEF Dirs

\* MapInKernel keeps them together.
LEMMA KernelSpans ==
    ASSUME Spans(tasks, kmap), NEW pages, pages \subseteq Frame
    PROVE  Spans(MapInKernel(tasks, pages), kmap \cup pages)
  <1>1. MapInKernel(tasks, pages) \in [Slot -> Tasks]
    BY MapInKernelDoes DEF Spans
  <1>2. ASSUME NEW t \in Slot, MapInKernel(tasks, pages)[t].active
        PROVE  /\ MapInKernel(tasks, pages)[t].seen = Dirs(kmap \cup pages)
               /\ MapInKernel(tasks, pages)[t].own \cap Dirs(kmap \cup pages) = {}
    <2>1. /\ tasks[t].active
          /\ MapInKernel(tasks, pages)[t].seen = tasks[t].seen \cup (Dirs(pages) \ kdir)
          /\ MapInKernel(tasks, pages)[t].own = tasks[t].own \ (Dirs(pages) \ kdir)
      BY <1>2, MapInKernelDoes DEF Spans
    <2>2. tasks[t].seen = kdir /\ tasks[t].own \cap kdir = {}
      BY <2>1 DEF Spans, kdir
    <2>3. Dirs(kmap \cup pages) = kdir \cup Dirs(pages)
      BY DirsUnion DEF kdir
    <2>. QED
      BY <2>1, <2>2, <2>3
  <1>. QED
    BY <1>1, <1>2 DEF Spans

\* So does mapping pages of a task where the kernel has none.
LEMMA TaskSpans ==
    ASSUME NEW tk, NEW pages, Spans(tk, pages), NEW t \in Slot, NEW m \in Maps,
           Dirs(DOMAIN m) \cap Dirs(pages) = {}
    PROVE  Spans([tk EXCEPT ![t] = MapPages(tk[t], m)], pages)
  <1>1. tk[t] \in Tasks
    BY DEF Spans
  <1>2. /\ MapPages(tk[t], m) \in Tasks
        /\ MapPages(tk[t], m).own = tk[t].own \cup Dirs(DOMAIN m)
        /\ MapPages(tk[t], m).active = tk[t].active
        /\ MapPages(tk[t], m).seen = tk[t].seen
    BY <1>1, MapPagesDoes
  <1>. QED
    BY <1>2 DEF Spans

\* The pages at the offset, as init_task and CopyString map them.
AtOffset(frames) == [v \in {f + Offset : f \in frames} |-> v - Offset]

LEMMA AtOffsetType ==
    ASSUME NEW frames, frames \subseteq Frame
    PROVE  AtOffset(frames) \in Maps /\ DOMAIN AtOffset(frames) = {f + Offset : f \in frames}
  <1>1. Offset \in Int /\ Frame \subseteq Int
    BY VmmAssumption DEF Frame
  <1>2. {f + Offset : f \in frames} \in SUBSET Int
    BY <1>1
  <1>3. AtOffset(frames) \in [{f + Offset : f \in frames} -> Int]
    BY <1>1, <1>2 DEF AtOffset
  <1>4. DOMAIN AtOffset(frames) = {f + Offset : f \in frames}
    BY DEF AtOffset
  <1>. QED
    BY <1>2, <1>3, <1>4 DEF Maps

LEMMA NoTaskType == NoTask \in Tasks
  <1>1. [v \in {} |-> 0] \in Maps
    <2>1. [v \in {} |-> 0] \in [{} -> Int]
      OBVIOUS
    <2>. QED
      BY <2>1 DEF Maps
  <1>. DEFINE none == [v \in {} |-> 0]
  <1>2. none \in Maps
    BY <1>1
  <1>. HIDE DEF none
  <1>3. [active |-> FALSE, seen |-> {}, own |-> {}, map |-> none, stack |-> {},
         array |-> {}, num_resources |-> 0] \in Tasks
    BY <1>2 DEF Tasks
  <1>. QED
    BY <1>3 DEF NoTask, none

\* A new task: its stacks are kernel memory for everybody else, and it begins
\* with all of the kernel.
InitStack == Block(used, KStack)
InitUserStack == Block(Marked(used, KStack), UStack)
InitKernel == InitStack \cup InitUserStack
InitBase == [NoTask EXCEPT !.active = TRUE, !.seen = kdir \cup Dirs(InitKernel), !.stack = InitStack]
InitFresh == MapPages(InitBase, AtOffset(InitUserStack))

LEMMA InitTaskIs ==
    ASSUME NEW t, init_task(t)
    PROVE  \/ Halt
           \/ /\ tasks' = [MapInKernel(tasks, InitKernel) EXCEPT ![t] = InitFresh]
              /\ kmap' = kmap \cup InitKernel
              /\ used' = Marked(Marked(used, KStack), UStack)
              /\ exhausted' = (exhausted \/ ~ Fits(used, KStack)
                                         \/ ~ Fits(Marked(used, KStack), UStack))
              /\ tables' = tables + (Cardinality(Dirs(InitKernel) \ kdir) + 2 + Cardinality(InitFresh.own))
              /\ UNCHANGED <<shared, doomed, halted>>
  BY DEF init_task, TakeTables, InitStack, InitUserStack, InitKernel, InitBase, InitFresh, AtOffset

LEMMA InitFreshType ==
    ASSUME TypeOK
    PROVE  /\ InitKernel \subseteq Frame /\ InitStack \subseteq Frame /\ InitUserStack \subseteq Frame
           /\ InitBase \in Tasks /\ InitFresh \in Tasks
           /\ InitFresh.seen = Dirs(kmap \cup InitKernel)
           /\ InitFresh.own = Dirs({f + Offset : f \in InitUserStack})
           /\ InitFresh.map = Overlay(AtOffset(InitUserStack), NoTask.map)
           /\ InitFresh.stack = InitStack /\ InitFresh.array = {}
           /\ InitFresh.active /\ InitFresh.num_resources = 0
  <1>1. KStack \in Nat /\ UStack \in Nat /\ KStack <= NFrames /\ UStack <= NFrames
    BY VmmAssumption
  <1>2. InitStack \subseteq Frame /\ InitUserStack \subseteq Frame
    BY <1>1, RangeIsFree DEF InitStack, InitUserStack
  <1>3. InitKernel \subseteq Frame
    BY <1>2 DEF InitKernel
  <1>4. kdir \cup Dirs(InitKernel) = Dirs(kmap \cup InitKernel)
    BY DirsUnion DEF kdir
  <1>5. kdir \cup Dirs(InitKernel) \subseteq Int
    <2>1. kmap \cup InitKernel \subseteq Int
      BY <1>3 DEF TypeOK, Frame
    <2>. QED
      BY <1>4, <2>1, DirsType
  <1>6. /\ InitBase \in Tasks
        /\ InitBase.seen = kdir \cup Dirs(InitKernel) /\ InitBase.own = NoTask.own
        /\ InitBase.map = NoTask.map /\ InitBase.stack = InitStack /\ InitBase.array = NoTask.array
        /\ InitBase.active /\ InitBase.num_resources = NoTask.num_resources
    BY <1>2, <1>5, NoTaskType DEF InitBase, Tasks
  <1>7. NoTask.own = {} /\ NoTask.array = {} /\ NoTask.num_resources = 0
    BY DEF NoTask
  <1>8. AtOffset(InitUserStack) \in Maps /\ DOMAIN AtOffset(InitUserStack) = {f + Offset : f \in InitUserStack}
    BY <1>2, AtOffsetType
  <1>9. /\ InitFresh \in Tasks
        /\ InitFresh.own = InitBase.own \cup Dirs(DOMAIN AtOffset(InitUserStack))
        /\ InitFresh.map = Overlay(AtOffset(InitUserStack), InitBase.map)
        /\ InitFresh.seen = InitBase.seen
        /\ InitFresh.stack = InitBase.stack /\ InitFresh.array = InitBase.array
        /\ InitFresh.active = InitBase.active /\ InitFresh.num_resources = InitBase.num_resources
    BY <1>6, <1>8, MapPagesDoes DEF InitFresh
  <1>. QED
    BY <1>2, <1>3, <1>4, <1>6, <1>7, <1>8, <1>9, Zenon

LEMMA InitTaskSpans ==
    ASSUME SpaceInv, NEW t \in Slot, init_task(t), ~Halt
    PROVE  Spans(tasks', kmap') /\ kmap' \subseteq Frame
  <1>1. TypeOK /\ Spans(tasks, kmap) /\ InitKernel \subseteq Frame
    BY InitFreshType, SpaceIsSpans DEF SpaceInv
  <1>2. /\ tasks' = [MapInKernel(tasks, InitKernel) EXCEPT ![t] = InitFresh]
        /\ kmap' = kmap \cup InitKernel
    BY InitTaskIs
  <1>3. Spans(MapInKernel(tasks, InitKernel), kmap')
    BY <1>1, <1>2, KernelSpans
  <1>4. kmap' \subseteq Frame
    BY <1>1, <1>2 DEF TypeOK
  <1>5. Dirs(kmap') \cap Dirs({f + Offset : f \in InitUserStack}) = {}
    BY <1>1, <1>4, OffsetApart, InitFreshType
  <1>6. InitFresh \in Tasks /\ InitFresh.seen = Dirs(kmap') /\ InitFresh.own \cap Dirs(kmap') = {}
    BY <1>1, <1>2, <1>5, InitFreshType
  <1>. QED
    BY <1>2, <1>3, <1>4, <1>6 DEF Spans

\* A segment: Head is taken, and its missing pages are mapped.
Segment == Head(call.segments)
SegmentFirst == First(used, Segment.pages)
SegmentMap == [v \in Missing(Segment) |-> SegmentFirst + (v - Segment.virt)]

LEMMA LoadSegmentIs ==
    ASSUME LoadSegment
    PROVE  \/ Halt
           \/ /\ ~ Overlaps(Missing(Segment))
              /\ used' = Marked(used, Segment.pages) \ Surplus(Segment, SegmentFirst)
              /\ exhausted' = (exhausted \/ ~ Fits(used, Segment.pages))
              /\ tasks' = [tasks EXCEPT ![call.slot] = MapPages(tasks[call.slot], SegmentMap)]
              /\ call' = [call EXCEPT !.segments = Tail(@)]
              /\ tables' = tables + Cardinality(MapPages(tasks[call.slot], SegmentMap).own
                                                 \ tasks[call.slot].own)
              /\ UNCHANGED <<kmap, shared, doomed, halted>>
  BY DEF LoadSegment, TakeTables, Segment, SegmentFirst, SegmentMap

LEMMA SegmentType ==
    ASSUME TypeOK, call.segments # <<>>
    PROVE  /\ Segment \in [virt : Nat, pages : Nat]
           /\ Tail(call.segments) \in Seq([virt : Nat, pages : Nat])
           /\ call.slot \in Slot
           /\ SegmentFirst \in Nat
           /\ SegmentMap \in Maps /\ DOMAIN SegmentMap = Missing(Segment)
  <1>1. call.segments \in Seq([virt : Nat, pages : Nat])
    BY DEF TypeOK
  <1>2. /\ Segment \in [virt : Nat, pages : Nat]
        /\ Tail(call.segments) \in Seq([virt : Nat, pages : Nat])
    <2>1. \A S : \A q \in Seq(S) : q # <<>> => Head(q) \in S /\ Tail(q) \in Seq(S)
      OBVIOUS
    <2>. QED
      BY <1>1, <2>1, Zenon DEF Segment
  <1>3. call.slot \in Slot
    BY DEF TypeOK, Idle
  <1>4. SegmentFirst \in Nat
    BY <1>2, RangeIsFree DEF SegmentFirst
  <1>5. Missing(Segment) \in SUBSET Int
    BY <1>2 DEF Missing
  <1>6. SegmentMap \in [Missing(Segment) -> Int]
    BY <1>2, <1>4, <1>5 DEF SegmentMap
  <1>. QED
    BY <1>2, <1>3, <1>4, <1>5, <1>6 DEF Maps

LEMMA LoadSegmentSpans ==
    ASSUME SpaceInv, LoadSegment, ~Halt
    PROVE  SpaceInv'
  <1>0. TypeOK /\ Spans(tasks, kmap) /\ call.segments # <<>>
    BY SpaceIsSpans DEF SpaceInv, LoadSegment
  <1>1. /\ Dirs(Missing(Segment)) \cap Dirs(kmap) = {}
        /\ tasks' = [tasks EXCEPT ![call.slot] = MapPages(tasks[call.slot], SegmentMap)]
        /\ call' = [call EXCEPT !.segments = Tail(@)]
        /\ kmap' = kmap
    BY LoadSegmentIs DEF Overlaps, kdir
  <1>2. /\ call.slot \in Slot /\ SegmentMap \in Maps /\ DOMAIN SegmentMap = Missing(Segment)
        /\ Tail(call.segments) \in Seq([virt : Nat, pages : Nat])
    BY <1>0, SegmentType
  <1>3. Spans(tasks', kmap')
    BY <1>0, <1>1, <1>2, TaskSpans
  <1>4. /\ call' \in [slot : Int, segments : Seq([virt : Nat, pages : Nat]), strings : Int]
        /\ call'.slot \in Slot
    BY <1>0, <1>1, <1>2 DEF TypeOK
  <1>. QED
    BY <1>0, <1>1, <1>3, <1>4 DEF SpaceInv, TypeOK, KernelInEverySpace, Active, kdir, Spans

\* A string: a page of kernel memory, which the new task has at the offset.
StringPage == Block(used, 1)
StringThere == MapInKernel(tasks, StringPage)

LEMMA CopyStringIs ==
    ASSUME CopyString
    PROVE  \/ Halt
           \/ /\ used' = Marked(used, 1)
              /\ exhausted' = (exhausted \/ ~ Fits(used, 1))
              /\ kmap' = kmap \cup StringPage
              /\ tasks' = [StringThere EXCEPT ![call.slot] =
                               MapPages(StringThere[call.slot], AtOffset(StringPage))]
              /\ call' = IF call.strings = 1 THEN Idle ELSE [call EXCEPT !.strings = @ - 1]
              /\ tables' = tables +
                     (Cardinality(Dirs(StringPage) \ kdir)
                        + Cardinality(MapPages(StringThere[call.slot], AtOffset(StringPage)).own
                                        \ StringThere[call.slot].own))
              /\ UNCHANGED <<shared, doomed, halted>>
  BY DEF CopyString, TakeTables, StringPage, StringThere, AtOffset

LEMMA StringPageType == StringPage \subseteq Frame
  <1>1. 1 \in Nat /\ 1 <= NFrames
    BY VmmAssumption DEF Frame
  <1>. QED
    BY <1>1, RangeIsFree DEF StringPage

LEMMA IdleType == Idle \in [slot : Int, segments : Seq([virt : Nat, pages : Nat]), strings : Int]
  BY DEF Idle

LEMMA CopyStringSpans ==
    ASSUME SpaceInv, CopyString, ~Halt
    PROVE  SpaceInv'
  <1>0. TypeOK /\ Spans(tasks, kmap) /\ call # Idle
    BY SpaceIsSpans DEF SpaceInv, CopyString
  <1>1. /\ kmap' = kmap \cup StringPage
        /\ tasks' = [StringThere EXCEPT ![call.slot] =
                         MapPages(StringThere[call.slot], AtOffset(StringPage))]
        /\ call' = IF call.strings = 1 THEN Idle ELSE [call EXCEPT !.strings = @ - 1]
    BY CopyStringIs
  <1>2. kmap' \subseteq Frame
    BY <1>0, <1>1, StringPageType DEF TypeOK
  <1>3. Spans(StringThere, kmap')
    BY <1>0, <1>1, StringPageType, KernelSpans DEF StringThere
  <1>4. /\ AtOffset(StringPage) \in Maps
        /\ Dirs(DOMAIN AtOffset(StringPage)) \cap Dirs(kmap') = {}
    BY <1>2, StringPageType, AtOffsetType, OffsetApart
  <1>5. call.slot \in Slot
    BY <1>0 DEF TypeOK
  <1>6. Spans(tasks', kmap')
    BY <1>1, <1>3, <1>4, <1>5, TaskSpans
  <1>7. /\ call' \in [slot : Int, segments : Seq([virt : Nat, pages : Nat]), strings : Int]
        /\ call' = Idle \/ call'.slot \in Slot
    <2>1. CASE call.strings = 1
      BY <1>1, <2>1, IdleType
    <2>2. CASE call.strings # 1
      <3>1. call' = [call EXCEPT !.strings = @ - 1]
        BY <1>1, <2>2
      <3>2. call \in [slot : Int, segments : Seq([virt : Nat, pages : Nat]), strings : Int]
        BY <1>0 DEF TypeOK
      <3>. QED
        BY <1>5, <3>1, <3>2
    <2>. QED
      BY <2>1, <2>2
  <1>. QED
    BY <1>2, <1>6, <1>7 DEF SpaceInv, TypeOK, KernelInEverySpace, Active, kdir, Spans

\* One page in a task.
LEMMA PageMap ==
    ASSUME NEW v \in Nat, NEW f \in Nat
    PROVE  [u \in {v} |-> f] \in Maps /\ DOMAIN [u \in {v} |-> f] = {v}
  <1>1. {v} \in SUBSET Int
    OBVIOUS
  <1>2. [u \in {v} |-> f] \in [{v} -> Int]
    OBVIOUS
  <1>. QED
    BY <1>1, <1>2 DEF Maps

LEMMA PageSpans ==
    ASSUME NEW tk, NEW pages, Spans(tk, pages), NEW t \in Slot, NEW v \in Nat, NEW f \in Nat,
           Dir(v) \notin Dirs(pages)
    PROVE  Spans([tk EXCEPT ![t] = MapPage(tk[t], v, f)], pages)
  <1>1. Dirs({v}) \cap Dirs(pages) = {}
    BY DEF Dirs
  <1>. DEFINE m == [u \in {v} |-> f]
  <1>2. m \in Maps /\ DOMAIN m = {v}
    BY PageMap
  <1>. HIDE DEF m
  <1>3. Spans([tk EXCEPT ![t] = MapPages(tk[t], m)], pages)
    BY <1>1, <1>2, TaskSpans
  <1>. QED
    BY <1>3 DEF MapPage, m

\* The frame of mmap and mmmap.
OneFrame == First(used, 1)

LEMMA OneFrameFree ==
    /\ OneFrame \in Nat
    /\ Fits(used, 1) => OneFrame \notin used
  <1>1. OneFrame \in Nat /\ (Fits(used, 1) => Block(used, 1) \cap used = {})
    BY RangeIsFree DEF OneFrame
  <1>2. OneFrame \in Block(used, 1)
    BY <1>1 DEF Block, OneFrame
  <1>. QED
    BY <1>1, <1>2

LEMMA MmapIs ==
    ASSUME NEW t \in Slot, NEW v \in UserPage, sys_mmap(t, v)
    PROVE  \/ Halt
           \/ /\ Fits(used, 1) /\ ~ Overlaps({v})
              /\ used' = used \cup {OneFrame}
              /\ \/ /\ tasks' = [tasks EXCEPT ![t] = MapPage(tasks[t], v, OneFrame)]
                    /\ tables' = tables + Cardinality(MapPage(tasks[t], v, OneFrame).own \ tasks[t].own)
                 \/ tasks' = tasks /\ tables' = tables
              /\ UNCHANGED <<kmap, call, exhausted, shared, doomed, halted>>
  BY DEF sys_mmap, TakeTables, OneFrame

LEMMA MmapSpans ==
    ASSUME SpaceInv, NEW t \in Slot, NEW v \in UserPage, sys_mmap(t, v), ~Halt
    PROVE  SpaceInv'
  <1>1. TypeOK /\ Spans(tasks, kmap) /\ v \in Nat
    BY SpaceIsSpans, VmmAssumption DEF SpaceInv
  <1>2. Dir(v) \notin Dirs(kmap)
    BY MmapIs DEF Overlaps, Dirs, kdir
  <1>3. Spans([tasks EXCEPT ![t] = MapPage(tasks[t], v, OneFrame)], kmap)
    BY <1>1, <1>2, PageSpans, OneFrameFree
  <1>4. Spans(tasks', kmap')
    BY <1>1, <1>3, MmapIs
  <1>5. UNCHANGED <<kmap, call>>
    BY MmapIs
  <1>. QED
    BY <1>1, <1>4, <1>5 DEF SpaceInv, TypeOK, KernelInEverySpace, Active, kdir, Spans

\* mmmap: first the caller, then the other task.
MmmapLocal(t, v) == [tasks EXCEPT ![t] = MapPage(tasks[t], v, OneFrame)]
MmmapBoth(t, v, r, w) ==
    [MmmapLocal(t, v) EXCEPT ![r] = MapPage(MmmapLocal(t, v)[r], w, OneFrame)]
MmmapTables(t, r, both) ==
    IF t = r THEN Cardinality(both[t].own \ tasks[t].own)
    ELSE Cardinality(both[t].own \ tasks[t].own) + Cardinality(both[r].own \ tasks[r].own)

LEMMA MmmapIs ==
    ASSUME TypeOK, NEW t \in Slot, NEW v \in UserPage, NEW r \in Slot, NEW w \in UserPage,
           sys_mmmap(t, v, r, w)
    PROVE  \/ Halt
           \/ /\ Fits(used, 1) /\ ~ Overlaps({v, w})
              /\ used' = used \cup {OneFrame}
              /\ tasks' = MmmapBoth(t, v, r, w)
              /\ shared' = shared \cup {OneFrame}
              /\ tables' = tables + MmmapTables(t, r, MmmapBoth(t, v, r, w))
              /\ UNCHANGED <<kmap, call, exhausted, doomed, halted>>
  <1>1. [tasks EXCEPT ![t] = MapPage(@, v, OneFrame)] = MmmapLocal(t, v)
    BY DEF MmmapLocal
  <1>2. [MmmapLocal(t, v) EXCEPT ![r] = MapPage(@, w, OneFrame)] = MmmapBoth(t, v, r, w)
    BY DEF MmmapBoth
  <1>. QED
    BY <1>1, <1>2 DEF sys_mmmap, TakeTables, MmmapTables, OneFrame

LEMMA MmmapSpans ==
    ASSUME SpaceInv, NEW t \in Slot, NEW v \in UserPage, NEW r \in Slot, NEW w \in UserPage,
           sys_mmmap(t, v, r, w), ~Halt
    PROVE  SpaceInv'
  <1>1. TypeOK /\ Spans(tasks, kmap) /\ v \in Nat /\ w \in Nat /\ OneFrame \in Nat
    BY SpaceIsSpans, VmmAssumption, OneFrameFree DEF SpaceInv
  <1>2. /\ ~ Overlaps({v, w}) /\ tasks' = MmmapBoth(t, v, r, w) /\ kmap' = kmap /\ call' = call
    BY <1>1, MmmapIs
  <1>3. Dir(v) \notin Dirs(kmap) /\ Dir(w) \notin Dirs(kmap)
    BY <1>2 DEF Overlaps, Dirs, kdir
  <1>4. Spans(MmmapLocal(t, v), kmap)
    BY <1>1, <1>3, PageSpans DEF MmmapLocal
  <1>5. Spans(tasks', kmap)
    BY <1>1, <1>2, <1>3, <1>4, PageSpans DEF MmmapBoth
  <1>. QED
    BY <1>1, <1>2, <1>5 DEF SpaceInv, TypeOK, KernelInEverySpace, Active, kdir, Spans

\* The resource array grows in place, or a larger one is allocated.
GrownArray(t) ==
    LET n == tasks[t].num_resources
        pages == SizePages(n + 1)
    IN  IF n > 0 /\ pages = SizePages(n) THEN tasks[t].array ELSE Block(used, pages)

LEMMA ResourceIs ==
    ASSUME NEW t \in Slot, resource_register_self(t)
    PROVE  \/ Halt
           \/ /\ tasks' = [MapInKernel(tasks, GrownArray(t)) EXCEPT
                              ![t].array = GrownArray(t),
                              ![t].num_resources = tasks[t].num_resources + 1]
              /\ LET pages == SizePages(tasks[t].num_resources + 1)
                     grows == GrownArray(t) # tasks[t].array
                 IN  /\ used' = IF grows THEN Marked(used, pages) \ tasks[t].array ELSE used
                     /\ exhausted' = (exhausted \/ (grows /\ ~ Fits(used, pages)))
              /\ kmap' = kmap \cup GrownArray(t)
              /\ tables' = tables + Cardinality(Dirs(GrownArray(t)) \ kdir)
              /\ UNCHANGED <<call, shared, doomed, halted>>
  BY DEF resource_register_self, TakeTables, GrownArray

LEMMA GrownArrayType ==
    ASSUME TypeOK, NEW t \in Slot, resource_register_self(t)
    PROVE  /\ GrownArray(t) \subseteq Frame
           /\ SizePages(tasks[t].num_resources + 1) \in Nat
  <1>1. /\ tasks[t].num_resources \in Nat /\ tasks[t].array \subseteq Frame
        /\ tasks[t].num_resources < MaxResources
    BY DEF TypeOK, Tasks, resource_register_self
  <1>2. /\ MaxResources \in Nat /\ PerPage \in Nat \ {0} /\ NFrames \in Nat
        /\ MaxResources \div PerPage < NFrames
    BY VmmAssumption
  <1>. DEFINE n == tasks[t].num_resources + 1
  <1>3. n \in Nat /\ n <= MaxResources
    BY <1>1, <1>2
  <1>. HIDE DEF n
  <1>4. n \div PerPage <= MaxResources \div PerPage
    BY <1>2, <1>3, DivMonotone
  <1>5. n \div PerPage \in Nat /\ MaxResources \div PerPage \in Nat
    BY <1>2, <1>3
  <1>6. SizePages(n) \in Nat /\ SizePages(n) <= NFrames
    BY <1>2, <1>4, <1>5 DEF SizePages
  <1>7. Block(used, SizePages(n)) \subseteq Frame
    BY <1>6, RangeIsFree
  <1>. QED
    BY <1>1, <1>6, <1>7 DEF GrownArray, n

LEMMA ResourceSpans ==
    ASSUME SpaceInv, NEW t \in Slot, resource_register_self(t), ~Halt
    PROVE  SpaceInv'
  <1>. DEFINE array == GrownArray(t)
              there == MapInKernel(tasks, array)
  <1>1. TypeOK /\ Spans(tasks, kmap) /\ array \subseteq Frame
    BY SpaceIsSpans, GrownArrayType DEF SpaceInv
  <1>2. /\ tasks' = [there EXCEPT ![t].array = array,
                                  ![t].num_resources = tasks[t].num_resources + 1]
        /\ kmap' = kmap \cup array /\ call' = call
    BY ResourceIs
  <1>3. Spans(there, kmap')
    BY <1>1, <1>2, KernelSpans
  <1>4. tasks[t].num_resources + 1 \in Nat
    BY <1>1 DEF TypeOK, Tasks
  <1>5. kmap' \subseteq Frame
    BY <1>1, <1>2 DEF TypeOK
  <1>. HIDE DEF array, there
  <1>6. there \in [Slot -> Tasks]
    BY <1>3 DEF Spans
  <1>7. /\ tasks' \in [Slot -> Tasks]
        /\ \A u \in Slot : /\ tasks'[u].active = there[u].active
                           /\ tasks'[u].seen = there[u].seen /\ tasks'[u].own = there[u].own
    BY <1>1, <1>2, <1>4, <1>6 DEF Tasks
  <1>8. Spans(tasks', kmap')
    BY <1>3, <1>7 DEF Spans
  <1>. QED
    BY <1>1, <1>2, <1>5, <1>8 DEF SpaceInv, TypeOK, KernelInEverySpace, Active, kdir, Spans

LEMMA ExitSpans ==
    ASSUME SpaceInv, NEW t \in Slot, exit_task(t)
    PROVE  SpaceInv'
  <1>1. tasks' = [tasks EXCEPT ![t] = NoTask] /\ UNCHANGED <<kmap, call>>
    BY DEF exit_task
  <1>2. NoTask \in Tasks /\ ~ NoTask.active
    BY NoTaskType DEF NoTask
  <1>. QED
    BY <1>1, <1>2 DEF SpaceInv, TypeOK, KernelInEverySpace, Active, kdir

LEMMA InitElfSpans ==
    ASSUME SpaceInv, NEW image \in Images, NEW strings \in 0 .. MaxStrings, init_elf(image, strings), ~Halt
    PROVE  SpaceInv' /\ \E t \in Slot : init_task(t)
  <1>. DEFINE t == CHOOSE s \in Slot \ Active : \A r \in Slot \ Active : s <= r
  <1>1. init_task(t) /\ (halted' \/ call' = [slot |-> t, segments |-> image, strings |-> strings + 2])
    BY DEF init_elf
  <1>2. t \in Slot
    <2>1. Slot \ Active # {} /\ Slot \ Active \subseteq Nat
      BY VmmAssumption DEF init_elf, Active
    <2>. QED
      BY <2>1, LeastNumber
  <1>. HIDE DEF t
  <1>3. Spans(tasks', kmap') /\ kmap' \subseteq Frame
    BY <1>1, <1>2, InitTaskSpans
  <1>4. ~halted'
    BY <1>1, InitTaskIs DEF init_elf, Running
  <1>5. image \in Seq([virt : Nat, pages : Nat]) /\ strings + 2 \in Int /\ t \in Int
    BY <1>2, VmmAssumption
  <1>6. call'.slot \in Slot /\ call' \in [slot : Int, segments : Seq([virt : Nat, pages : Nat]), strings : Int]
    BY <1>1, <1>2, <1>4, <1>5
  <1>. QED
    BY <1>1, <1>2, <1>3, <1>6 DEF SpaceInv, TypeOK, KernelInEverySpace, Active, kdir, Spans

LEMMA SpaceInit == Init => SpaceInv
  BY NoTaskType, IdleType, VmmAssumption
     DEF Init, SpaceInv, TypeOK, KernelInEverySpace, Active, NoTask

LEMMA SpaceNext == SpaceInv /\ [Next]_vars => SpaceInv'
  <1>. SUFFICES ASSUME SpaceInv, [Next]_vars
                PROVE  SpaceInv'
    OBVIOUS
  <1>1. CASE Halt \/ UNCHANGED vars
    BY <1>1 DEF Halt, vars, SpaceInv, TypeOK, KernelInEverySpace, Active, kdir
  <1>2. CASE ~Halt /\ Next
    BY <1>2, InitElfSpans, LoadSegmentSpans, CopyStringSpans, ExitSpans, ResourceSpans, MmapSpans,
       MmmapSpans DEF Next
  <1>. QED
    BY <1>1, <1>2

\* Every active task has the whole kernel in its directory and no table of
\* its own in the kernel's entries, however memory grows while tasks come and
\* go: vmm_map_page's copying into the active tasks is enough.
THEOREM VmmKernelInEverySpace == Spec => []KernelInEverySpace
  BY SpaceInit, SpaceNext, PTL DEF Spec, SpaceInv

----------------------------------------------------------------------------
(* One owner for each frame *)

\* The users of frames among the pages, stack and array of a task.
UsersIn(t, task) ==
    {<<"page", t, v, task.map[v]>> : v \in DOMAIN task.map}
      \cup {<<"stack", t, 0, f>> : f \in task.stack}
      \cup {<<"array", t, 0, f>> : f \in task.array}

LEMMA UsersAre == \A tk : Users(tk) = UNION {UsersIn(t, tk[t]) : t \in Slot}
  BY DEF Users, UsersIn

LEMMA UserOf == \A tk : \A a : a \in Users(tk) <=> \E t \in Slot : a \in UsersIn(t, tk[t])
  BY UsersAre

\* The invariant, of a set of users and of the sets used, shared and doomed.
\* Beyond the property: what mmmap shares is used, or doomed, and is never a
\* stack or an array, which are freed without a look at who else is there.
Owned(users, u, sh, dm) ==
    /\ Reserved \subseteq u /\ dm \cap Reserved = {}
    /\ sh \subseteq u \cup dm
    /\ \A a \in users : a[4] \in (u \ Reserved) \cup dm
    /\ \A a, b \in users : a # b /\ a[4] = b[4] => a[4] \in sh \cup dm
    /\ \A a \in users : a[1] \in {"stack", "array"} => a[4] \notin sh \ dm

OwnerInv == SpaceInv /\ (~exhausted => Owned(Users(tasks), used, shared, doomed))

\* Frames that were free get their first user.
LEMMA OwnedAlloc ==
    ASSUME NEW old, NEW u, NEW sh, NEW dm, Owned(old, u, sh, dm),
           NEW users, NEW u2, u \subseteq u2,
           \A a \in users : a \in old \/ (a[4] \notin u /\ a[4] \in u2),
           \A a, b \in users : a \notin old /\ b \notin old /\ a[4] = b[4] => a = b
    PROVE  Owned(users, u2, sh, dm)
  <1>1. \A a \in users : a[4] \in (u2 \ Reserved) \cup dm
    BY DEF Owned
  <1>2. ASSUME NEW a \in users, NEW b \in users, a # b, a[4] = b[4]
        PROVE  a[4] \in sh \cup dm
    <2>1. CASE a \in old /\ b \in old
      BY <1>2, <2>1 DEF Owned
    <2>2. CASE a \notin old /\ b \in old
      BY <1>2, <2>2 DEF Owned
    <2>3. CASE a \in old /\ b \notin old
      BY <1>2, <2>3 DEF Owned
    <2>. QED
      BY <1>2, <2>1, <2>2, <2>3
  <1>3. \A a \in users : a[1] \in {"stack", "array"} => a[4] \notin sh \ dm
    BY DEF Owned
  <1>. QED
    BY <1>1, <1>2, <1>3 DEF Owned

\* A free frame gets several users, none of them a stack or an array.
LEMMA OwnedShare ==
    ASSUME NEW old, NEW u, NEW sh, NEW dm, Owned(old, u, sh, dm),
           NEW users, NEW f, f \notin u,
           \A a \in users : a \in old \/ (a[4] = f /\ a[1] = "page")
    PROVE  Owned(users, u \cup {f}, sh \cup {f}, dm)
  <1>1. \A a \in users : a[4] \in ((u \cup {f}) \ Reserved) \cup dm
    BY DEF Owned
  <1>2. \A a, b \in users : a # b /\ a[4] = b[4] => a[4] \in (sh \cup {f}) \cup dm
    BY DEF Owned
  <1>3. ASSUME NEW a \in users, a[1] \in {"stack", "array"}
        PROVE  a[4] \notin (sh \cup {f}) \ dm
    <2>1. a \in old
      BY <1>3
    <2>. QED
      BY <1>3, <2>1 DEF Owned
  <1>. QED
    BY <1>1, <1>2, <1>3 DEF Owned

\* Users go and their frames are freed.
LEMMA OwnedRelease ==
    ASSUME NEW old, NEW u, NEW sh, NEW dm, Owned(old, u, sh, dm),
           NEW users, users \subseteq old, NEW frames,
           \A f \in frames : \E a \in old : a[4] = f
    PROVE  Owned(users, u \ frames, sh \ frames, dm \cup (frames \cap UsedFrames(users)))
  <1>. DEFINE dm2 == dm \cup (frames \cap UsedFrames(users))
  <1>1. frames \cap Reserved = {}
    BY DEF Owned
  <1>2. \A a \in users : a[4] \in frames => a[4] \in dm2
    BY DEF UsedFrames
  <1>3. dm \subseteq dm2 /\ dm2 \subseteq dm \cup frames
    OBVIOUS
  <1>. HIDE DEF dm2
  <1>4. Reserved \subseteq u \ frames /\ dm2 \cap Reserved = {} /\ sh \ frames \subseteq (u \ frames) \cup dm2
    BY <1>1, <1>3 DEF Owned
  <1>5. \A a \in users : a[4] \in ((u \ frames) \ Reserved) \cup dm2
    BY <1>2, <1>3 DEF Owned
  <1>6. \A a, b \in users : a # b /\ a[4] = b[4] => a[4] \in (sh \ frames) \cup dm2
    BY <1>2, <1>3 DEF Owned
  <1>7. \A a \in users : a[1] \in {"stack", "array"} => a[4] \notin (sh \ frames) \ dm2
    BY <1>3 DEF Owned
  <1>. QED
    BY <1>4, <1>5, <1>6, <1>7 DEF Owned, dm2

\* The array of slot t leaves the frames of array for frames that were free.
ArrayMoves(old, u, users, u2, t, array) ==
    /\ u \subseteq u2
    /\ \A f \in array : <<"array", t, 0, f>> \in old
    /\ \A a \in users :
          \/ a \in old /\ ~ (a[1] = "array" /\ a[2] = t)
          \/ a[4] \notin u /\ a[4] \in u2 /\ a[1] = "array" /\ a[2] = t /\ a[3] = 0
             /\ a = <<"array", t, 0, a[4]>>

\* Then the old frames can be freed.
LEMMA OwnedMove ==
    ASSUME NEW old, NEW u, NEW sh, NEW dm, Owned(old, u, sh, dm),
           NEW users, NEW u2, NEW t, NEW array, ArrayMoves(old, u, users, u2, t, array)
    PROVE  Owned(users, u2 \ array, sh, dm)
  <1>. /\ u \subseteq u2
       /\ \A f \in array : <<"array", t, 0, f>> \in old
       /\ \A a \in users :
             \/ a \in old /\ ~ (a[1] = "array" /\ a[2] = t)
             \/ a[4] \notin u /\ a[4] \in u2 /\ a[1] = "array" /\ a[2] = t /\ a[3] = 0
                /\ a = <<"array", t, 0, a[4]>>
    BY DEF ArrayMoves
  <1>1. ASSUME NEW f \in array
        PROVE  f \in (u \ Reserved) \cup dm /\ f \notin sh \ dm
    <2>. DEFINE b == <<"array", t, 0, f>>
    <2>1. b \in old /\ b[4] = f /\ b[1] = "array"
      OBVIOUS
    <2>. HIDE DEF b
    <2>. QED
      BY <2>1 DEF Owned
  <1>2. ASSUME NEW a \in users, a \in old, ~ (a[1] = "array" /\ a[2] = t), a[4] \in array
        PROVE  a[4] \in dm
    <2>. DEFINE b == <<"array", t, 0, a[4]>>
    <2>1. b \in old /\ b[4] = a[4] /\ b[1] = "array" /\ b[2] = t
      BY <1>2
    <2>. HIDE DEF b
    <2>2. a # b
      BY <1>2, <2>1
    <2>3. a[4] \in sh \cup dm
      BY <1>2, <2>1, <2>2 DEF Owned
    <2>. QED
      BY <1>1, <1>2, <2>3
  <1>3. Reserved \subseteq u2 \ array /\ dm \cap Reserved = {} /\ sh \subseteq (u2 \ array) \cup dm
    BY <1>1 DEF Owned
  <1>4. ASSUME NEW a \in users
        PROVE  a[4] \in ((u2 \ array) \ Reserved) \cup dm
    <2>1. CASE a \in old /\ ~ (a[1] = "array" /\ a[2] = t)
      BY <1>2, <2>1 DEF Owned
    <2>2. CASE a[4] \notin u /\ a[4] \in u2
      BY <1>1, <2>2 DEF Owned
    <2>. QED
      BY <2>1, <2>2
  <1>5. ASSUME NEW a \in users, NEW b \in users, a # b, a[4] = b[4]
        PROVE  a[4] \in sh \cup dm
    <2>1. CASE a \in old /\ b \in old
      BY <1>5, <2>1 DEF Owned
    <2>2. CASE a \notin old /\ b \in old
      BY <1>5, <2>2 DEF Owned
    <2>3. CASE a \in old /\ b \notin old
      BY <1>5, <2>3 DEF Owned
    <2>4. CASE a \notin old /\ b \notin old
      <3>1. a = <<"array", t, 0, a[4]>> /\ b = <<"array", t, 0, b[4]>>
        BY <2>4
      <3>. QED
        BY <1>5, <3>1, Zenon
    <2>. QED
      BY <2>1, <2>2, <2>3, <2>4
  <1>6. \A a \in users : a[1] \in {"stack", "array"} => a[4] \notin sh \ dm
    BY DEF Owned
  <1>. QED
    BY <1>3, <1>4, <1>5, <1>6 DEF Owned

\* Users are lost, never gained, when the kernel takes over directory entries.
LEMMA KernelUsers ==
    ASSUME NEW tk \in [Slot -> Tasks], NEW pages, pages \subseteq Frame, NEW t \in Slot
    PROVE  UsersIn(t, MapInKernel(tk, pages)[t]) \subseteq UsersIn(t, tk[t])
  <1>. DEFINE new == MapInKernel(tk, pages)[t]
  <1>1. /\ new.stack = tk[t].stack /\ new.array = tk[t].array
        /\ DOMAIN new.map \subseteq DOMAIN tk[t].map
        /\ \A v \in DOMAIN new.map : new.map[v] = tk[t].map[v]
    BY MapInKernelDoes
  <1>. HIDE DEF new
  <1>2. UsersIn(t, new) \subseteq UsersIn(t, tk[t])
    BY <1>1 DEF UsersIn
  <1>. QED
    BY <1>2 DEF new

\* Mapping pages adds their users at most.
LEMMA PagesUsers ==
    ASSUME NEW t, NEW task \in Tasks, NEW m \in Maps, NEW a \in UsersIn(t, MapPages(task, m))
    PROVE  a \in UsersIn(t, task) \/ \E v \in DOMAIN m : a = <<"page", t, v, m[v]>>
  <1>. DEFINE new == MapPages(task, m)
  <1>1. new.map = Overlay(m, task.map) /\ new.stack = task.stack /\ new.array = task.array
    BY MapPagesDoes
  <1>2. /\ DOMAIN new.map = DOMAIN m \cup DOMAIN task.map
        /\ \A v \in DOMAIN new.map : new.map[v] = IF v \in DOMAIN m THEN m[v] ELSE task.map[v]
    BY <1>1 DEF Overlay
  <1>3. a \in UsersIn(t, new)
    OBVIOUS
  <1>. HIDE DEF new
  <1>4. CASE \E v \in DOMAIN new.map : a = <<"page", t, v, new.map[v]>>
    <2>1. PICK v \in DOMAIN new.map : a = <<"page", t, v, new.map[v]>>
      BY <1>4
    <2>2. CASE v \in DOMAIN m
      BY <1>2, <2>1, <2>2
    <2>3. CASE v \notin DOMAIN m
      BY <1>2, <2>1, <2>3 DEF UsersIn
    <2>. QED
      BY <2>2, <2>3
  <1>5. CASE a \in {<<"stack", t, 0, f>> : f \in new.stack} \cup {<<"array", t, 0, f>> : f \in new.array}
    BY <1>1, <1>5 DEF UsersIn
  <1>. QED
    BY <1>3, <1>4, <1>5 DEF UsersIn

\* A task table that differs in one task.
LEMMA OneTaskUsers ==
    ASSUME NEW tk, NEW tk2, NEW t \in Slot, \A s \in Slot \ {t} : tk2[s] = tk[s],
           NEW a \in Users(tk2)
    PROVE  a \in Users(tk) \/ a \in UsersIn(t, tk2[t])
  <1>1. PICK s \in Slot : a \in UsersIn(s, tk2[s])
    BY UserOf
  <1>2. CASE s = t
    BY <1>1, <1>2
  <1>3. CASE s # t
    BY <1>1, <1>3, UserOf
  <1>. QED
    BY <1>2, <1>3

LEMMA KernelUsersAll ==
    ASSUME NEW tk \in [Slot -> Tasks], NEW pages, pages \subseteq Frame
    PROVE  Users(MapInKernel(tk, pages)) \subseteq Users(tk)
  BY KernelUsers, UserOf

\* The pages at the offset of frames.
LEMMA OffsetUsers ==
    ASSUME NEW frames, frames \subseteq Frame, NEW v \in DOMAIN AtOffset(frames)
    PROVE  AtOffset(frames)[v] \in frames /\ v = AtOffset(frames)[v] + Offset
  <1>1. Offset \in Int /\ frames \subseteq Int
    BY VmmAssumption DEF Frame
  <1>2. PICK f \in frames : v = f + Offset
    BY DEF AtOffset
  <1>3. AtOffset(frames)[v] = v - Offset
    BY DEF AtOffset
  <1>. QED
    BY <1>1, <1>2, <1>3

LEMMA InitTaskOwned ==
    ASSUME OwnerInv, NEW t \in Slot, init_task(t), ~Halt, ~exhausted'
    PROVE  Owned(Users(tasks)', used', shared', doomed')
  <1>1. TypeOK /\ tasks \in [Slot -> Tasks]
    BY DEF OwnerInv, SpaceInv, TypeOK
  <1>2. /\ tasks' = [MapInKernel(tasks, InitKernel) EXCEPT ![t] = InitFresh]
        /\ used' = Marked(Marked(used, KStack), UStack)
        /\ exhausted' = (exhausted \/ ~ Fits(used, KStack) \/ ~ Fits(Marked(used, KStack), UStack))
        /\ shared' = shared /\ doomed' = doomed
    BY InitTaskIs
  <1>3. ~exhausted /\ Fits(used, KStack) /\ Fits(Marked(used, KStack), UStack)
    BY <1>2
  <1>4. Owned(Users(tasks), used, shared, doomed)
    BY <1>3 DEF OwnerInv
  <1>5. KStack \in Nat /\ UStack \in Nat
    BY VmmAssumption
  <1>6. Marked(used, KStack) = used \cup InitStack /\ InitStack \cap used = {}
    BY <1>3, <1>5, RangeIsFree DEF Marked, InitStack
  <1>7. used' = (used \cup InitStack) \cup InitUserStack /\ InitUserStack \cap (used \cup InitStack) = {}
    BY <1>2, <1>3, <1>5, <1>6, RangeIsFree DEF Marked, InitUserStack
  <1>8. ASSUME NEW a \in Users(tasks)', a \notin Users(tasks)
        PROVE  \/ a[4] \in InitStack /\ a = <<"stack", t, 0, a[4]>>
               \/ a[4] \in InitUserStack /\ a = <<"page", t, a[4] + Offset, a[4]>>
    <2>1. MapInKernel(tasks, InitKernel) \in [Slot -> Tasks] /\ InitKernel \subseteq Frame
      BY <1>1, InitFreshType, MapInKernelDoes
    <2>2. tasks'[t] = InitFresh /\ \A s \in Slot \ {t} : tasks'[s] = MapInKernel(tasks, InitKernel)[s]
      BY <1>2, <2>1
    <2>3. a \in Users(tasks')
      BY <1>8 DEF Users
    <2>4. a \in Users(MapInKernel(tasks, InitKernel)) \/ a \in UsersIn(t, InitFresh)
      BY <2>2, <2>3, OneTaskUsers
    <2>5. a \in UsersIn(t, InitFresh)
      BY <1>1, <1>8, <2>1, <2>4, KernelUsersAll
    <2>6. InitBase \in Tasks /\ AtOffset(InitUserStack) \in Maps /\ InitUserStack \subseteq Frame
      BY <1>1, InitFreshType, AtOffsetType
    <2>7. \/ a \in UsersIn(t, InitBase)
          \/ \E v \in DOMAIN AtOffset(InitUserStack) : a = <<"page", t, v, AtOffset(InitUserStack)[v]>>
      BY <2>5, <2>6, PagesUsers DEF InitFresh
    <2>8. CASE a \in UsersIn(t, InitBase)
      <3>1. InitBase.map = NoTask.map /\ InitBase.stack = InitStack /\ InitBase.array = NoTask.array
        BY NoTaskType DEF InitBase, Tasks
      <3>2. DOMAIN NoTask.map = {} /\ NoTask.array = {}
        BY DEF NoTask
      <3>3. PICK f \in InitStack : a = <<"stack", t, 0, f>>
        BY <2>8, <3>1, <3>2 DEF UsersIn
      <3>. QED
        BY <3>3
    <2>9. CASE \E v \in DOMAIN AtOffset(InitUserStack) : a = <<"page", t, v, AtOffset(InitUserStack)[v]>>
      <3>1. PICK v \in DOMAIN AtOffset(InitUserStack) : a = <<"page", t, v, AtOffset(InitUserStack)[v]>>
        BY <2>9
      <3>2. AtOffset(InitUserStack)[v] \in InitUserStack /\ v = AtOffset(InitUserStack)[v] + Offset
        BY <2>6, OffsetUsers
      <3>. QED
        BY <3>1, <3>2
    <2>. QED
      BY <2>7, <2>8, <2>9
  <1>9. \A a \in Users(tasks)' : a \in Users(tasks) \/ (a[4] \notin used /\ a[4] \in used')
    BY <1>6, <1>7, <1>8
  <1>10. ASSUME NEW a \in Users(tasks)', NEW b \in Users(tasks)',
                a \notin Users(tasks), b \notin Users(tasks), a[4] = b[4]
         PROVE  a = b
    <2>1. InitStack \cap InitUserStack = {}
      BY <1>7
    <2>2. CASE a[4] \in InitStack
      <3>1. a = <<"stack", t, 0, a[4]>> /\ b = <<"stack", t, 0, b[4]>>
        BY <1>8, <1>10, <2>1, <2>2
      <3>. QED
        BY <1>10, <3>1, Zenon
    <2>3. CASE a[4] \notin InitStack
      <3>1. a = <<"page", t, a[4] + Offset, a[4]>> /\ b = <<"page", t, b[4] + Offset, b[4]>>
        BY <1>8, <1>10, <2>3
      <3>. QED
        BY <1>10, <3>1, Zenon
    <2>. QED
      BY <2>2, <2>3
  <1>11. used \subseteq used'
    BY <1>7
  <1>12. Owned(Users(tasks)', used', shared, doomed)
    BY <1>4, <1>9, <1>10, <1>11, OwnedAlloc
  <1>. QED
    BY <1>2, <1>12

LEMMA LoadSegmentOwned ==
    ASSUME OwnerInv, LoadSegment, ~Halt, ~exhausted'
    PROVE  Owned(Users(tasks)', used', shared', doomed')
  <1>. DEFINE t == call.slot
              range == Block(used, Segment.pages)
              surplus == Surplus(Segment, SegmentFirst)
  <1>1. TypeOK /\ tasks \in [Slot -> Tasks] /\ call.segments # <<>>
    BY DEF OwnerInv, SpaceInv, TypeOK, LoadSegment
  <1>2. /\ used' = Marked(used, Segment.pages) \ surplus
        /\ exhausted' = (exhausted \/ ~ Fits(used, Segment.pages))
        /\ tasks' = [tasks EXCEPT ![t] = MapPages(tasks[t], SegmentMap)]
        /\ shared' = shared /\ doomed' = doomed
    BY LoadSegmentIs
  <1>3. ~exhausted /\ Fits(used, Segment.pages) /\ Owned(Users(tasks), used, shared, doomed)
    BY <1>2 DEF OwnerInv
  <1>4. /\ Segment.virt \in Nat /\ Segment.pages \in Nat /\ t \in Slot /\ SegmentFirst \in Nat
        /\ SegmentMap \in Maps /\ DOMAIN SegmentMap = Missing(Segment)
    BY <1>1, SegmentType
  <1>5. range = SegmentFirst .. SegmentFirst + Segment.pages - 1
    BY DEF Block, SegmentFirst
  <1>6. used' = (used \cup range) \ surplus /\ range \cap used = {}
    BY <1>2, <1>3, <1>4, RangeIsFree DEF Marked
  <1>7. surplus \subseteq range
    BY <1>4, <1>5 DEF Surplus
  <1>8. ASSUME NEW v \in Missing(Segment)
        PROVE  /\ SegmentMap[v] \in range \ surplus
               /\ v = SegmentMap[v] - SegmentFirst + Segment.virt
    <2>1. /\ SegmentMap[v] = SegmentFirst + (v - Segment.virt) /\ ~ Present(v)
          /\ v \in Segment.virt .. Segment.virt + Segment.pages - 1
      BY DEF SegmentMap, Missing
    <2>2. SegmentMap[v] \in range /\ v = SegmentMap[v] - SegmentFirst + Segment.virt
      BY <1>4, <1>5, <2>1
    <2>3. SegmentMap[v] \notin surplus
      <3>. SUFFICES ASSUME NEW w \in Segment.virt .. Segment.virt + Segment.pages - 1, Present(w),
                           SegmentMap[v] = SegmentFirst + (w - Segment.virt)
                    PROVE  FALSE
        BY DEF Surplus
      <3>1. w = v
        BY <1>4, <2>1
      <3>. QED
        BY <2>1, <3>1
    <2>. QED
      BY <2>2, <2>3
  <1>. HIDE DEF range, surplus, t
  <1>9. ASSUME NEW a \in Users(tasks)', a \notin Users(tasks)
        PROVE  /\ a[4] \in range \ surplus
               /\ a = <<"page", t, a[4] - SegmentFirst + Segment.virt, a[4]>>
    <2>1. a \in Users(tasks')
      BY <1>9 DEF Users
    <2>2. tasks'[t] = MapPages(tasks[t], SegmentMap) /\ \A s \in Slot \ {t} : tasks'[s] = tasks[s]
      BY <1>1, <1>2, <1>4
    <2>3. a \in UsersIn(t, MapPages(tasks[t], SegmentMap))
      BY <1>4, <1>9, <2>1, <2>2, OneTaskUsers
    <2>4. tasks[t] \in Tasks /\ a \notin UsersIn(t, tasks[t])
      BY <1>1, <1>4, <1>9, UserOf
    <2>5. PICK v \in Missing(Segment) : a = <<"page", t, v, SegmentMap[v]>>
      BY <1>4, <2>3, <2>4, PagesUsers
    <2>. QED
      BY <1>8, <2>5
  <1>10. \A a \in Users(tasks)' : a \in Users(tasks) \/ (a[4] \notin used /\ a[4] \in used')
    BY <1>6, <1>9
  <1>11. \A a, b \in Users(tasks)' : a \notin Users(tasks) /\ b \notin Users(tasks) /\ a[4] = b[4] => a = b
    BY <1>9, Zenon
  <1>12. used \subseteq used'
    BY <1>6, <1>7
  <1>13. Owned(Users(tasks)', used', shared, doomed)
    BY <1>3, <1>10, <1>11, <1>12, OwnedAlloc
  <1>. QED
    BY <1>2, <1>13

LEMMA CopyStringOwned ==
    ASSUME OwnerInv, CopyString, ~Halt, ~exhausted'
    PROVE  Owned(Users(tasks)', used', shared', doomed')
  <1>. DEFINE t == call.slot
  <1>1. TypeOK /\ tasks \in [Slot -> Tasks] /\ t \in Slot
    BY DEF OwnerInv, SpaceInv, TypeOK, CopyString
  <1>2. /\ used' = Marked(used, 1)
        /\ exhausted' = (exhausted \/ ~ Fits(used, 1))
        /\ tasks' = [StringThere EXCEPT ![t] = MapPages(StringThere[t], AtOffset(StringPage))]
        /\ shared' = shared /\ doomed' = doomed
    BY CopyStringIs
  <1>3. ~exhausted /\ Fits(used, 1) /\ Owned(Users(tasks), used, shared, doomed)
    BY <1>2 DEF OwnerInv
  <1>4. used' = used \cup StringPage /\ StringPage \cap used = {}
    BY <1>2, <1>3, RangeIsFree DEF Marked, StringPage
  <1>5. StringThere \in [Slot -> Tasks] /\ AtOffset(StringPage) \in Maps
    BY <1>1, StringPageType, MapInKernelDoes, AtOffsetType DEF StringThere
  <1>. HIDE DEF t
  <1>6. ASSUME NEW a \in Users(tasks)', a \notin Users(tasks)
        PROVE  a[4] \in StringPage /\ a = <<"page", t, a[4] + Offset, a[4]>>
    <2>1. a \in Users(tasks') /\ a \notin Users(StringThere)
      <3>1. a \in Users(tasks')
        BY <1>6 DEF Users
      <3>. QED
        BY <1>1, <1>6, <3>1, StringPageType, KernelUsersAll DEF StringThere
    <2>2. /\ tasks'[t] = MapPages(StringThere[t], AtOffset(StringPage))
          /\ \A s \in Slot \ {t} : tasks'[s] = StringThere[s]
      BY <1>1, <1>2, <1>5
    <2>3. a \in UsersIn(t, MapPages(StringThere[t], AtOffset(StringPage)))
      BY <1>1, <2>1, <2>2, OneTaskUsers
    <2>4. StringThere[t] \in Tasks /\ a \notin UsersIn(t, StringThere[t])
      BY <1>1, <1>5, <2>1, UserOf
    <2>5. PICK v \in DOMAIN AtOffset(StringPage) : a = <<"page", t, v, AtOffset(StringPage)[v]>>
      BY <1>5, <2>3, <2>4, PagesUsers
    <2>6. AtOffset(StringPage)[v] \in StringPage /\ v = AtOffset(StringPage)[v] + Offset
      BY StringPageType, OffsetUsers
    <2>. QED
      BY <2>5, <2>6
  <1>7. \A a \in Users(tasks)' : a \in Users(tasks) \/ (a[4] \notin used /\ a[4] \in used')
    BY <1>4, <1>6
  <1>8. \A a, b \in Users(tasks)' : a \notin Users(tasks) /\ b \notin Users(tasks) /\ a[4] = b[4] => a = b
    BY <1>6, Zenon
  <1>9. Owned(Users(tasks)', used', shared, doomed)
    BY <1>3, <1>4, <1>7, <1>8, OwnedAlloc
  <1>. QED
    BY <1>2, <1>9

\* A task table with one more page in one task.
LEMMA PageUsers ==
    ASSUME NEW tk \in [Slot -> Tasks], NEW t \in Slot, NEW v \in Nat, NEW f \in Nat,
           NEW a \in Users([tk EXCEPT ![t] = MapPage(tk[t], v, f)])
    PROVE  a \in Users(tk) \/ a = <<"page", t, v, f>>
  <1>. DEFINE m == [u \in {v} |-> f]
              tk2 == [tk EXCEPT ![t] = MapPages(tk[t], m)]
  <1>1. m \in Maps /\ DOMAIN m = {v} /\ m[v] = f
    BY PageMap
  <1>2. a \in Users(tk2)
    BY DEF MapPage
  <1>3. tk2[t] = MapPages(tk[t], m) /\ \A s \in Slot \ {t} : tk2[s] = tk[s]
    OBVIOUS
  <1>. HIDE DEF m, tk2
  <1>4. a \in Users(tk) \/ a \in UsersIn(t, MapPages(tk[t], m))
    BY <1>2, <1>3, OneTaskUsers
  <1>5. ASSUME a \in UsersIn(t, MapPages(tk[t], m))
        PROVE  a \in UsersIn(t, tk[t]) \/ a = <<"page", t, v, f>>
    BY <1>1, <1>5, PagesUsers
  <1>. QED
    BY <1>4, <1>5, UserOf

LEMMA MmapOwned ==
    ASSUME OwnerInv, NEW t \in Slot, NEW v \in UserPage, sys_mmap(t, v), ~Halt, ~exhausted'
    PROVE  Owned(Users(tasks)', used', shared', doomed')
  <1>1. tasks \in [Slot -> Tasks] /\ v \in Nat /\ OneFrame \in Nat
    BY VmmAssumption, OneFrameFree DEF OwnerInv, SpaceInv, TypeOK
  <1>2. /\ Fits(used, 1) /\ used' = used \cup {OneFrame}
        /\ tasks' = [tasks EXCEPT ![t] = MapPage(tasks[t], v, OneFrame)] \/ tasks' = tasks
        /\ exhausted' = exhausted /\ shared' = shared /\ doomed' = doomed
    BY MmapIs
  <1>3. Owned(Users(tasks), used, shared, doomed) /\ OneFrame \notin used
    BY <1>2, OneFrameFree DEF OwnerInv
  <1>4. \A a \in Users(tasks)' : a \in Users(tasks) \/ a = <<"page", t, v, OneFrame>>
    <2>1. \A a \in Users(tasks') : a \in Users(tasks) \/ a = <<"page", t, v, OneFrame>>
      BY <1>1, <1>2, PageUsers
    <2>. QED
      BY <2>1 DEF Users
  <1>5. \A a \in Users(tasks)' : a \in Users(tasks) \/ (a[4] \notin used /\ a[4] \in used')
    BY <1>2, <1>3, <1>4
  <1>6. \A a, b \in Users(tasks)' : a \notin Users(tasks) /\ b \notin Users(tasks) /\ a[4] = b[4] => a = b
    BY <1>4, Zenon
  <1>7. Owned(Users(tasks)', used', shared, doomed)
    BY <1>2, <1>3, <1>5, <1>6, OwnedAlloc
  <1>. QED
    BY <1>2, <1>7

LEMMA MmmapOwned ==
    ASSUME OwnerInv, NEW t \in Slot, NEW v \in UserPage, NEW r \in Slot, NEW w \in UserPage,
           sys_mmmap(t, v, r, w), ~Halt, ~exhausted'
    PROVE  Owned(Users(tasks)', used', shared', doomed')
  <1>1. TypeOK /\ tasks \in [Slot -> Tasks] /\ v \in Nat /\ w \in Nat /\ OneFrame \in Nat
    BY VmmAssumption, OneFrameFree DEF OwnerInv, SpaceInv, TypeOK
  <1>2. /\ Fits(used, 1) /\ used' = used \cup {OneFrame}
        /\ tasks' = MmmapBoth(t, v, r, w) /\ shared' = shared \cup {OneFrame}
        /\ exhausted' = exhausted /\ doomed' = doomed
    BY <1>1, MmmapIs
  <1>3. Owned(Users(tasks), used, shared, doomed) /\ OneFrame \notin used
    BY <1>2, OneFrameFree DEF OwnerInv
  <1>4. MmmapLocal(t, v) \in [Slot -> Tasks]
    <2>1. MapPage(tasks[t], v, OneFrame) \in Tasks
      <3>. DEFINE m == [u \in {v} |-> OneFrame]
      <3>1. m \in Maps
        BY <1>1, PageMap
      <3>. HIDE DEF m
      <3>2. MapPages(tasks[t], m) \in Tasks
        BY <1>1, <3>1, MapPagesDoes
      <3>. QED
        BY <3>2 DEF MapPage, m
    <2>. QED
      BY <1>1, <2>1 DEF MmmapLocal
  <1>5. \A a \in Users(MmmapLocal(t, v)) : a \in Users(tasks) \/ a = <<"page", t, v, OneFrame>>
    BY <1>1, PageUsers DEF MmmapLocal
  <1>6. \A a \in Users(MmmapBoth(t, v, r, w)) :
            a \in Users(MmmapLocal(t, v)) \/ a = <<"page", r, w, OneFrame>>
    BY <1>1, <1>4, PageUsers DEF MmmapBoth
  <1>7. \A a \in Users(tasks)' : a \in Users(tasks) \/ (a[4] = OneFrame /\ a[1] = "page")
    <2>1. \A a \in Users(tasks') : a \in Users(tasks) \/ (a[4] = OneFrame /\ a[1] = "page")
      BY <1>2, <1>5, <1>6
    <2>. QED
      BY <2>1 DEF Users
  <1>8. Owned(Users(tasks)', used \cup {OneFrame}, shared \cup {OneFrame}, doomed)
    BY <1>3, <1>7, OwnedShare
  <1>. QED
    BY <1>2, <1>8

LEMMA ExitOwned ==
    ASSUME OwnerInv, NEW t \in Slot, exit_task(t), ~exhausted'
    PROVE  Owned(Users(tasks)', used', shared', doomed')
  <1>. DEFINE frames == ArrayFreed(tasks[t]) \cup MappedBy(tasks[t]) \cup tasks[t].stack
  <1>1. tasks \in [Slot -> Tasks]
    BY DEF OwnerInv, SpaceInv, TypeOK
  <1>2. /\ tasks' = [tasks EXCEPT ![t] = NoTask]
        /\ used' = used \ frames /\ shared' = shared \ frames
        /\ doomed' = doomed \cup (frames \cap UsedFrames(Users(tasks')))
        /\ exhausted' = exhausted
    BY DEF exit_task, Release
  <1>3. Owned(Users(tasks), used, shared, doomed)
    BY <1>2 DEF OwnerInv
  <1>4. Users(tasks') \subseteq Users(tasks)
    <2>1. UsersIn(t, NoTask) = {}
      <3>1. DOMAIN NoTask.map = {} /\ NoTask.stack = {} /\ NoTask.array = {}
        BY DEF NoTask
      <3>. QED
        BY <3>1 DEF UsersIn
    <2>2. tasks'[t] = NoTask /\ \A s \in Slot \ {t} : tasks'[s] = tasks[s]
      BY <1>1, <1>2
    <2>. QED
      BY <2>1, <2>2, OneTaskUsers
  <1>5. ASSUME NEW f \in frames
        PROVE  \E a \in Users(tasks) : a[4] = f
    <2>1. CASE f \in ArrayFreed(tasks[t])
      <3>1. <<"array", t, 0, f>> \in UsersIn(t, tasks[t])
        BY <2>1 DEF ArrayFreed, UsersIn
      <3>2. <<"array", t, 0, f>> \in Users(tasks)
        BY <3>1, UserOf
      <3>. QED
        BY <3>2
    <2>2. CASE f \in MappedBy(tasks[t])
      <3>1. PICK v \in DOMAIN tasks[t].map : f = tasks[t].map[v]
        BY <2>2 DEF MappedBy
      <3>2. <<"page", t, v, f>> \in UsersIn(t, tasks[t])
        BY <3>1 DEF UsersIn
      <3>3. <<"page", t, v, f>> \in Users(tasks)
        BY <3>2, UserOf
      <3>. QED
        BY <3>3
    <2>3. CASE f \in tasks[t].stack
      <3>1. <<"stack", t, 0, f>> \in UsersIn(t, tasks[t])
        BY <2>3 DEF UsersIn
      <3>2. <<"stack", t, 0, f>> \in Users(tasks)
        BY <3>1, UserOf
      <3>. QED
        BY <3>2
    <2>. QED
      BY <2>1, <2>2, <2>3
  <1>. HIDE DEF frames
  <1>6. Owned(Users(tasks'), used \ frames, shared \ frames,
              doomed \cup (frames \cap UsedFrames(Users(tasks'))))
    BY <1>3, <1>4, <1>5, OwnedRelease
  <1>7. Users(tasks') = Users(tasks)'
    BY DEF Users
  <1>. QED
    BY <1>2, <1>6, <1>7

LEMMA ResourceOwned ==
    ASSUME OwnerInv, NEW t \in Slot, resource_register_self(t), ~Halt, ~exhausted'
    PROVE  Owned(Users(tasks)', used', shared', doomed')
  <1>. DEFINE array == GrownArray(t)
              there == MapInKernel(tasks, array)
              pages == SizePages(tasks[t].num_resources + 1)
  <1>1. TypeOK /\ tasks \in [Slot -> Tasks] /\ array \subseteq Frame /\ pages \in Nat
    BY GrownArrayType DEF OwnerInv, SpaceInv, TypeOK
  <1>2. /\ tasks' = [there EXCEPT ![t].array = array,
                                  ![t].num_resources = tasks[t].num_resources + 1]
        /\ used' = IF array # tasks[t].array THEN Marked(used, pages) \ tasks[t].array ELSE used
        /\ exhausted' = (exhausted \/ (array # tasks[t].array /\ ~ Fits(used, pages)))
        /\ shared' = shared /\ doomed' = doomed
    BY ResourceIs
  <1>3. ~exhausted /\ Owned(Users(tasks), used, shared, doomed)
    BY <1>2 DEF OwnerInv
  <1>4. there \in [Slot -> Tasks]
    BY <1>1, MapInKernelDoes
  <1>5. array # tasks[t].array => array = Block(used, pages)
    BY DEF GrownArray
  <1>6. \A s \in Slot : UsersIn(s, there[s]) \subseteq UsersIn(s, tasks[s])
    BY <1>1, KernelUsers
  <1>7. there[t].array = tasks[t].array
    BY <1>1, MapInKernelDoes
  <1>. HIDE DEF array, there, pages
  <1>8. /\ \A s \in Slot \ {t} : tasks'[s] = there[s]
        /\ tasks'[t].map = there[t].map /\ tasks'[t].stack = there[t].stack /\ tasks'[t].array = array
    BY <1>2, <1>4 DEF Tasks
  <1>9. \A a \in UsersIn(t, tasks'[t]) :
            \/ a \in UsersIn(t, there[t]) /\ a[1] # "array"
            \/ \E f \in array : a = <<"array", t, 0, f>>
    BY <1>8 DEF UsersIn
  <1>10. \A s : \A a \in UsersIn(s, tasks'[s]) : a[2] = s
    BY DEF UsersIn
  <1>11. ASSUME NEW a \in Users(tasks')
         PROVE  \/ a \in Users(tasks) /\ ~ (a[1] = "array" /\ a[2] = t)
                \/ \E f \in array : a = <<"array", t, 0, f>>
    <2>1. PICK s \in Slot : a \in UsersIn(s, tasks'[s])
      BY UserOf
    <2>2. CASE s = t
      BY <1>6, <1>9, <2>1, <2>2, UserOf
    <2>3. CASE s # t
      <3>1. a \in UsersIn(s, tasks[s]) /\ a[2] # t
        BY <1>6, <1>8, <1>10, <2>1, <2>3
      <3>. QED
        BY <3>1, UserOf
    <2>. QED
      BY <2>2, <2>3
  <1>12. \A f \in tasks[t].array : <<"array", t, 0, f>> \in Users(tasks)
    <2>1. \A f \in tasks[t].array : <<"array", t, 0, f>> \in UsersIn(t, tasks[t])
      BY DEF UsersIn
    <2>. QED
      BY <2>1, UserOf
  <1>13. Users(tasks') = Users(tasks)'
    BY DEF Users
  <1>14. CASE array = tasks[t].array
    <2>1. \A a \in Users(tasks') : a \in Users(tasks)
      BY <1>11, <1>12, <1>14
    <2>2. used' = used
      BY <1>2, <1>14
    <2>3. Owned(Users(tasks'), used, shared, doomed)
      BY <1>3, <2>1, OwnedAlloc
    <2>. QED
      BY <1>2, <1>13, <2>2, <2>3
  <1>15. CASE array # tasks[t].array
    <2>1. Fits(used, pages) /\ used' = Marked(used, pages) \ tasks[t].array
      BY <1>2, <1>15
    <2>2. Marked(used, pages) = used \cup array /\ array \cap used = {}
      BY <1>1, <1>5, <1>15, <2>1, RangeIsFree DEF Marked
    <2>3. \A a \in Users(tasks') :
              \/ a \in Users(tasks) /\ ~ (a[1] = "array" /\ a[2] = t)
              \/ a[4] \notin used /\ a[4] \in used \cup array /\ a[1] = "array" /\ a[2] = t /\ a[3] = 0
                 /\ a = <<"array", t, 0, a[4]>>
      BY <1>11, <2>2
    <2>4. Owned(Users(tasks'), (used \cup array) \ tasks[t].array, shared, doomed)
      <3>1. ArrayMoves(Users(tasks), used, Users(tasks'), used \cup array, t, tasks[t].array)
        BY <1>12, <2>3 DEF ArrayMoves
      <3>. QED
        BY <1>3, <3>1, OwnedMove
    <2>5. used' = (used \cup array) \ tasks[t].array
      BY <2>1, <2>2
    <2>. QED
      BY <1>2, <1>13, <2>4, <2>5
  <1>. QED
    BY <1>14, <1>15

LEMMA OwnerInit == Init => OwnerInv
  <1>. SUFFICES ASSUME Init
                PROVE  OwnerInv
    OBVIOUS
  <1>1. UsersIn(0, NoTask) = {} /\ \A t \in Slot : UsersIn(t, NoTask) = {}
    <2>1. DOMAIN NoTask.map = {} /\ NoTask.stack = {} /\ NoTask.array = {}
      BY DEF NoTask
    <2>. QED
      BY <2>1 DEF UsersIn
  <1>2. Users(tasks) = {}
    BY <1>1, UserOf DEF Init
  <1>3. Owned({}, used, shared, doomed)
    BY DEF Init, Owned
  <1>. QED
    BY <1>2, <1>3, SpaceInit DEF OwnerInv

LEMMA OwnerNext == OwnerInv /\ [Next]_vars => OwnerInv'
  <1>. SUFFICES ASSUME OwnerInv, [Next]_vars
                PROVE  OwnerInv'
    OBVIOUS
  <1>1. SpaceInv /\ SpaceInv'
    BY SpaceNext DEF OwnerInv
  <1>2. CASE Halt \/ UNCHANGED vars
    <2>1. UNCHANGED <<tasks, used, shared, doomed, exhausted>>
      BY <1>2 DEF Halt, vars
    <2>2. Users(tasks)' = Users(tasks)
      BY <2>1 DEF Users
    <2>. QED
      BY <1>1, <2>1, <2>2 DEF OwnerInv
  <1>3. CASE ~Halt /\ Next
    <2>. SUFFICES ASSUME ~exhausted'
                  PROVE  Owned(Users(tasks)', used', shared', doomed')
      BY <1>1 DEF OwnerInv
    <2>1. ASSUME NEW image \in Images, NEW strings \in 0 .. MaxStrings, init_elf(image, strings)
          PROVE  Owned(Users(tasks)', used', shared', doomed')
      BY <1>1, <1>3, <2>1, InitElfSpans, InitTaskOwned
    <2>. QED
      BY <1>3, <2>1, LoadSegmentOwned, CopyStringOwned, ExitOwned, ResourceOwned, MmapOwned,
         MmmapOwned DEF Next
  <1>. QED
    BY <1>2, <1>3

\* A frame that a task's pages, stack or resource array rely on is marked used
\* and has no second user, through loading, growing, sharing and the ends of
\* tasks, except for frames mmmap has shared and the ends of tasks have freed
\* under others: the double use that leads to stays with these frames.
THEOREM VmmFramesHaveOneOwner == Spec => []FramesHaveOneOwner
  <1>1. OwnerInv => FramesHaveOneOwner
    <2>. SUFFICES ASSUME Owned(Users(tasks), used, shared, doomed)
                  PROVE  /\ UsedFrames(Users(tasks)) \subseteq (used \ Reserved) \cup doomed
                         /\ \A a, b \in Users(tasks) : a # b /\ a[4] = b[4] => a[4] \in shared \cup doomed
      BY DEF OwnerInv, FramesHaveOneOwner
    <2>1. UsedFrames(Users(tasks)) \subseteq (used \ Reserved) \cup doomed
      BY DEF Owned, UsedFrames
    <2>2. \A a, b \in Users(tasks) : a # b /\ a[4] = b[4] => a[4] \in shared \cup doomed
      BY DEF Owned
    <2>. QED
      BY <2>1, <2>2
  <1>. QED
    BY <1>1, OwnerInit, OwnerNext, PTL DEF Spec

----------------------------------------------------------------------------
(* What the end of a task leaves behind *)

\* A task has finitely many tables of its own, and its resource array is one
\* piece of the size vmm_resize gives it.
Tidy(task) ==
    /\ IsFiniteSet(task.own)
    /\ \/ task.num_resources = 0 /\ task.array = {}
       \/ /\ task.num_resources > 0
          /\ \E first \in Int : task.array = first .. first + SizePages(task.num_resources) - 1

TidyInv ==
    /\ SpaceInv
    /\ tables \in Int
    /\ \A t \in Slot : Tidy(tasks[t])

\* A step that ends no task and leaves tasks tidy.
KeepsTasks ==
    /\ tables' \in Int
    /\ \A t \in Slot : Tidy(tasks'[t]) /\ (tasks[t].active => tasks'[t].active)

\* How a task may change in such a step.
Grows(old, new) ==
    /\ old.active => new.active
    /\ Tidy(old) => Tidy(new)

LEMMA FiniteDirs ==
    ASSUME NEW S, IsFiniteSet(S)
    PROVE  IsFiniteSet(Dirs(S))
  <1>. DEFINE f == [v \in S |-> Dir(v)]
  <1>1. f \in [S -> Dirs(S)]
    BY DEF Dirs
  <1>2. \A d \in Dirs(S) : \E v \in S : f[v] = d
    BY DEF Dirs
  <1>. HIDE DEF f
  <1>3. f \in Surjection(S, Dirs(S))
    BY <1>1, <1>2 DEF Surjection
  <1>. QED
    BY <1>3, FS_Surjection

LEMMA FiniteFrames ==
    ASSUME NEW S, S \subseteq Frame
    PROVE  IsFiniteSet(S) /\ IsFiniteSet(Dirs(S)) /\ \A T : Cardinality(Dirs(S) \ T) \in Nat
  <1>1. IsFiniteSet(Frame)
    BY VmmAssumption, FS_Interval DEF Frame
  <1>2. IsFiniteSet(S)
    BY <1>1, FS_Subset
  <1>3. IsFiniteSet(Dirs(S))
    BY <1>2, FiniteDirs
  <1>. QED
    BY <1>2, <1>3, FS_Difference, FS_CardinalityType

LEMMA FiniteOffset ==
    ASSUME NEW S, S \subseteq Frame
    PROVE  IsFiniteSet({f + Offset : f \in S})
  <1>. DEFINE T == {f + Offset : f \in S}
              g == [f \in S |-> f + Offset]
  <1>1. g \in [S -> T] /\ \A v \in T : \E f \in S : g[f] = v
    OBVIOUS
  <1>. HIDE DEF g, T
  <1>2. g \in Surjection(S, T)
    BY <1>1 DEF Surjection
  <1>3. IsFiniteSet(T)
    BY <1>2, FiniteFrames, FS_Surjection
  <1>. QED
    BY <1>3 DEF T

LEMMA KernelTidy ==
    ASSUME NEW tk \in [Slot -> Tasks], NEW pages, pages \subseteq Frame, NEW s \in Slot
    PROVE  Grows(tk[s], MapInKernel(tk, pages)[s])
  <1>. DEFINE new == MapInKernel(tk, pages)[s]
  <1>1. /\ new.active = tk[s].active /\ new.array = tk[s].array
        /\ new.num_resources = tk[s].num_resources /\ new.own \subseteq tk[s].own
    BY MapInKernelDoes
  <1>. HIDE DEF new
  <1>2. IsFiniteSet(tk[s].own) => IsFiniteSet(new.own)
    BY <1>1, FS_Subset
  <1>3. Grows(tk[s], new)
    BY <1>1, <1>2 DEF Grows, Tidy
  <1>. QED
    BY <1>3 DEF new

LEMMA PagesTidy ==
    ASSUME NEW task \in Tasks, NEW m \in Maps, IsFiniteSet(DOMAIN m)
    PROVE  Grows(task, MapPages(task, m))
  <1>. DEFINE new == MapPages(task, m)
  <1>1. /\ new.active = task.active /\ new.array = task.array
        /\ new.num_resources = task.num_resources /\ new.own = task.own \cup Dirs(DOMAIN m)
    BY MapPagesDoes
  <1>. HIDE DEF new
  <1>2. IsFiniteSet(task.own) => IsFiniteSet(new.own)
    BY <1>1, FiniteDirs, FS_Union
  <1>3. Grows(task, new)
    BY <1>1, <1>2 DEF Grows, Tidy
  <1>. QED
    BY <1>3 DEF new

LEMMA PageTidy ==
    ASSUME NEW task \in Tasks, NEW v \in Nat, NEW f \in Nat
    PROVE  MapPage(task, v, f) \in Tasks /\ Grows(task, MapPage(task, v, f))
  <1>. DEFINE m == [u \in {v} |-> f]
  <1>1. m \in Maps /\ DOMAIN m = {v}
    BY PageMap
  <1>. HIDE DEF m
  <1>2. IsFiniteSet(DOMAIN m)
    BY <1>1, FS_Singleton
  <1>3. MapPages(task, m) \in Tasks /\ Grows(task, MapPages(task, m))
    BY <1>1, <1>2, PagesTidy, MapPagesDoes
  <1>. QED
    BY <1>3 DEF MapPage, m

\* The tables a tidy task has beyond others are a number.
LEMMA OwnCount ==
    ASSUME NEW task, Tidy(task), NEW T
    PROVE  Cardinality(task.own) \in Nat /\ Cardinality(task.own \ T) \in Nat
  BY FS_Difference, FS_CardinalityType DEF Tidy

LEMMA NoTaskTidy == Tidy(NoTask)
  <1>1. NoTask.own = {} /\ NoTask.num_resources = 0 /\ NoTask.array = {}
    BY DEF NoTask
  <1>. QED
    BY <1>1, FS_EmptySet DEF Tidy

LEMMA InitTaskTidy ==
    ASSUME TidyInv, NEW t \in Slot, init_task(t), ~Halt
    PROVE  KeepsTasks
  <1>. DEFINE there == MapInKernel(tasks, InitKernel)
  <1>1. TypeOK /\ tasks \in [Slot -> Tasks] /\ tables \in Int
    BY DEF TidyInv, SpaceInv, TypeOK
  <1>2. InitKernel \subseteq Frame /\ InitUserStack \subseteq Frame
    BY <1>1, InitFreshType
  <1>3. /\ tasks' = [there EXCEPT ![t] = InitFresh]
        /\ tables' = tables + (Cardinality(Dirs(InitKernel) \ kdir) + 2 + Cardinality(InitFresh.own))
    BY InitTaskIs
  <1>4. /\ InitFresh.active /\ InitFresh.num_resources = 0 /\ InitFresh.array = {}
        /\ InitFresh.own = Dirs({f + Offset : f \in InitUserStack})
    BY <1>1, InitFreshType
  <1>5. IsFiniteSet(InitFresh.own)
    BY <1>2, <1>4, FiniteOffset, FiniteDirs
  <1>6. Tidy(InitFresh)
    BY <1>4, <1>5 DEF Tidy
  <1>7. there \in [Slot -> Tasks] /\ \A s \in Slot : Grows(tasks[s], there[s])
    BY <1>1, <1>2, MapInKernelDoes, KernelTidy
  <1>8. Cardinality(Dirs(InitKernel) \ kdir) \in Nat /\ Cardinality(InitFresh.own) \in Nat
    BY <1>2, <1>5, FiniteFrames, FS_CardinalityType
  <1>. HIDE DEF there
  <1>9. tables' \in Int
    BY <1>1, <1>3, <1>8
  <1>10. \A s \in Slot : tasks'[s] = IF s = t THEN InitFresh ELSE there[s]
    BY <1>3, <1>7
  <1>. QED
    BY <1>4, <1>6, <1>7, <1>9, <1>10 DEF KeepsTasks, Grows, TidyInv

LEMMA LoadSegmentTidy ==
    ASSUME TidyInv, LoadSegment, ~Halt
    PROVE  KeepsTasks
  <1>. DEFINE task == MapPages(tasks[call.slot], SegmentMap)
  <1>1. TypeOK /\ tasks \in [Slot -> Tasks] /\ tables \in Int /\ call.segments # <<>>
    BY DEF TidyInv, SpaceInv, TypeOK, LoadSegment
  <1>2. /\ call.slot \in Slot /\ SegmentMap \in Maps /\ DOMAIN SegmentMap = Missing(Segment)
        /\ Segment \in [virt : Nat, pages : Nat]
    BY <1>1, SegmentType
  <1>3. /\ tasks' = [tasks EXCEPT ![call.slot] = task]
        /\ tables' = tables + Cardinality(task.own \ tasks[call.slot].own)
    BY LoadSegmentIs
  <1>4. IsFiniteSet(DOMAIN SegmentMap)
    <2>1. Segment.virt \in Int /\ Segment.virt + Segment.pages - 1 \in Int
      BY <1>2
    <2>2. IsFiniteSet(Segment.virt .. Segment.virt + Segment.pages - 1)
      BY <2>1, FS_Interval
    <2>3. DOMAIN SegmentMap \subseteq Segment.virt .. Segment.virt + Segment.pages - 1
      BY <1>2 DEF Missing
    <2>. QED
      BY <2>2, <2>3, FS_Subset
  <1>5. tasks[call.slot] \in Tasks /\ Tidy(tasks[call.slot])
    BY <1>1, <1>2 DEF TidyInv
  <1>6. Grows(tasks[call.slot], task)
    BY <1>2, <1>4, <1>5, PagesTidy
  <1>7. Tidy(task)
    BY <1>5, <1>6 DEF Grows
  <1>. HIDE DEF task
  <1>8. tables' \in Int
    BY <1>1, <1>3, <1>7, OwnCount
  <1>9. \A s \in Slot : tasks'[s] = IF s = call.slot THEN task ELSE tasks[s]
    BY <1>1, <1>3
  <1>. QED
    BY <1>6, <1>7, <1>8, <1>9 DEF KeepsTasks, Grows, TidyInv

LEMMA CopyStringTidy ==
    ASSUME TidyInv, CopyString, ~Halt
    PROVE  KeepsTasks
  <1>. DEFINE task == MapPages(StringThere[call.slot], AtOffset(StringPage))
  <1>1. TypeOK /\ tasks \in [Slot -> Tasks] /\ tables \in Int /\ call.slot \in Slot
    BY DEF TidyInv, SpaceInv, TypeOK, CopyString
  <1>2. /\ tasks' = [StringThere EXCEPT ![call.slot] = task]
        /\ tables' = tables + (Cardinality(Dirs(StringPage) \ kdir)
                                 + Cardinality(task.own \ StringThere[call.slot].own))
    BY CopyStringIs
  <1>3. /\ StringThere \in [Slot -> Tasks]
        /\ \A s \in Slot : Grows(tasks[s], StringThere[s])
    BY <1>1, StringPageType, MapInKernelDoes, KernelTidy DEF StringThere
  <1>4. \A s \in Slot : /\ Tidy(StringThere[s])
                        /\ tasks[s].active => StringThere[s].active
    BY <1>3 DEF Grows, TidyInv
  <1>5. AtOffset(StringPage) \in Maps /\ IsFiniteSet(DOMAIN AtOffset(StringPage))
    BY StringPageType, AtOffsetType, FiniteOffset
  <1>6. Grows(StringThere[call.slot], task)
    BY <1>1, <1>3, <1>5, PagesTidy
  <1>7. Tidy(task)
    BY <1>1, <1>4, <1>6 DEF Grows
  <1>. HIDE DEF task
  <1>8. tables' \in Int
    <2>1. Cardinality(Dirs(StringPage) \ kdir) \in Nat
      BY StringPageType, FiniteFrames
    <2>2. Cardinality(task.own \ StringThere[call.slot].own) \in Nat
      BY <1>7, OwnCount
    <2>. QED
      BY <1>1, <1>2, <2>1, <2>2
  <1>9. \A s \in Slot : tasks'[s] = IF s = call.slot THEN task ELSE StringThere[s]
    BY <1>2, <1>3
  <1>. QED
    BY <1>4, <1>6, <1>7, <1>8, <1>9 DEF KeepsTasks, Grows

LEMMA MmapTidy ==
    ASSUME TidyInv, NEW t \in Slot, NEW v \in UserPage, sys_mmap(t, v), ~Halt
    PROVE  KeepsTasks
  <1>. DEFINE task == MapPage(tasks[t], v, OneFrame)
  <1>1. tasks \in [Slot -> Tasks] /\ tables \in Int /\ v \in Nat /\ Tidy(tasks[t])
    BY VmmAssumption DEF TidyInv, SpaceInv, TypeOK
  <1>2. \/ /\ tasks' = [tasks EXCEPT ![t] = task]
           /\ tables' = tables + Cardinality(task.own \ tasks[t].own)
        \/ tasks' = tasks /\ tables' = tables
    BY MmapIs
  <1>3. Grows(tasks[t], task)
    BY <1>1, OneFrameFree, PageTidy
  <1>4. Tidy(task)
    BY <1>1, <1>3 DEF Grows
  <1>. HIDE DEF task
  <1>5. Cardinality(task.own \ tasks[t].own) \in Nat
    BY <1>4, OwnCount
  <1>6. tables' \in Int
    BY <1>1, <1>2, <1>5
  <1>7. \A s \in Slot : tasks'[s] = tasks[s] \/ (s = t /\ tasks'[s] = task)
    BY <1>1, <1>2
  <1>. QED
    BY <1>3, <1>4, <1>6, <1>7 DEF KeepsTasks, Grows, TidyInv

LEMMA MmmapTidy ==
    ASSUME TidyInv, NEW t \in Slot, NEW v \in UserPage, NEW r \in Slot, NEW w \in UserPage,
           sys_mmmap(t, v, r, w), ~Halt
    PROVE  KeepsTasks
  <1>. DEFINE local == MmmapLocal(t, v)
              both == MmmapBoth(t, v, r, w)
  <1>1. TypeOK /\ tasks \in [Slot -> Tasks] /\ tables \in Int /\ v \in Nat /\ w \in Nat
    BY VmmAssumption DEF TidyInv, SpaceInv, TypeOK
  <1>2. /\ tasks' = both
        /\ tables' = tables + MmmapTables(t, r, both)
    BY <1>1, MmmapIs
  <1>3. local \in [Slot -> Tasks] /\ \A s \in Slot : Grows(tasks[s], local[s])
    <2>1. MapPage(tasks[t], v, OneFrame) \in Tasks /\ Grows(tasks[t], MapPage(tasks[t], v, OneFrame))
      BY <1>1, OneFrameFree, PageTidy
    <2>2. \A s : Grows(tasks[s], tasks[s])
      BY DEF Grows
    <2>. QED
      BY <1>1, <2>1, <2>2 DEF MmmapLocal
  <1>. HIDE DEF local
  <1>4. \A s \in Slot : Grows(local[s], both[s])
    <2>1. Grows(local[r], MapPage(local[r], w, OneFrame))
      BY <1>1, <1>3, OneFrameFree, PageTidy
    <2>2. \A s : Grows(local[s], local[s])
      BY DEF Grows
    <2>3. both = [local EXCEPT ![r] = MapPage(local[r], w, OneFrame)]
      BY DEF MmmapBoth, local
    <2>. HIDE DEF both
    <2>. QED
      BY <1>3, <2>1, <2>2, <2>3
  <1>. HIDE DEF both
  <1>5. \A s \in Slot : Tidy(both[s]) /\ (tasks[s].active => both[s].active)
    BY <1>3, <1>4 DEF Grows, TidyInv
  <1>6. Cardinality(both[t].own \ tasks[t].own) \in Nat /\ Cardinality(both[r].own \ tasks[r].own) \in Nat
    BY <1>5, OwnCount
  <1>7. tables' \in Int
    BY <1>1, <1>2, <1>6 DEF MmmapTables
  <1>. QED
    BY <1>2, <1>5, <1>7 DEF KeepsTasks

LEMMA ResourceTidy ==
    ASSUME TidyInv, NEW t \in Slot, resource_register_self(t), ~Halt
    PROVE  KeepsTasks
  <1>. DEFINE array == GrownArray(t)
              there == MapInKernel(tasks, array)
              n == tasks[t].num_resources
  <1>1. TypeOK /\ tasks \in [Slot -> Tasks] /\ tables \in Int /\ Tidy(tasks[t]) /\ n \in Nat
    BY DEF TidyInv, SpaceInv, TypeOK, Tasks
  <1>2. array \subseteq Frame /\ SizePages(n + 1) \in Nat
    BY <1>1, GrownArrayType
  <1>3. /\ tasks' = [there EXCEPT ![t].array = array, ![t].num_resources = n + 1]
        /\ tables' = tables + Cardinality(Dirs(array) \ kdir)
    BY ResourceIs
  <1>4. there \in [Slot -> Tasks] /\ \A s \in Slot : Grows(tasks[s], there[s])
    BY <1>1, <1>2, MapInKernelDoes, KernelTidy
  <1>5. \A s \in Slot : Tidy(there[s]) /\ (tasks[s].active => there[s].active)
    BY <1>4 DEF Grows, TidyInv
  <1>6. \E first \in Int : array = first .. first + SizePages(n + 1) - 1
    <2>1. CASE n > 0 /\ SizePages(n + 1) = SizePages(n)
      <3>1. array = tasks[t].array
        BY <2>1 DEF GrownArray
      <3>. QED
        BY <1>1, <2>1, <3>1 DEF Tidy
    <2>2. CASE ~ (n > 0 /\ SizePages(n + 1) = SizePages(n))
      <3>1. array = Block(used, SizePages(n + 1))
        BY <2>2 DEF GrownArray
      <3>2. First(used, SizePages(n + 1)) \in Int
        BY <1>2, RangeIsFree
      <3>. QED
        BY <3>1, <3>2 DEF Block
    <2>. QED
      BY <2>1, <2>2
  <1>7. tables' \in Int
    <2>1. Cardinality(Dirs(array) \ kdir) \in Nat
      BY <1>2, FiniteFrames
    <2>. QED
      BY <1>1, <1>3, <2>1
  <1>. HIDE DEF array, there, n
  <1>8. /\ \A s \in Slot \ {t} : tasks'[s] = there[s]
        /\ tasks'[t].active = there[t].active /\ tasks'[t].own = there[t].own
        /\ tasks'[t].array = array /\ tasks'[t].num_resources = n + 1
    BY <1>3, <1>4 DEF Tasks
  <1>9. Tidy(tasks'[t])
    BY <1>1, <1>5, <1>6, <1>8 DEF Tidy
  <1>. QED
    BY <1>5, <1>7, <1>8, <1>9 DEF KeepsTasks

\* Where the entries do not fill their pages, resource_dealloc counts the
\* pages as vmm_resize does.
LEMMA SizesAgree ==
    ASSUME NEW n \in Nat, n % PerPage # 0
    PROVE  TO_PAGES(n) = SizePages(n) /\ n > 0
  <1>0. PerPage \in Nat \ {0}
    BY VmmAssumption
  <1>. DEFINE q == n \div PerPage
              r == n % PerPage
              m == n + PerPage - 1
              p == m \div PerPage
  <1>1. q \in Int /\ r \in 1 .. PerPage - 1 /\ n = PerPage * q + r
    BY <1>0
  <1>2. m \in Int
    BY <1>0
  <1>. HIDE DEF m
  <1>3. p \in Int /\ m % PerPage \in 0 .. PerPage - 1 /\ m = PerPage * p + (m % PerPage)
    BY <1>0, <1>2
  <1>. HIDE DEF q, r, p
  <1>4. PerPage * q \in Int /\ PerPage * p \in Int /\ PerPage * (q + 1) = PerPage * q + PerPage
    BY <1>0, <1>1, <1>3
  <1>5. m = PerPage * q + PerPage + (r - 1)
    BY <1>0, <1>1, <1>4 DEF m
  <1>6. p <= q + 1
    <2>. SUFFICES ASSUME p >= q + 2
                  PROVE  FALSE
      BY <1>1, <1>3
    <2>1. PICK d \in Nat : p = q + 2 + d
      <3>1. p - q - 2 \in Nat /\ p = q + 2 + (p - q - 2)
        BY <1>1, <1>3
      <3>. QED
        BY <3>1
    <2>2. PerPage * p = PerPage * q + PerPage + PerPage + PerPage * d /\ PerPage * d \in Nat
      BY <1>0, <1>1, <2>1
    <2>. QED
      BY <1>0, <1>1, <1>3, <1>4, <1>5, <2>2
  <1>7. p >= q + 1
    <2>. SUFFICES ASSUME p <= q
                  PROVE  FALSE
      BY <1>1, <1>3
    <2>1. PICK d \in Nat : q = p + d
      <3>1. q - p \in Nat /\ q = p + (q - p)
        BY <1>1, <1>3
      <3>. QED
        BY <3>1
    <2>2. PerPage * q = PerPage * p + PerPage * d /\ PerPage * d \in Nat
      BY <1>0, <1>3, <2>1
    <2>. QED
      BY <1>0, <1>1, <1>3, <1>4, <1>5, <2>2
  <1>8. p = q + 1
    BY <1>1, <1>3, <1>6, <1>7
  <1>9. n > 0
    <2>. SUFFICES ASSUME n = 0
                  PROVE  FALSE
      OBVIOUS
    <2>1. CASE q >= 0
      <3>1. PerPage * q \in Nat
        BY <1>0, <1>1, <2>1
      <3>. QED
        BY <1>1, <3>1
    <2>2. CASE q <= -1
      <3>1. PICK d \in Nat : q = - 1 - d
        <4>1. - 1 - q \in Nat /\ q = - 1 - (- 1 - q)
          BY <1>1, <2>2
        <4>. QED
          BY <4>1
      <3>2. PerPage * q = - PerPage - PerPage * d /\ PerPage * d \in Nat
        BY <1>0, <3>1
      <3>. QED
        BY <1>0, <1>1, <1>4, <3>2
    <2>. QED
      BY <1>1, <2>1, <2>2
  <1>. QED
    BY <1>8, <1>9 DEF SizePages, TO_PAGES, p, q, m

LEMMA ArrayAllFreed ==
    ASSUME NEW task \in Tasks, Tidy(task), task.num_resources % PerPage # 0
    PROVE  ArrayFreed(task) = task.array
  <1>1. task.num_resources \in Nat
    BY DEF Tasks
  <1>. DEFINE pages == SizePages(task.num_resources)
  <1>2. TO_PAGES(task.num_resources) = pages /\ task.num_resources > 0
    BY <1>1, SizesAgree
  <1>3. pages \in Int
    BY <1>1, VmmAssumption DEF SizePages
  <1>4. PICK first \in Int : task.array = first .. first + pages - 1
    BY <1>2 DEF Tidy
  <1>. HIDE DEF pages
  <1>5. ASSUME NEW f \in task.array
        PROVE  f \in ArrayFreed(task)
    <2>1. first \in task.array /\ (\A g \in task.array : first <= g) /\ f < first + pages
      BY <1>3, <1>4, <1>5
    <2>. QED
      BY <1>2, <2>1 DEF ArrayFreed
  <1>. QED
    BY <1>5 DEF ArrayFreed

\* exit_task frees the frames of the task, but for the last page of an array
\* that fills its pages.
LEMMA ExitFrames ==
    ASSUME TidyInv, NEW t \in Slot, exit_task(t)
    PROVE  Leaked' \ Leaked \subseteq
               IF tasks[t].num_resources % PerPage = 0 THEN tasks[t].array ELSE {}
  <1>1. tasks \in [Slot -> Tasks] /\ tasks[t] \in Tasks /\ Tidy(tasks[t])
    BY DEF TidyInv, SpaceInv, TypeOK
  <1>2. /\ tasks' = [tasks EXCEPT ![t] = NoTask]
        /\ used' = used \ (ArrayFreed(tasks[t]) \cup MappedBy(tasks[t]) \cup tasks[t].stack)
    BY DEF exit_task, Release
  <1>3. ASSUME NEW f \in Leaked' \ Leaked
        PROVE  f \in tasks[t].array \ ArrayFreed(tasks[t])
    <2>0. Users(tasks') = Users(tasks)'
      BY DEF Users
    <2>1. /\ f \in used /\ f \notin MappedBy(tasks[t]) /\ f \notin tasks[t].stack
          /\ f \notin ArrayFreed(tasks[t])
          /\ f \in UsedFrames(Users(tasks)) /\ ~ (f \in UsedFrames(Users(tasks')))
      <3>1. f \in used' /\ f \notin Reserved /\ ~ (f \in UsedFrames(Users(tasks')))
        BY <2>0, <1>3 DEF Leaked, UsedFrames
      <3>2. f \in used
        BY <1>2, <3>1
      <3>3. f \in UsedFrames(Users(tasks))
        BY <1>3, <3>1, <3>2 DEF Leaked
      <3>. QED
        BY <1>2, <3>1, <3>2, <3>3
    <2>2. PICK a \in Users(tasks) : a[4] = f
      BY <2>1 DEF UsedFrames
    <2>3. PICK s \in Slot : a \in UsersIn(s, tasks[s])
      BY UserOf
    <2>4. s = t
      <3>. SUFFICES ASSUME s # t
                    PROVE  FALSE
        OBVIOUS
      <3>1. tasks'[s] = tasks[s]
        BY <1>1, <1>2
      <3>2. a \in Users(tasks')
        BY <2>3, <3>1, UserOf
      <3>. QED
        BY <2>1, <2>2, <3>2 DEF UsedFrames
    <2>5. f \in MappedBy(tasks[t]) \/ f \in tasks[t].stack \/ f \in tasks[t].array
      BY <2>2, <2>3, <2>4 DEF UsersIn, MappedBy
    <2>. QED
      BY <2>1, <2>5
  <1>4. tasks[t].num_resources % PerPage # 0 => ArrayFreed(tasks[t]) = tasks[t].array
    BY <1>1, ArrayAllFreed
  <1>. QED
    BY <1>3, <1>4

TablesOf(t, own) == {<<t, d>> : d \in own}

LEMMA TablesOfCount ==
    ASSUME NEW t, NEW own, IsFiniteSet(own)
    PROVE  IsFiniteSet(TablesOf(t, own)) /\ Cardinality(TablesOf(t, own)) = Cardinality(own)
  <1>. DEFINE g == [d \in own |-> <<t, d>>]
  <1>1. g \in [own -> TablesOf(t, own)]
    BY DEF TablesOf
  <1>2. \A x \in TablesOf(t, own) : \E d \in own : g[d] = x
    BY DEF TablesOf
  <1>3. \A d, e \in own : g[d] = g[e] => d = e
    OBVIOUS
  <1>. HIDE DEF g
  <1>4. DOMAIN g = own
    BY <1>1
  <1>5. g \in Bijection(own, TablesOf(t, own))
    BY <1>1, <1>2, <1>3, <1>4 DEF Bijection, Injection, Surjection, IsInjective
  <1>6. ExistsBijection(own, TablesOf(t, own))
    BY <1>5 DEF ExistsBijection
  <1>. QED
    BY <1>6, FS_Bijection

LEMMA OwnTablesFinite ==
    ASSUME TidyInv
    PROVE  IsFiniteSet(OwnTables)
  <1>. DEFINE T == {TablesOf(t, tasks[t].own) : t \in Slot}
              g == [t \in Slot |-> TablesOf(t, tasks[t].own)]
  <1>1. g \in [Slot -> T] /\ \A x \in T : \E t \in Slot : g[t] = x
    OBVIOUS
  <1>2. \A x \in T : IsFiniteSet(x)
    BY TablesOfCount DEF TidyInv, Tidy
  <1>3. OwnTables = UNION T
    BY DEF OwnTables, TablesOf
  <1>. HIDE DEF T, g
  <1>4. g \in Surjection(Slot, T)
    BY <1>1 DEF Surjection
  <1>5. IsFiniteSet(T)
    BY <1>4, VmmAssumption, FS_Surjection
  <1>. QED
    BY <1>2, <1>3, <1>5, FS_UNION

\* exit_task gives back as many pages of the .paging section as the task held.
LEMMA ExitTables ==
    ASSUME TidyInv, NEW t \in Slot, exit_task(t)
    PROVE  LeakedTables' = LeakedTables
  <1>. DEFINE mine == TablesOf(t, tasks[t].own)
  <1>1. tasks \in [Slot -> Tasks] /\ tables \in Int /\ kmap \subseteq Frame /\ IsFiniteSet(tasks[t].own)
    BY DEF TidyInv, SpaceInv, TypeOK, Tidy
  <1>2. /\ tasks' = [tasks EXCEPT ![t] = NoTask] /\ tasks[t].active
        /\ tables' = tables - Cardinality(tasks[t].own) - 2
        /\ kmap' = kmap
    BY DEF exit_task
  <1>3. NoTask.own = {} /\ ~ NoTask.active
    BY DEF NoTask
  <1>4. \A s \in Slot : tasks'[s] = IF s = t THEN NoTask ELSE tasks[s]
    BY <1>1, <1>2
  <1>5. Active' = Active \ {t} /\ t \in Active
    BY <1>2, <1>3, <1>4 DEF Active
  <1>6. IsFiniteSet(Active)
    <2>1. Active \subseteq Slot
      BY DEF Active
    <2>. QED
      BY <2>1, VmmAssumption, FS_Subset
  <1>7. Cardinality(Active') = Cardinality(Active) - 1 /\ Cardinality(Active) \in Nat
    BY <1>5, <1>6, FS_RemoveElement, FS_CardinalityType
  <1>8. OwnTables' = OwnTables \ mine /\ mine \subseteq OwnTables
    <2>1. OwnTables = UNION {TablesOf(s, tasks[s].own) : s \in Slot}
      BY DEF OwnTables, TablesOf
    <2>2. OwnTables' = UNION {TablesOf(s, tasks'[s].own) : s \in Slot}
      BY DEF OwnTables, TablesOf
    <2>3. \A s \in Slot : TablesOf(s, tasks'[s].own) = IF s = t THEN {} ELSE TablesOf(s, tasks[s].own)
      BY <1>3, <1>4 DEF TablesOf
    <2>4. \A s \in Slot \ {t} : TablesOf(s, tasks[s].own) \cap mine = {}
      BY DEF TablesOf
    <2>. HIDE DEF mine
    <2>5. mine \subseteq OwnTables
      BY <2>1 DEF mine
    <2>6. \A x : x \in OwnTables' <=> \E s \in Slot \ {t} : x \in TablesOf(s, tasks[s].own)
      BY <2>2, <2>3
    <2>7. \A x : x \in OwnTables <=> \E s \in Slot : x \in TablesOf(s, tasks[s].own)
      BY <2>1
    <2>8. \A x : x \in OwnTables' <=> x \in OwnTables /\ x \notin mine
      BY <2>4, <2>6, <2>7 DEF mine
    <2>. QED
      BY <2>5, <2>8
  <1>9. IsFiniteSet(OwnTables) /\ Cardinality(mine) = Cardinality(tasks[t].own)
    BY <1>1, OwnTablesFinite, TablesOfCount
  <1>. HIDE DEF mine
  <1>10. Cardinality(OwnTables \ mine) = Cardinality(OwnTables) - Cardinality(mine)
    <2>1. OwnTables \cap mine = mine
      BY <1>8
    <2>2. Cardinality(OwnTables \ mine) = Cardinality(OwnTables) - Cardinality(OwnTables \cap mine)
      BY <1>9, FS_Difference
    <2>. QED
      BY <2>1, <2>2
  <1>11. Cardinality(OwnTables) \in Nat /\ Cardinality(tasks[t].own) \in Nat
    BY <1>1, <1>9, FS_CardinalityType
  <1>12. kdir' = kdir /\ Cardinality(kdir) \in Nat
    <2>1. IsFiniteSet(kdir)
      BY <1>1, FiniteFrames DEF kdir
    <2>. QED
      BY <1>2, <2>1, FS_CardinalityType DEF kdir
  <1>. DEFINE a == Cardinality(Active)
              o == Cardinality(OwnTables)
              k == Cardinality(kdir)
              c == Cardinality(tasks[t].own)
  <1>13. /\ LeakedTables' = (tables - c - 2) - 2 - 2 * (a - 1) - (o - c) - k
         /\ LeakedTables = tables - 2 - 2 * a - o - k
    BY <1>2, <1>7, <1>8, <1>9, <1>10, <1>12 DEF LeakedTables
  <1>14. a \in Int /\ o \in Int /\ k \in Int /\ c \in Int
    BY <1>7, <1>11, <1>12
  <1>. HIDE DEF a, o, k, c
  <1>. QED
    BY <1>1, <1>13, <1>14

LEMMA ExitTidy ==
    ASSUME TidyInv, NEW t \in Slot, exit_task(t)
    PROVE  /\ tables' \in Int
           /\ \A s \in Slot : Tidy(tasks'[s])
           /\ \A s \in Slot \ {t} : tasks'[s] = tasks[s]
  <1>1. tasks \in [Slot -> Tasks] /\ tables \in Int /\ IsFiniteSet(tasks[t].own)
    BY DEF TidyInv, SpaceInv, TypeOK, Tidy
  <1>2. /\ tasks' = [tasks EXCEPT ![t] = NoTask]
        /\ tables' = tables - Cardinality(tasks[t].own) - 2
    BY DEF exit_task
  <1>3. Cardinality(tasks[t].own) \in Nat
    BY <1>1, FS_CardinalityType
  <1>. QED
    BY <1>1, <1>2, <1>3, NoTaskTidy DEF TidyInv

\* Every step is the end of one task, or ends none.
LEMMA TidyStep ==
    ASSUME TidyInv, [Next]_vars
    PROVE  KeepsTasks \/ \E t \in Slot : exit_task(t)
  <1>1. CASE Halt \/ UNCHANGED vars
    <2>1. tasks' = tasks /\ tables' = tables
      BY <1>1 DEF Halt, vars
    <2>. QED
      BY <2>1 DEF KeepsTasks, TidyInv
  <1>2. CASE ~Halt /\ Next
    <2>1. ASSUME NEW image \in Images, NEW strings \in 0 .. MaxStrings, init_elf(image, strings)
          PROVE  KeepsTasks
      <3>1. PICK t \in Slot : init_task(t)
        BY <1>2, <2>1, InitElfSpans DEF TidyInv
      <3>. QED
        BY <1>2, <3>1, InitTaskTidy
    <2>. QED
      BY <1>2, <2>1, LoadSegmentTidy, CopyStringTidy, MmapTidy, MmmapTidy, ResourceTidy DEF Next
  <1>. QED
    BY <1>1, <1>2

LEMMA TidyInit == Init => TidyInv
  <1>. SUFFICES ASSUME Init
                PROVE  TidyInv
    OBVIOUS
  <1>1. tables \in Int
    <2>1. Cardinality(Dirs(Reserved)) \in Nat
      BY FiniteFrames, FS_CardinalityType, VmmAssumption
    <2>. QED
      BY <2>1 DEF Init
  <1>2. \A t \in Slot : Tidy(tasks[t])
    BY NoTaskTidy DEF Init
  <1>. QED
    BY <1>1, <1>2, SpaceInit DEF TidyInv

LEMMA TidyNext == TidyInv /\ [Next]_vars => TidyInv'
  <1>. SUFFICES ASSUME TidyInv, [Next]_vars
                PROVE  TidyInv'
    OBVIOUS
  <1>1. SpaceInv'
    BY SpaceNext DEF TidyInv
  <1>2. tables' \in Int /\ \A s \in Slot : Tidy(tasks'[s])
    BY TidyStep, ExitTidy DEF KeepsTasks
  <1>3. \A s \in Slot : Tidy(tasks'[s]) => Tidy(tasks[s])'
    BY DEF Tidy
  <1>. QED
    BY <1>1, <1>2, <1>3 DEF TidyInv

\* When a task ends, no frame of it and no page of the .paging section stays
\* behind without an owner, whatever it loaded, mapped, shared or opened: what
\* vmm_resize and resource_dealloc count differently is the only exception.
THEOREM VmmExitLeavesNothing == Spec => ExitLeavesNothing
  <1>1. ASSUME TidyInv, [Next]_vars
        PROVE  \A t \in Active : ~ tasks'[t].active =>
                 /\ Leaked' \ Leaked \subseteq
                        IF tasks[t].num_resources % PerPage = 0 THEN tasks[t].array ELSE {}
                 /\ LeakedTables' = LeakedTables
    <2>. SUFFICES ASSUME NEW t \in Active, ~ tasks'[t].active
                  PROVE  /\ Leaked' \ Leaked \subseteq
                                IF tasks[t].num_resources % PerPage = 0 THEN tasks[t].array ELSE {}
                         /\ LeakedTables' = LeakedTables
      OBVIOUS
    <2>1. t \in Slot /\ tasks[t].active
      BY DEF Active
    <2>2. PICK s \in Slot : exit_task(s)
      BY <1>1, <2>1, TidyStep DEF KeepsTasks
    <2>3. s = t
      BY <1>1, <2>1, <2>2, ExitTidy
    <2>. QED
      BY <1>1, <2>2, <2>3, ExitFrames, ExitTables
  <1>2. TidyInv /\ [Next]_vars =>
            [\A t \in Active : ~ tasks'[t].active =>
                 /\ Leaked' \ Leaked \subseteq
                        IF tasks[t].num_resources % PerPage = 0 THEN tasks[t].array ELSE {}
                 /\ LeakedTables' = LeakedTables]_vars
    BY <1>1
  <1>. QED
    BY <1>2, TidyInit, TidyNext, PTL DEF Spec, ExitLeavesNothing

=============================================================================
