-------------------------- MODULE SchedulerProofs --------------------------
(***************************************************************************)
(* Proofs about processes and their scheduling, for any number of task     *)
(* slots, terminals, processes and any length of delay.                    *)
(*                                                                         *)
(* The safety properties of Scheduler are not inductive: they need that    *)
(* pids are not shared between slots, that only a live task is pinned,     *)
(* that the address space in force is the running task's or the kernel's,  *)
(* and that a live task's address space has never been destroyed.          *)
(***************************************************************************)
EXTENDS Scheduler, TLAPS

\* Pids are handed out once, and an address space that does not exist yet has
\* not been destroyed.
PidsUnique ==
    /\ \A i \in Slot : tasks[i].pid # NONE => tasks[i].pid < current_pid
    /\ \A i, j \in Slot : i # j /\ tasks[i].pid = tasks[j].pid => tasks[i].pid = NONE
    /\ \A p \in Pid : p >= current_pid => destroyed[p] = 0

\* What holds of a live task, and of the slot that is current.
SlotsOK ==
    /\ \A i \in Slot : tasks[i].active => /\ tasks[i].pid # NONE
                                          /\ destroyed[tasks[i].pid] = 0
    /\ \A i \in Slot : tasks[i].pin => tasks[i].active
    /\ Self.pid # NONE

\* The address space in force, and why it may be the kernel's.
SpaceOK ==
    /\ cr3 = KERNEL \/ cr3 = Self.pid
    /\ cr3 = Self.pid => Self.active
    /\ Self.active /\ cr3 = KERNEL => orphaned

\* What each mode says about the task that is current.
ModeOK ==
    /\ mode = "user" \/ Exiting => is_scheduler_running
    /\ mode \in {"user", "noshed"} /\ ~Self.active => Self.pid \in revived

\* The kernel stack of the current task is the one the TSS names.
StacksOK == ~woken => esp0 = Self.pid /\ stale = {} /\ ~rolled_back

\* The inductive invariant.
Inv ==
    /\ TypeOK
    /\ PidsUnique
    /\ SlotsOK
    /\ SpaceOK
    /\ ModeOK
    /\ StacksOK
    /\ ReleasedExactlyOnce

----------------------------------------------------------------------------
(* schedule *)

\* u is t but for the delays.
SameButWait(t, u) ==
    /\ u \in [Slot -> Task]
    /\ \A i \in Slot : /\ u[i].active = t[i].active /\ u[i].pid = t[i].pid
                       /\ u[i].pin = t[i].pin /\ u[i].term = t[i].term
                       /\ u[i].resources = t[i].resources

LEMMA ChargedSame ==
    ASSUME NEW t \in [Slot -> Task], NEW lo, NEW hi, NEW d \in 0 .. MaxWait
    PROVE  SameButWait(t, Charged(t, lo, hi, d))
  <1>. DEFINE u == Charged(t, lo, hi, d)
  <1>1. ASSUME NEW i \in Slot
        PROVE  /\ u[i] \in Task
               /\ u[i].active = t[i].active /\ u[i].pid = t[i].pid
               /\ u[i].pin = t[i].pin /\ u[i].term = t[i].term
               /\ u[i].resources = t[i].resources
    <2>1. t[i] \in Task
      OBVIOUS
    <2>2. t[i].wait_time \in 0 .. MaxWait
      BY <2>1 DEF Task
    <2>3. (IF t[i].wait_time > d THEN t[i].wait_time - d ELSE 0) \in 0 .. MaxWait
      BY <2>2, ConstantsAssumption
    <2>4. u[i] = t[i] \/
          u[i] = [t[i] EXCEPT !.wait_time =
                     IF t[i].wait_time > d THEN t[i].wait_time - d ELSE 0]
      BY DEF Charged
    <2>. QED
      BY <2>1, <2>3, <2>4 DEF Task
  <1>2. u = [i \in Slot |-> u[i]]
    BY DEF Charged
  <1>. QED
    BY <1>1, <1>2 DEF SameButWait

LEMMA SameTrans ==
    ASSUME NEW t, NEW u, NEW v, SameButWait(t, u), SameButWait(u, v)
    PROVE  SameButWait(t, v)
  BY DEF SameButWait

LEMMA SameRefl == ASSUME NEW t \in [Slot -> Task] PROVE SameButWait(t, t)
  BY DEF SameButWait

\* Slot i becomes current: all that schedule can do besides panic.
Chosen(i, st, tss) ==
    /\ tasks[i].active
    /\ current_task' = i
    /\ SameButWait(tasks, tasks')
    /\ mode' = "user"
    /\ elapsed' \in 0 .. MaxWait
    /\ stale' = st \ {i}
    /\ rolled_back' = (rolled_back \/ i \in st)
    /\ esp0' = IF tss THEN tasks[i].pid ELSE esp0
    /\ \/ cr3' = tasks[i].pid /\ orphaned' = FALSE
       \/ i = current_task /\ cr3' = cr3 /\ orphaned' = orphaned

Panicked ==
    /\ mode' = "panic"
    /\ UNCHANGED <<tasks, current_task, elapsed, cr3, esp0, stale, rolled_back, orphaned>>

LEMMA SwitchToChosen ==
    ASSUME NEW i \in Slot, NEW tk, NEW st, NEW tss \in BOOLEAN,
           tasks[i].active, SameButWait(tasks, tk), SwitchTo(i, tk, st, tss)
    PROVE  Chosen(i, st, tss)
  BY ConstantsAssumption DEF SwitchTo, Chosen, Resume, SetTss

LEMMA ScheduleOutcome ==
    ASSUME Inv, NEW d \in 0 .. MaxWait, NEW st, NEW tss \in BOOLEAN,
           schedule(d, st, tss)
    PROVE  Panicked \/ \E i \in Slot : Chosen(i, st, tss)
  <1>. DEFINE tk == Charged(tasks, current_task + 1, MaxTasks - 1, d)
  <1>0. tasks \in [Slot -> Task] /\ current_task \in Slot
    BY DEF Inv, TypeOK
  <1>tk. SameButWait(tasks, tk) /\ tk \in [Slot -> Task]
    BY <1>0, ChargedSame DEF SameButWait
  <1>1. CASE StayPinned(d, st, tss)
    <2>1. Self.active
      BY <1>1, <1>0 DEF StayPinned, Pinned, Inv, SlotsOK, Self
    <2>2. SameButWait(tasks, tasks')
      BY <1>1, <1>0, SameRefl DEF StayPinned
    <2>3. Chosen(current_task, st, tss)
      BY <1>1, <2>1, <2>2 DEF StayPinned, Chosen, Resume, SetTss, Self
    <2>. QED BY <1>0, <2>3
  <1>2. CASE SwitchForward(d, st, tss)
    <2>1. PICK i \in Slot :
            /\ IsLeast(i, Eligible(tasks, current_task + 1, d))
            /\ SwitchTo(i, Charged(tasks, current_task + 1, i, d), st, tss)
      BY <1>2 DEF SwitchForward
    <2>2. tasks[i].active
      BY <2>1 DEF IsLeast, Eligible
    <2>3. SameButWait(tasks, Charged(tasks, current_task + 1, i, d))
      BY <1>0, ChargedSame
    <2>. QED BY <2>1, <2>2, <2>3, SwitchToChosen
  <1>3. CASE SwitchWrapping(d, st, tss)
    <2>1. PICK i \in Slot :
            /\ IsLeast(i, Eligible(tk, 0, d))
            /\ SwitchTo(i, Charged(tk, 0, i, d), st, tss)
      BY <1>3 DEF SwitchWrapping
    <2>2. tasks[i].active
      BY <2>1, <1>tk DEF IsLeast, Eligible, SameButWait
    <2>3. SameButWait(tk, Charged(tk, 0, i, d))
      BY <1>tk, ChargedSame
    <2>4. SameButWait(tasks, Charged(tk, 0, i, d))
      BY <1>tk, <2>3, SameTrans
    <2>. QED BY <2>1, <2>2, <2>4, SwitchToChosen
  <1>4. CASE SwitchIgnoringWait(d, st, tss)
    <2>1. PICK i \in Slot :
            /\ IsLeast(i, {j \in Slot : tasks[j].active})
            /\ SwitchTo(i, Charged(tk, 0, MaxTasks - 1, d), st, tss)
      BY <1>4 DEF SwitchIgnoringWait
    <2>2. tasks[i].active
      BY <2>1 DEF IsLeast
    <2>3. SameButWait(tk, Charged(tk, 0, MaxTasks - 1, d))
      BY <1>tk, ChargedSame
    <2>4. SameButWait(tasks, Charged(tk, 0, MaxTasks - 1, d))
      BY <1>tk, <2>3, SameTrans
    <2>. QED BY <2>1, <2>2, <2>4, SwitchToChosen
  <1>5. CASE AllDead
    BY <1>5 DEF AllDead, Panicked
  <1>. QED
    BY <1>1, <1>2, <1>3, <1>4, <1>5 DEF schedule

\* After schedule, called where the TSS is set afterwards or an exit has been
\* woken, the invariant holds again.
LEMMA ScheduleInv ==
    ASSUME Inv, NEW d \in 0 .. MaxWait, NEW st \in SUBSET Slot, NEW tss \in BOOLEAN,
           is_scheduler_running, schedule(d, st, tss),
           current_term' \in Term, woken' \in BOOLEAN, woken => woken',
           ~woken' => tss /\ st = {},
           UNCHANGED <<current_pid, is_scheduler_running, destroyed, revived>>
    PROVE  Inv'
  <1>. USE DEF Inv
  <1>0. /\ tasks \in [Slot -> Task] /\ current_task \in Slot /\ esp0 \in Pid
        /\ mode \in Mode /\ stale \subseteq Slot /\ rolled_back \in BOOLEAN
        /\ cr3 \in Pid \cup {KERNEL} /\ destroyed \in [Pid -> 0 .. 2]
        /\ orphaned \in BOOLEAN /\ current_pid \in 0 .. MaxPid
        /\ is_scheduler_running \in BOOLEAN /\ elapsed \in 0 .. MaxWait
        /\ woken \in BOOLEAN /\ revived \subseteq Pid
    BY DEF TypeOK
  <1>1. CASE Panicked
    <2>1. TypeOK'
      BY <1>0, <1>1 DEF TypeOK, Panicked, Mode
    <2>2. PidsUnique' /\ SlotsOK' /\ SpaceOK'
      BY <1>1 DEF Panicked, PidsUnique, SlotsOK, SpaceOK, Self
    <2>3. ModeOK'
      BY <1>1 DEF Panicked, ModeOK, Self, Exiting
    <2>4. StacksOK'
      BY <1>1 DEF Panicked, StacksOK, Self
    <2>5. ReleasedExactlyOnce'
      BY <1>1 DEF Panicked, ReleasedExactlyOnce, Self
    <2>. QED BY <2>1, <2>2, <2>3, <2>4, <2>5
  <1>2. ASSUME NEW i \in Slot, Chosen(i, st, tss) PROVE Inv'
    <2>1. /\ tasks' \in [Slot -> Task]
          /\ \A j \in Slot : /\ tasks'[j].active = tasks[j].active
                             /\ tasks'[j].pid = tasks[j].pid
                             /\ tasks'[j].pin = tasks[j].pin
      BY <1>2 DEF Chosen, SameButWait
    <2>2. tasks[i] \in Task /\ tasks[i].active /\ tasks[i].pid # NONE
      BY <1>0, <1>2 DEF Chosen, SlotsOK
    <2>3. tasks[i].pid \in Pid /\ tasks[i].pid # KERNEL
      BY <2>2 DEF Task, NONE, KERNEL
    <2>4. Self'.active /\ Self'.pid = tasks[i].pid /\ current_task' = i
      BY <1>2, <2>1, <2>2 DEF Chosen, Self
    <2>5. rolled_back' \in BOOLEAN
      BY <1>0, <1>2 DEF Chosen
    <2>6. TypeOK'
      BY <1>0, <1>2, <2>1, <2>3, <2>5 DEF TypeOK, Chosen, Mode
    <2>7. PidsUnique'
      BY <2>1 DEF PidsUnique
    <2>8. SlotsOK'
      BY <2>1, <2>2, <2>4 DEF SlotsOK
    <2>9. SpaceOK'
      <3>1. CASE cr3' = tasks[i].pid
        BY <3>1, <2>3, <2>4 DEF SpaceOK
      <3>2. CASE i = current_task /\ cr3' = cr3 /\ orphaned' = orphaned
        BY <3>2, <2>2, <2>4 DEF SpaceOK, Self
      <3>. QED BY <1>2, <3>1, <3>2 DEF Chosen
    <2>10. ModeOK'
      BY <1>2, <2>4 DEF Chosen, ModeOK, Exiting
    <2>11. StacksOK'
      <3>. SUFFICES ASSUME ~woken'
                    PROVE  esp0' = Self'.pid /\ stale' = {} /\ ~rolled_back'
        BY DEF StacksOK
      <3>1. tss /\ st = {} /\ ~woken
        BY <1>0
      <3>2. ~rolled_back
        BY <3>1 DEF StacksOK
      <3>. QED BY <1>2, <2>4, <3>1, <3>2 DEF Chosen
    <2>12. ReleasedExactlyOnce'
      BY <1>0, <1>2, <2>1 DEF ReleasedExactlyOnce, Chosen
    <2>. QED BY <2>6, <2>7, <2>8, <2>9, <2>10, <2>11, <2>12
  <1>. QED
    BY <1>1, <1>2, ScheduleOutcome

----------------------------------------------------------------------------
(* exit_task *)

LEMMA ExitSelfInv ==
    ASSUME Inv, NEW kind, ExitSelf(kind),
           \/ mode = "user" /\ kind \in {"exit_syscall", "exit_exception"}
           \/ mode = "noshed" /\ kind = "exit_noshed"
    PROVE  Inv'
  <1>. USE DEF Inv
  <1>0. /\ tasks \in [Slot -> Task] /\ current_task \in Slot
        /\ destroyed \in [Pid -> 0 .. 2]
        /\ Self \in Task /\ Self.pid \in Pid /\ Self.pid # NONE
    BY DEF TypeOK, Self, SlotsOK, Task
  <1>1. CASE Self.active \/ ~Self.resources
    <2>1. /\ mode' = kind
          /\ tasks' = [tasks EXCEPT ![current_task].active = FALSE,
                                    ![current_task].pin = FALSE]
          /\ cr3' = KERNEL
          /\ destroyed' = [destroyed EXCEPT ![Self.pid] = Once(@)]
          /\ UNCHANGED <<current_task, current_pid, is_scheduler_running, elapsed,
                         current_term, esp0, stale, rolled_back, orphaned, woken, revived>>
      BY <1>1 DEF ExitSelf
    <2>2. /\ tasks' \in [Slot -> Task]
          /\ ~tasks'[current_task].active /\ ~tasks'[current_task].pin
          /\ tasks'[current_task].pid = Self.pid
          /\ \A j \in Slot \ {current_task} : tasks'[j] = tasks[j]
      BY <1>0, <2>1 DEF Task, Self
    <2>3. \A j \in Slot : tasks'[j].pid = tasks[j].pid
      BY <2>2 DEF Self
    <2>4. /\ destroyed' \in [Pid -> 0 .. 2]
          /\ \A p \in Pid \ {Self.pid} : destroyed'[p] = destroyed[p]
          /\ destroyed'[Self.pid] \in {1, 2}
          /\ destroyed[Self.pid] = 0 => destroyed'[Self.pid] = 1
      BY <1>0, <2>1 DEF Once
    <2>5. TypeOK'
      BY <2>1, <2>2, <2>4 DEF TypeOK, Mode
    <2>6. PidsUnique'
      <3>1. Self.pid < current_pid
        BY <1>0 DEF PidsUnique, Self
      <3>2. current_pid \in Nat /\ Self.pid \in Nat
        BY <1>0, ConstantsAssumption DEF TypeOK, Pid
      <3>3. \A p \in Pid : p >= current_pid => destroyed'[p] = 0
        BY <3>1, <3>2, <2>4 DEF PidsUnique, Pid
      <3>. QED BY <2>1, <2>3, <3>3 DEF PidsUnique
    <2>7. SlotsOK'
      <3>1. ASSUME NEW j \in Slot, tasks'[j].active
            PROVE  tasks'[j].pid # NONE /\ destroyed'[tasks'[j].pid] = 0
        <4>1. j # current_task /\ tasks'[j] = tasks[j] /\ tasks[j].active
          BY <3>1, <2>2
        <4>2. tasks[j].pid # NONE /\ destroyed[tasks[j].pid] = 0 /\ tasks[j].pid # Self.pid
          BY <4>1, <1>0 DEF SlotsOK, PidsUnique, Self
        <4>3. tasks[j].pid \in Pid
          BY <4>2, <1>0 DEF Task
        <4>. QED BY <4>1, <4>2, <4>3, <2>4
      <3>2. \A j \in Slot : tasks'[j].pin => tasks'[j].active
        BY <2>2 DEF SlotsOK
      <3>. QED BY <1>0, <2>1, <2>2, <3>1, <3>2 DEF SlotsOK, Self
    <2>8. SpaceOK'
      BY <1>0, <2>1, <2>2 DEF SpaceOK, Self, KERNEL, NONE, Pid
    <2>9. ModeOK'
      BY <2>1, <2>2 DEF ModeOK, Self, Exiting
    <2>10. StacksOK'
      BY <2>1, <2>2 DEF StacksOK, Self
    <2>11. ReleasedExactlyOnce'
      <3>1. /\ Self.pid \notin revived => Self.active
            /\ Self.active => destroyed[Self.pid] = 0
        BY <1>0 DEF ModeOK, SlotsOK, Self
      <3>2. ASSUME NEW j \in Slot, tasks'[j].pid # NONE
            PROVE  /\ tasks'[j].active <=> destroyed'[tasks'[j].pid] = 0
                   /\ destroyed'[tasks'[j].pid] > 1 => tasks'[j].pid \in revived'
        <4>1. CASE j = current_task
          BY <4>1, <2>1, <2>2, <2>4, <3>1
        <4>2. CASE j # current_task
          <5>1. tasks'[j] = tasks[j] /\ tasks[j].pid # Self.pid
            BY <4>2, <3>2, <2>2, <1>0 DEF PidsUnique, Self
          <5>2. tasks[j].pid \in Pid
            BY <5>1, <3>2, <1>0 DEF Task
          <5>. QED BY <5>1, <5>2, <2>1, <2>4, <3>2 DEF ReleasedExactlyOnce
        <4>. QED BY <4>1, <4>2
      <3>3. mode' # "crash"
        BY <2>1
      <3>. QED BY <3>2, <3>3 DEF ReleasedExactlyOnce
    <2>. QED BY <2>5, <2>6, <2>7, <2>8, <2>9, <2>10, <2>11
  <1>2. CASE ~Self.active /\ Self.resources
    <2>1. mode' = "crash" /\ UNCHANGED <<tasks, cr3, destroyed, current_task, current_pid,
             is_scheduler_running, elapsed, current_term, esp0, stale, rolled_back,
             orphaned, woken, revived>>
      BY <1>2 DEF ExitSelf
    <2>2. Self.pid \in revived
      BY <1>2 DEF ModeOK
    <2>3. TypeOK'
      BY <2>1 DEF TypeOK, Mode
    <2>4. PidsUnique' /\ SlotsOK' /\ SpaceOK' /\ StacksOK'
      BY <2>1 DEF PidsUnique, SlotsOK, SpaceOK, StacksOK, Self
    <2>5. ModeOK' /\ ReleasedExactlyOnce'
      BY <2>1, <2>2 DEF ModeOK, ReleasedExactlyOnce, Self, Exiting
    <2>. QED BY <2>3, <2>4, <2>5
  <1>. QED
    BY <1>1, <1>2, <1>0 DEF Task

LEMMA ExitOtherInv ==
    ASSUME Inv, Running, NEW k \in Slot \ {current_task}, tasks[k].active, ExitOther(k)
    PROVE  Inv'
  <1>. USE DEF Inv
  <1>0. /\ tasks \in [Slot -> Task] /\ current_task \in Slot
        /\ destroyed \in [Pid -> 0 .. 2] /\ tasks[k] \in Task
        /\ tasks[k].pid \in Pid /\ tasks[k].pid # NONE /\ destroyed[tasks[k].pid] = 0
    BY DEF TypeOK, SlotsOK, Task
  <1>1. /\ tasks' = [tasks EXCEPT ![k].active = FALSE, ![k].pin = FALSE]
        /\ cr3' = KERNEL
        /\ destroyed' = [destroyed EXCEPT ![tasks[k].pid] = Once(@)]
        /\ orphaned' = TRUE
        /\ UNCHANGED <<current_task, current_pid, is_scheduler_running, elapsed,
                       current_term, mode, esp0, stale, rolled_back, woken, revived>>
    BY DEF ExitOther
  <1>2. /\ tasks' \in [Slot -> Task]
        /\ ~tasks'[k].active /\ ~tasks'[k].pin /\ tasks'[k].pid = tasks[k].pid
        /\ \A j \in Slot \ {k} : tasks'[j] = tasks[j]
    BY <1>0, <1>1 DEF Task
  <1>3. \A j \in Slot : tasks'[j].pid = tasks[j].pid
    BY <1>2
  <1>4. /\ destroyed' \in [Pid -> 0 .. 2]
        /\ \A p \in Pid \ {tasks[k].pid} : destroyed'[p] = destroyed[p]
        /\ destroyed'[tasks[k].pid] = 1
    BY <1>0, <1>1 DEF Once
  <1>5. Self' = Self /\ Self.active
    BY <1>0, <1>1, <1>2 DEF Self, Running
  <1>6. TypeOK'
    BY <1>1, <1>2, <1>4 DEF TypeOK
  <1>7. PidsUnique'
    <2>1. tasks[k].pid < current_pid
      BY <1>0 DEF PidsUnique
    <2>2. current_pid \in Nat /\ tasks[k].pid \in Nat
      BY <1>0, ConstantsAssumption DEF TypeOK, Pid
    <2>3. \A p \in Pid : p >= current_pid => destroyed'[p] = 0
      BY <2>1, <2>2, <1>4 DEF PidsUnique, Pid
    <2>. QED BY <1>1, <1>3, <2>3 DEF PidsUnique
  <1>8. SlotsOK'
    <2>1. ASSUME NEW j \in Slot, tasks'[j].active
          PROVE  tasks'[j].pid # NONE /\ destroyed'[tasks'[j].pid] = 0
      <3>1. j # k /\ tasks'[j] = tasks[j] /\ tasks[j].active
        BY <2>1, <1>2
      <3>2. tasks[j].pid # NONE /\ destroyed[tasks[j].pid] = 0 /\ tasks[j].pid # tasks[k].pid
        BY <3>1, <1>0 DEF SlotsOK, PidsUnique
      <3>3. tasks[j].pid \in Pid
        BY <3>2, <1>0 DEF Task
      <3>. QED BY <3>1, <3>2, <3>3, <1>4
    <2>2. \A j \in Slot : tasks'[j].pin => tasks'[j].active
      BY <1>2 DEF SlotsOK
    <2>. QED BY <1>5, <2>1, <2>2 DEF SlotsOK
  <1>9. SpaceOK'
    BY <1>1, <1>5 DEF SpaceOK, SlotsOK, KERNEL, NONE
  <1>10. ModeOK' /\ StacksOK'
    BY <1>1, <1>5 DEF ModeOK, StacksOK, Exiting
  <1>11. ReleasedExactlyOnce'
    <2>. SUFFICES ASSUME NEW j \in Slot, tasks'[j].pid # NONE
                  PROVE  /\ tasks'[j].active <=> destroyed'[tasks'[j].pid] = 0
                         /\ destroyed'[tasks'[j].pid] > 1 => tasks'[j].pid \in revived'
      BY <1>1, <1>5 DEF ReleasedExactlyOnce
    <2>1. CASE j = k
      BY <2>1, <1>2, <1>4
    <2>2. CASE j # k
      <3>1. tasks'[j] = tasks[j] /\ tasks[j].pid # tasks[k].pid
        BY <2>2, <1>2, <1>0 DEF PidsUnique
      <3>2. tasks[j].pid \in Pid
        BY <3>1, <1>0 DEF Task
      <3>. QED BY <3>1, <3>2, <1>1, <1>4 DEF ReleasedExactlyOnce
    <2>. QED BY <2>1, <2>2
  <1>. QED
    BY <1>6, <1>7, <1>8, <1>9, <1>10, <1>11

----------------------------------------------------------------------------
(* Spawning *)

LEMMA NewTaskTyped ==
    ASSUME NEW k \in Slot, tasks \in [Slot -> Task], current_pid \in Pid, Self.term \in Term
    PROVE  /\ NewTask(k) \in [Slot -> Task]
           /\ NewTask(k)[k].active /\ NewTask(k)[k].pid = current_pid /\ ~NewTask(k)[k].pin
           /\ \A j \in Slot \ {k} : NewTask(k)[j] = tasks[j]
  <1>. DEFINE r == [active |-> TRUE, pid |-> current_pid, wait_time |-> 0,
                    pin |-> FALSE, term |-> Self.term, resources |-> FALSE]
  <1>1. 0 \in 0 .. MaxWait
    BY ConstantsAssumption
  <1>2. r \in Task
    BY <1>1 DEF Task
  <1>3. NewTask(k) = [tasks EXCEPT ![k] = r]
    BY DEF NewTask
  <1>4. r.active /\ r.pid = current_pid /\ ~r.pin
    OBVIOUS
  <1>. HIDE DEF r
  <1>. QED
    BY <1>2, <1>3, <1>4

\* A new task in a free slot takes the next pid and disturbs nobody.
LEMMA SpawnInv ==
    ASSUME Inv, sys_spawn
    PROVE  Inv'
  <1>. USE DEF Inv
  <1>0. PICK k \in Slot :
          /\ IsLeast(k, Inactive)
          /\ tasks' = NewTask(k)
          /\ stale' = stale \ {k}
          /\ current_pid' = current_pid + 1
          /\ UNCHANGED <<current_task, is_scheduler_running, elapsed, current_term, mode,
                         cr3, esp0, rolled_back, destroyed, orphaned, woken, revived>>
    BY DEF sys_spawn
  <1>1. /\ tasks \in [Slot -> Task] /\ current_task \in Slot /\ Self.term \in Term
        /\ Self.active /\ current_pid \in Nat /\ current_pid < MaxPid /\ current_pid \in Pid
        /\ destroyed \in [Pid -> 0 .. 2]
    BY ConstantsAssumption DEF TypeOK, Self, Task, sys_spawn, Running, Pid
  <1>2. k # current_task
    BY <1>0, <1>1 DEF IsLeast, Inactive, Self
  <1>3. /\ tasks' \in [Slot -> Task]
        /\ tasks'[k].active /\ tasks'[k].pid = current_pid /\ ~tasks'[k].pin
        /\ \A j \in Slot \ {k} : tasks'[j] = tasks[j]
    BY <1>0, <1>1, NewTaskTyped
  <1>4. Self' = Self
    BY <1>0, <1>1, <1>2, <1>3 DEF Self
  <1>5. \A j \in Slot \ {k} : tasks[j].pid # NONE => tasks[j].pid < current_pid
    BY DEF PidsUnique
  <1>5a. current_pid # NONE /\ destroyed[current_pid] = 0
    BY <1>1 DEF PidsUnique, NONE
  <1>6. TypeOK'
    BY <1>0, <1>1, <1>3, ConstantsAssumption DEF TypeOK
  <1>7. PidsUnique'
    <2>1. \A j \in Slot : tasks[j].pid \in Pid \cup {NONE}
      BY <1>1 DEF Task
    <2>2. \A j \in Slot : tasks'[j].pid # NONE => tasks'[j].pid < current_pid'
      BY <1>0, <1>1, <1>3, <1>5, <2>1 DEF Pid
    <2>3. \A i, j \in Slot : i # j /\ tasks'[i].pid = tasks'[j].pid => tasks'[i].pid = NONE
      BY <1>1, <1>3, <1>5, <1>5a, <2>1 DEF PidsUnique, Pid
    <2>4. \A p \in Pid : p >= current_pid' => destroyed'[p] = 0
      BY <1>0, <1>1 DEF PidsUnique, Pid
    <2>. QED BY <2>2, <2>3, <2>4 DEF PidsUnique
  <1>8. SlotsOK'
    BY <1>0, <1>3, <1>4, <1>5a DEF SlotsOK
  <1>9. SpaceOK' /\ ModeOK'
    BY <1>0, <1>4 DEF SpaceOK, ModeOK, Exiting
  <1>10. StacksOK'
    BY <1>0, <1>4 DEF StacksOK
  <1>11. ReleasedExactlyOnce'
    BY <1>0, <1>3, <1>4, <1>5a DEF ReleasedExactlyOnce
  <1>. QED
    BY <1>6, <1>7, <1>8, <1>9, <1>10, <1>11

\* The same when the caller ends in the middle of it.
LEMMA SpawnBadInv ==
    ASSUME Inv, SpawnBadArguments
    PROVE  Inv'
  <1>. USE DEF Inv
  <1>0. PICK k \in Slot :
          /\ IsLeast(k, Inactive)
          /\ tasks' = [NewTask(k) EXCEPT ![current_task].active = FALSE,
                                         ![current_task].pin = FALSE]
          /\ stale' = stale \ {k}
    BY DEF SpawnBadArguments
  <1>00. /\ current_pid' = current_pid + 1
         /\ cr3' = KERNEL
         /\ destroyed' = [destroyed EXCEPT ![Self.pid] = Once(@)]
         /\ mode' = "exit_exception"
         /\ UNCHANGED <<current_task, is_scheduler_running, elapsed, current_term, esp0,
                        rolled_back, orphaned, woken, revived>>
    BY DEF SpawnBadArguments
  <1>1. /\ tasks \in [Slot -> Task] /\ current_task \in Slot /\ Self.term \in Term
        /\ Self.active /\ current_pid \in Nat /\ current_pid < MaxPid /\ current_pid \in Pid
        /\ destroyed \in [Pid -> 0 .. 2] /\ is_scheduler_running
    BY ConstantsAssumption
       DEF TypeOK, Self, Task, SpawnBadArguments, Running, Pid, ModeOK
  <1>2. k # current_task
    BY <1>0, <1>1 DEF IsLeast, Inactive, Self
  <1>3. /\ tasks' \in [Slot -> Task]
        /\ tasks'[k].active /\ tasks'[k].pid = current_pid /\ ~tasks'[k].pin
        /\ \A j \in Slot \ {k, current_task} : tasks'[j] = tasks[j]
        /\ ~tasks'[current_task].active /\ ~tasks'[current_task].pin
        /\ tasks'[current_task].pid = Self.pid
    <2>1. /\ NewTask(k) \in [Slot -> Task]
          /\ NewTask(k)[k].active /\ NewTask(k)[k].pid = current_pid /\ ~NewTask(k)[k].pin
          /\ \A j \in Slot \ {k} : NewTask(k)[j] = tasks[j]
      BY <1>1, NewTaskTyped
    <2>2. NewTask(k)[current_task] = Self
      BY <1>1, <1>2, <2>1 DEF Self
    <2>3. Self \in Task
      BY <1>1 DEF Self
    <2>4. /\ [Self EXCEPT !.active = FALSE, !.pin = FALSE] \in Task
          /\ ~[Self EXCEPT !.active = FALSE, !.pin = FALSE].active
          /\ ~[Self EXCEPT !.active = FALSE, !.pin = FALSE].pin
          /\ [Self EXCEPT !.active = FALSE, !.pin = FALSE].pid = Self.pid
      BY <2>3 DEF Task
    <2>5. tasks' = [NewTask(k) EXCEPT ![current_task] =
                        [Self EXCEPT !.active = FALSE, !.pin = FALSE]]
      BY <1>0, <1>1, <2>1, <2>2, Zenon
    <2>. QED
      BY <1>1, <1>2, <2>1, <2>4, <2>5
  <1>4. Self' = tasks'[current_task]
    BY <1>00 DEF Self
  <1>5. \A j \in Slot \ {k} : tasks[j].pid # NONE => tasks[j].pid < current_pid
    BY DEF PidsUnique
  <1>5a. current_pid # NONE /\ destroyed[current_pid] = 0
    BY <1>1 DEF PidsUnique, NONE
  <1>5b. /\ Self.pid # NONE /\ Self.pid \in Pid /\ Self.pid < current_pid
         /\ destroyed[Self.pid] = 0
    BY <1>1 DEF SlotsOK, PidsUnique, Self, Task
  <1>5c. /\ destroyed' \in [Pid -> 0 .. 2]
         /\ \A p \in Pid \ {Self.pid} : destroyed'[p] = destroyed[p]
         /\ destroyed'[Self.pid] = 1
    BY <1>00, <1>1, <1>5b DEF Once
  <1>5d. \A j \in Slot : tasks[j].pid \in Pid \cup {NONE}
    BY <1>1 DEF Task
  <1>5e. \A j \in Slot \ {k} : tasks'[j].pid = tasks[j].pid
    BY <1>3 DEF Self
  <1>6. TypeOK'
    BY <1>0, <1>00, <1>1, <1>3, <1>5c, ConstantsAssumption DEF TypeOK, Mode
  <1>7. PidsUnique'
    <2>2. \A j \in Slot : tasks'[j].pid # NONE => tasks'[j].pid < current_pid'
      BY <1>00, <1>1, <1>3, <1>5, <1>5d, <1>5e DEF Pid
    <2>3. \A i, j \in Slot : i # j /\ tasks'[i].pid = tasks'[j].pid => tasks'[i].pid = NONE
      BY <1>1, <1>3, <1>5, <1>5a, <1>5d, <1>5e DEF PidsUnique, Pid
    <2>4. \A p \in Pid : p >= current_pid' => destroyed'[p] = 0
      BY <1>00, <1>1, <1>5b, <1>5c DEF PidsUnique, Pid
    <2>. QED BY <2>2, <2>3, <2>4 DEF PidsUnique
  <1>8. SlotsOK'
    <2>1. ASSUME NEW j \in Slot, tasks'[j].active
          PROVE  tasks'[j].pid # NONE /\ destroyed'[tasks'[j].pid] = 0
      <3>1. CASE j = k
        BY <3>1, <1>1, <1>3, <1>5a, <1>5b, <1>5c
      <3>2. CASE j # k
        <4>1. j # current_task /\ tasks'[j] = tasks[j] /\ tasks[j].active
          BY <2>1, <3>2, <1>3
        <4>2. tasks[j].pid # NONE /\ destroyed[tasks[j].pid] = 0 /\ tasks[j].pid # Self.pid
          BY <4>1, <1>1 DEF SlotsOK, PidsUnique, Self
        <4>. QED BY <4>1, <4>2, <1>5c, <1>5d
      <3>. QED BY <3>1, <3>2
    <2>2. \A j \in Slot : tasks'[j].pin => tasks'[j].active
      BY <1>3 DEF SlotsOK
    <2>. QED BY <1>3, <1>4, <1>5b, <2>1, <2>2 DEF SlotsOK
  <1>9. SpaceOK'
    BY <1>00, <1>3, <1>4, <1>5b DEF SpaceOK, KERNEL, NONE
  <1>10. ModeOK' /\ StacksOK'
    BY <1>0, <1>00, <1>1, <1>3, <1>4 DEF ModeOK, StacksOK, Exiting
  <1>11. ReleasedExactlyOnce'
    <2>. SUFFICES ASSUME NEW j \in Slot, tasks'[j].pid # NONE
                  PROVE  /\ tasks'[j].active <=> destroyed'[tasks'[j].pid] = 0
                         /\ destroyed'[tasks'[j].pid] > 1 => tasks'[j].pid \in revived'
      BY <1>00 DEF ReleasedExactlyOnce
    <2>1. CASE j = k
      BY <2>1, <1>1, <1>3, <1>5a, <1>5b, <1>5c
    <2>2. CASE j = current_task
      BY <2>2, <1>3, <1>5c
    <2>3. CASE j # k /\ j # current_task
      <3>1. tasks'[j] = tasks[j] /\ tasks[j].pid # Self.pid
        BY <2>3, <1>1, <1>3 DEF PidsUnique, Self
      <3>. QED BY <3>1, <1>00, <1>5c, <1>5d DEF ReleasedExactlyOnce
    <2>. QED BY <2>1, <2>2, <2>3
  <1>. QED
    BY <1>6, <1>7, <1>8, <1>9, <1>10, <1>11

----------------------------------------------------------------------------
(* The other steps *)

\* A step that changes nothing but one task's pin, delay, terminal or mark of
\* resources; only a live task is pinned.
LEMMA SetFieldInv ==
    ASSUME Inv, NEW t \in [Slot -> Task], SetField(t),
           \A j \in Slot : /\ t[j].active = tasks[j].active /\ t[j].pid = tasks[j].pid
                           /\ t[j].pin => tasks[j].active
    PROVE  Inv'
  <1>. USE DEF Inv
  <1>1. /\ tasks' = t
        /\ UNCHANGED <<current_task, current_pid, is_scheduler_running, elapsed, current_term,
                       mode, cr3, esp0, stale, rolled_back, destroyed, orphaned, woken, revived>>
    BY DEF SetField
  <1>2. current_task \in Slot /\ Self'.active = Self.active /\ Self'.pid = Self.pid
    BY <1>1 DEF Self, TypeOK
  <1>3. TypeOK'
    BY <1>1 DEF TypeOK
  <1>4. PidsUnique'
    BY <1>1 DEF PidsUnique
  <1>5. SlotsOK'
    BY <1>1, <1>2 DEF SlotsOK
  <1>6. SpaceOK' /\ ModeOK' /\ StacksOK'
    BY <1>1, <1>2 DEF SpaceOK, ModeOK, StacksOK, Exiting
  <1>7. ReleasedExactlyOnce'
    BY <1>1, <1>2 DEF ReleasedExactlyOnce
  <1>. QED
    BY <1>3, <1>4, <1>5, <1>6, <1>7

\* A step that changes only the mode, the scheduler's switch, the clock, the
\* visible terminal or the record of woken exits.
LEMMA SameTasksInv ==
    ASSUME Inv, mode' \in Mode, mode' # "crash", is_scheduler_running' \in BOOLEAN,
           elapsed' \in 0 .. MaxWait, current_term' \in Term,
           woken' \in BOOLEAN, woken => woken', revived' \in SUBSET Pid, revived \subseteq revived',
           ModeOK',
           UNCHANGED <<tasks, current_task, current_pid, cr3, esp0, stale, rolled_back,
                       destroyed, orphaned>>
    PROVE  Inv'
  <1>. USE DEF Inv
  <1>1. TypeOK'
    BY DEF TypeOK
  <1>2. PidsUnique' /\ SlotsOK' /\ SpaceOK'
    BY DEF PidsUnique, SlotsOK, SpaceOK, Self
  <1>3. StacksOK'
    BY DEF StacksOK, Self, TypeOK
  <1>4. ReleasedExactlyOnce'
    BY DEF ReleasedExactlyOnce
  <1>. QED
    BY <1>1, <1>2, <1>3, <1>4

LEMMA InitInv == Init => Inv
  <1>. SUFFICES ASSUME Init PROVE Inv
    OBVIOUS
  <1>1. PICK t \in Term :
        /\ tasks = [i \in Slot |->
                       [active |-> i = 0, pid |-> IF i = 0 THEN 0 ELSE NONE,
                        wait_time |-> 0, pin |-> FALSE, term |-> t, resources |-> FALSE]]
        /\ current_task = 0
        /\ current_pid = 1
        /\ is_scheduler_running = TRUE
        /\ elapsed = 0
        /\ current_term = t
        /\ mode = "user"
        /\ cr3 = 0
        /\ esp0 = 0
        /\ stale = {}
        /\ rolled_back = FALSE
        /\ destroyed = [p \in Pid |-> 0]
        /\ orphaned = FALSE
        /\ woken = FALSE /\ revived = {}
    BY DEF Init
  <1>2. 0 \in Slot /\ 0 \in Pid /\ 0 \in 0 .. MaxWait /\ 1 \in 0 .. MaxPid
    BY ConstantsAssumption DEF Slot, Pid
  <1>3. ASSUME NEW i \in Slot
        PROVE  /\ tasks[i] \in Task /\ tasks[i].active = (i = 0) /\ ~tasks[i].pin
               /\ tasks[i].pid = IF i = 0 THEN 0 ELSE NONE
    BY <1>1, <1>2 DEF Task
  <1>4. tasks \in [Slot -> Task]
    <2>1. tasks = [i \in Slot |-> tasks[i]]
      BY <1>1
    <2>. QED BY <1>3, <2>1
  <1>5. Self.active /\ Self.pid = 0 /\ 0 # NONE /\ 0 # KERNEL
    <2>1. Self = tasks[0]
      BY <1>1 DEF Self
    <2>2. (0 = 0) = TRUE
      OBVIOUS
    <2>3. tasks[0].active = TRUE
      BY <1>2, <1>3, <2>2, Zenon
    <2>4. tasks[0].pid = 0
      BY <1>2, <1>3
    <2>5. 0 # NONE /\ 0 # KERNEL
      BY DEF NONE, KERNEL
    <2>. QED BY <2>1, <2>3, <2>4, <2>5, Zenon
  <1>6. TypeOK
    <2>1. current_task \in Slot /\ current_pid \in 0 .. MaxPid /\ elapsed \in 0 .. MaxWait
      BY <1>1, <1>2
    <2>2. cr3 \in Pid \cup {KERNEL} /\ esp0 \in Pid /\ mode \in Mode /\ current_term \in Term
      BY <1>1, <1>2 DEF Mode
    <2>3. /\ is_scheduler_running \in BOOLEAN /\ rolled_back \in BOOLEAN
          /\ orphaned \in BOOLEAN /\ woken \in BOOLEAN
      BY <1>1, Zenon
    <2>4. stale \subseteq Slot /\ revived \subseteq Pid
      BY <1>1
    <2>5. destroyed \in [Pid -> 0 .. 2]
      <3>1. 0 \in 0 .. 2
        OBVIOUS
      <3>. QED BY <1>1, <3>1, Zenon
    <2>. QED BY <1>4, <2>1, <2>2, <2>3, <2>4, <2>5 DEF TypeOK
  <1>7. PidsUnique
    BY <1>1, <1>2, <1>3 DEF PidsUnique
  <1>8. SlotsOK
    BY <1>1, <1>2, <1>3, <1>5 DEF SlotsOK
  <1>9. SpaceOK /\ ModeOK /\ StacksOK
    BY <1>1, <1>5 DEF SpaceOK, ModeOK, StacksOK, Exiting
  <1>10. ReleasedExactlyOnce
    <2>1. mode # "crash"
      BY <1>1
    <2>2. \A i \in Slot : tasks[i].pid # NONE => tasks[i].active /\ destroyed[tasks[i].pid] = 0
      BY <1>1, <1>2, <1>3
    <2>. QED BY <2>1, <2>2 DEF ReleasedExactlyOnce
  <1>. QED
    BY <1>6, <1>7, <1>8, <1>9, <1>10 DEF Inv

LEMMA NextInv == Inv /\ [Next]_vars => Inv'
  <1>. SUFFICES ASSUME Inv, [Next]_vars PROVE Inv'
    OBVIOUS
  <1>0. /\ tasks \in [Slot -> Task] /\ current_task \in Slot /\ stale \subseteq Slot
        /\ woken \in BOOLEAN /\ revived \subseteq Pid /\ current_term \in Term
        /\ elapsed \in 0 .. MaxWait /\ Saturate(elapsed + 1) \in 0 .. MaxWait
        /\ Suspended \subseteq Slot /\ mode \in Mode /\ is_scheduler_running \in BOOLEAN
    BY ConstantsAssumption DEF Inv, TypeOK, Saturate, Suspended
  <1>0a. ~woken => stale = {} /\ Suspended = {}
    BY DEF Inv, StacksOK, Suspended
  <1>0b. Running => is_scheduler_running /\ Self.active /\ mode = "user"
    BY DEF Inv, ModeOK, Running
  <1>0c. Self.pid \in Pid
    BY <1>0 DEF Inv, SlotsOK, Self, Task
  <1>1. CASE sys_exit
    BY <1>1, <1>0b, ExitSelfInv DEF sys_exit
  <1>2. ASSUME NEW pid \in Pid, sys_kill(pid) PROVE Inv'
    <2>1. CASE ExitSelf("exit_syscall") \/ ExitSelf("exit_exception")
      BY <1>2, <1>0b, <2>1, ExitSelfInv DEF sys_kill
    <2>2. ASSUME NEW k \in Slot \ {current_task}, HasPid(k, pid), ExitOther(k) PROVE Inv'
      BY <1>2, <2>2, ExitOtherInv DEF sys_kill, HasPid
    <2>. QED BY <1>2, <2>1, <2>2 DEF sys_kill
  <1>3. CASE sys_yield
    BY <1>3, <1>0, <1>0a, <1>0b, ScheduleInv DEF sys_yield
  <1>4. CASE sys_spawn
    BY <1>4, SpawnInv
  <1>5. CASE SpawnTableFull
    <2>1. ModeOK'
      BY <1>5 DEF SpawnTableFull, ModeOK, Exiting
    <2>. QED
      BY <1>5, <1>0, <2>1, SameTasksInv DEF SpawnTableFull, Mode
  <1>6. CASE SpawnBadArguments
    BY <1>6, SpawnBadInv
  <1>7. ASSUME NEW b \in BOOLEAN, sys_env_pin(b) PROVE Inv'
    <2>. DEFINE t == [tasks EXCEPT ![current_task].pin = b]
    <2>1. t \in [Slot -> Task]
      BY <1>0 DEF Task
    <2>2. \A j \in Slot : /\ t[j].active = tasks[j].active /\ t[j].pid = tasks[j].pid
                          /\ t[j].pin => tasks[j].active
      BY <1>0, <1>0b, <1>7 DEF Task, sys_env_pin, Self, Inv, SlotsOK
    <2>. QED
      BY <1>7, <2>1, <2>2, SetFieldInv DEF sys_env_pin
  <1>8. ASSUME NEW w \in 0 .. MaxWait, sys_env_wait_time(w) PROVE Inv'
    <2>. DEFINE t == [tasks EXCEPT ![current_task].wait_time = w]
    <2>1. t \in [Slot -> Task]
      BY <1>0 DEF Task
    <2>2. \A j \in Slot : /\ t[j].active = tasks[j].active /\ t[j].pid = tasks[j].pid
                          /\ t[j].pin => tasks[j].active
      BY <1>0 DEF Task, Inv, SlotsOK
    <2>. QED
      BY <1>8, <2>1, <2>2, SetFieldInv DEF sys_env_wait_time
  <1>9. ASSUME NEW pid \in Pid, NEW n \in Term, sys_set_term(pid, n) PROVE Inv'
    <2>1. CASE ExitSelf("exit_exception")
      BY <1>9, <1>0b, <2>1, ExitSelfInv DEF sys_set_term
    <2>2. ASSUME NEW k \in Slot, SetField([tasks EXCEPT ![k].term = n]) PROVE Inv'
      <3>. DEFINE t == [tasks EXCEPT ![k].term = n]
      <3>1. t \in [Slot -> Task]
        BY <1>0 DEF Task
      <3>2. \A j \in Slot : /\ t[j].active = tasks[j].active /\ t[j].pid = tasks[j].pid
                            /\ t[j].pin => tasks[j].active
        BY <1>0 DEF Task, Inv, SlotsOK
      <3>. QED
        BY <2>2, <3>1, <3>2, SetFieldInv
    <2>. QED BY <1>9, <2>1, <2>2 DEF sys_set_term
  <1>10. CASE resource_register_self
    <2>. DEFINE t == [tasks EXCEPT ![current_task].resources = TRUE]
    <2>1. t \in [Slot -> Task]
      BY <1>0 DEF Task
    <2>2. \A j \in Slot : /\ t[j].active = tasks[j].active /\ t[j].pid = tasks[j].pid
                          /\ t[j].pin => tasks[j].active
      BY <1>0 DEF Task, Inv, SlotsOK
    <2>. QED
      BY <1>10, <2>1, <2>2, SetFieldInv DEF resource_register_self
  <1>11. CASE NoshedBegin
    <2>1. ModeOK'
      BY <1>11, <1>0b DEF NoshedBegin, ModeOK, Exiting, Self
    <2>. QED
      BY <1>11, <1>0, <2>1, SameTasksInv DEF NoshedBegin, Mode
  <1>12. CASE NoshedEnd
    <2>1. ModeOK'
      BY <1>12 DEF NoshedEnd, ModeOK, Exiting, Self, Inv
    <2>. QED
      BY <1>12, <1>0, <2>1, SameTasksInv DEF NoshedEnd, Mode
  <1>13. CASE Fault \/ NoshedFault
    BY <1>13, ExitSelfInv DEF Fault, NoshedFault
  <1>14. CASE TimerInterrupt
    <2>1. CASE mode = "user" /\ schedule(Saturate(elapsed + 1), Suspended, TRUE)
      <3>1. is_scheduler_running
        BY <2>1 DEF Inv, ModeOK
      <3>. QED
        BY <1>14, <2>1, <3>1, <1>0, <1>0a, ScheduleInv DEF TimerInterrupt
    <2>2. CASE Exiting /\ schedule(Saturate(elapsed + 1), stale, TRUE)
      <3>1. is_scheduler_running
        BY <2>2 DEF Inv, ModeOK
      <3>. QED
        BY <1>14, <2>2, <3>1, <1>0, <1>0a, ScheduleInv DEF TimerInterrupt
    <2>3. CASE /\ mode = "noshed" /\ elapsed' = Saturate(elapsed + 1)
               /\ UNCHANGED <<tasks, current_task, mode, cr3, esp0, stale, rolled_back, orphaned>>
      <3>1. ModeOK'
        BY <1>14, <2>3 DEF TimerInterrupt, ModeOK, Exiting, Self, Inv
      <3>. QED
        BY <1>14, <1>0, <2>3, <3>1, SameTasksInv DEF TimerInterrupt, Mode
    <2>. QED
      BY <1>14, <2>1, <2>2, <2>3 DEF TimerInterrupt
  <1>15. ASSUME NEW t \in Term, DeviceInterrupt(t) PROVE Inv'
    <2>1. ModeOK'
      BY <1>15 DEF DeviceInterrupt, ModeOK, Exiting, Self, Inv
    <2>. QED
      BY <1>15, <1>0, <2>1, SameTasksInv DEF DeviceInterrupt, Mode
  <1>16. ASSUME NEW t \in Term, WakeFromExitSyscall(t) PROVE Inv'
    <2>1. is_scheduler_running
      BY <1>16 DEF Inv, ModeOK, WakeFromExitSyscall, Exiting
    <2>2. woken' = TRUE
      BY <1>16 DEF WakeFromExitSyscall
    <2>. QED
      BY <1>16, <2>1, <2>2, <1>0, ScheduleInv DEF WakeFromExitSyscall
  <1>17. ASSUME NEW t \in Term, WakeFromExitException(t) PROVE Inv'
    <2>1. woken' = TRUE /\ revived' = revived \cup {Self.pid} /\ revived' \subseteq Pid
      BY <1>17, <1>0, <1>0c DEF WakeFromExitException
    <2>2. ModeOK'
      BY <1>17, <2>1 DEF WakeFromExitException, ModeOK, Exiting, Inv, Self
    <2>. QED
      BY <1>17, <1>0, <2>1, <2>2, SameTasksInv DEF WakeFromExitException, Mode
  <1>19. ASSUME NEW t \in Term, WakeFromExitNoshed(t) PROVE Inv'
    <2>1. woken' = TRUE /\ revived' = revived \cup {Self.pid} /\ revived' \subseteq Pid
      BY <1>19, <1>0, <1>0c DEF WakeFromExitNoshed
    <2>2. ModeOK'
      BY <1>19, <2>1 DEF WakeFromExitNoshed, ModeOK, Exiting, Inv, Self
    <2>. QED
      BY <1>19, <1>0, <2>1, <2>2, SameTasksInv DEF WakeFromExitNoshed, Mode
  <1>18. CASE UNCHANGED vars
    BY <1>18 DEF vars, Inv, TypeOK, PidsUnique, SlotsOK, SpaceOK, ModeOK, StacksOK,
                 ReleasedExactlyOnce, Self, Exiting
  <1>. QED
    BY <1>1, <1>2, <1>3, <1>4, <1>5, <1>6, <1>7, <1>8, <1>9, <1>10, <1>11, <1>12,
       <1>13, <1>14, <1>15, <1>16, <1>17, <1>18, <1>19 DEF Next, Syscall, Interrupt

----------------------------------------------------------------------------
THEOREM SchedulerInvariant == Spec => []Inv
  BY InitInv, NextInv, PTL DEF Spec

\* User code runs as a live task in its own address space, except after its own
\* sys_kill of another process, or after its own exit by an exception was woken.
THEOREM SchedulerOwnAddressSpace == Spec => []RunsInOwnAddressSpace
  <1>1. Inv => RunsInOwnAddressSpace
    BY DEF Inv, SpaceOK, ModeOK, RunsInOwnAddressSpace
  <1>. QED
    BY <1>1, SchedulerInvariant, PTL

\* A released page directory is never in force.
THEOREM SchedulerAddressSpaceLive == Spec => []AddressSpaceInForceIsLive
  <1>1. Inv => AddressSpaceInForceIsLive
    BY DEF Inv, TypeOK, SpaceOK, SlotsOK, Self, AddressSpaceInForceIsLive
  <1>. QED
    BY <1>1, SchedulerInvariant, PTL

\* Tasks resume where they were suspended while no exit has been woken.
THEOREM SchedulerResumes == Spec => []ResumesWhereSuspended
  <1>1. Inv => ResumesWhereSuspended
    BY DEF Inv, StacksOK, ResumesWhereSuspended
  <1>. QED
    BY <1>1, SchedulerInvariant, PTL

\* An address space is destroyed when its task ends and only once, unless the task
\* ended by an exception and an interrupt has let its exit return - as happens to
\* every exception in a NOSHED region.
THEOREM SchedulerReleasedOnce == Spec => []ReleasedExactlyOnce
  <1>1. Inv => ReleasedExactlyOnce
    BY DEF Inv
  <1>. QED
    BY <1>1, SchedulerInvariant, PTL

=============================================================================
