----------------------------- MODULE Scheduler -----------------------------
(***************************************************************************)
(* Processes and their scheduling: mckrnl/scheduler/scheduler.c, killer.c, *)
(* resource.c, the dispatcher handle_interrupt of interrupts.c, the PIT    *)
(* handler and the system calls that create, end, pin or delay a task.     *)
(*                                                                         *)
(* One processor.  Kernel code runs with interrupts off, so a system call  *)
(* or an exception is one step, with two exceptions that are states of     *)
(* `mode`: the sti; hlt at the end of exit_task, and the NOSHED regions    *)
(* of the socket calls (interrupts on, scheduler off).                     *)
(*                                                                         *)
(* A task does not save its registers when it is suspended.  Its frame     *)
(* lies at the top of its kernel stack, where task->registers has pointed  *)
(* since init_task, because the TSS made the processor push it there.  So  *)
(* besides the page directory in force (cr3), the model keeps the stack    *)
(* the TSS points to (esp0) and the slots whose frame is out of date.      *)
(*                                                                         *)
(* Abstraction.  A process, its address space and its kernel stack are     *)
(* named by its pid, which is never reused.  Time is counted in PIT ticks  *)
(* (5 ms).  Only the time since last_time_ms matters; it saturates at      *)
(* MaxWait, the longest delay a task asks for, and a delay that is over is *)
(* 0 where the code lets it become negative.  Threads (sys_thread) are   *)
(* compiled out by config.h, so every task has an address space of its own. *)
(***************************************************************************)
EXTENDS Integers

CONSTANTS
    MaxTasks,   \* MAX_TASKS
    Term,       \* the virtual terminals
    MaxWait,    \* bound: the longest wait_time, in ticks
    MaxPid      \* bound: how many processes are ever created

Slot == 0 .. MaxTasks - 1
Pid == 0 .. MaxPid - 1

KERNEL == -1    \* kernel_context
NONE == -1      \* the pid of a slot that has never been used

ASSUME ConstantsAssumption ==
    /\ MaxTasks \in Nat \ {0}
    /\ MaxPid \in Nat \ {0}
    /\ MaxWait \in Nat
    /\ Term # {}

VARIABLES
    tasks,         \* the task table
    current_task,
    current_pid,   \* the next pid
    is_scheduler_running,
    elapsed,       \* time_ms - last_time_ms, in ticks
    current_term,  \* global_char_output_driver->current_term
    mode,          \* what the processor is doing: see Mode
    cr3,           \* the address space in force
    esp0,          \* the kernel stack the TSS points to
    stale,         \* slots whose frame is not their last user state
    rolled_back,   \* a task was resumed from such a frame
    destroyed,     \* how often vmm_destroy_context ran for each pid (two: or more)
    orphaned,      \* the running task has killed another since it was resumed
    woken,         \* an interrupt other than schedule's has ended the hlt of an exit
    revived        \* processes that ended by an exception and were woken so

vars == <<tasks, current_task, current_pid, is_scheduler_running, elapsed,
          current_term, mode, cr3, esp0, stale, rolled_back, destroyed,
          orphaned, woken, revived>>

\* "user": user code of current_task runs.  "noshed": its system call waits in
\* a NOSHED region.  "exit_syscall", "exit_exception", "exit_noshed": it stands in
\* the hlt of exit_task, entered from a system call, from an exception handler, or
\* from one of an exception in a NOSHED region.
\* "panic": abortf.  "crash": exit_task faults again and again.
Mode == {"user", "noshed", "exit_syscall", "exit_exception", "exit_noshed", "panic", "crash"}

Task == [active : BOOLEAN, pid : Pid \cup {NONE}, wait_time : 0 .. MaxWait,
         pin : BOOLEAN, term : Term, resources : BOOLEAN]

Self == tasks[current_task]

IsLeast(i, S) == i \in S /\ \A j \in S : i <= j

Saturate(t) == IF t > MaxWait THEN MaxWait ELSE t

----------------------------------------------------------------------------
(* schedule *)

\* One pass of switch_to_next_task: the slots it may stop at, and the table
\* after it has charged the delays of the slots lo .. hi it looked at.
Eligible(tk, lo, diff) ==
    {i \in Slot : lo <= i /\ tk[i].active /\ tk[i].wait_time <= diff}

Charged(tk, lo, hi, diff) ==
    [i \in Slot |->
        IF lo <= i /\ i <= hi /\ tk[i].active
        THEN [tk[i] EXCEPT !.wait_time = IF @ > diff THEN @ - diff ELSE 0]
        ELSE tk[i]]

Pinned == Self.pin /\ Self.term = current_term

\* The frame of slot i is loaded.
Resume(i, st) ==
    /\ stale' = st \ {i}
    /\ rolled_back' = (rolled_back \/ i \in st)
    /\ mode' = "user"

Wrong_SetTss(i, tss) == esp0' = esp0

\* handle_interrupt points the TSS at the top of the stack it returns from,
\* unless the call of schedule is its own.
SetTss(i, tss) == esp0' = IF tss THEN tasks[i].pid ELSE esp0

Wrong_SwitchTo(i, tk, st, tss) ==
    /\ tasks' = tk
    /\ current_task' = i
    /\ elapsed' = 0
    /\ orphaned' = FALSE
    /\ Resume(i, st)
    /\ SetTss(i, tss)
    /\ UNCHANGED cr3

SwitchTo(i, tk, st, tss) ==
    /\ tasks' = tk
    /\ current_task' = i
    /\ cr3' = tasks[i].pid
    /\ elapsed' = 0
    /\ orphaned' = FALSE
    /\ Resume(i, st)
    /\ SetTss(i, tss)

StayPinned(diff, st, tss) ==
    /\ Pinned
    /\ elapsed' = diff
    /\ Resume(current_task, st)
    /\ SetTss(current_task, tss)
    /\ UNCHANGED <<tasks, current_task, cr3, orphaned>>

Wrong_SwitchForward(diff, st, tss) ==
    /\ ~Pinned
    /\ \E i \in Slot :
        /\ IsLeast(i, Eligible(tasks, 0, diff))
        /\ SwitchTo(i, Charged(tasks, 0, i, diff), st, tss)

SwitchForward(diff, st, tss) ==
    /\ ~Pinned
    /\ \E i \in Slot :
        /\ IsLeast(i, Eligible(tasks, current_task + 1, diff))
        /\ SwitchTo(i, Charged(tasks, current_task + 1, i, diff), st, tss)

\* Nothing ready behind the current slot: the second pass starts at slot 0 and
\* charges the slots behind the current one once more.
SwitchWrapping(diff, st, tss) ==
    LET tk == Charged(tasks, current_task + 1, MaxTasks - 1, diff)
    IN  /\ ~Pinned
        /\ Eligible(tasks, current_task + 1, diff) = {}
        /\ \E i \in Slot :
            /\ IsLeast(i, Eligible(tk, 0, diff))
            /\ SwitchTo(i, Charged(tk, 0, i, diff), st, tss)

\* Every task is waiting: the first one runs all the same.
SwitchIgnoringWait(diff, st, tss) ==
    LET tk == Charged(tasks, current_task + 1, MaxTasks - 1, diff)
    IN  /\ ~Pinned
        /\ Eligible(tasks, current_task + 1, diff) = {}
        /\ Eligible(tk, 0, diff) = {}
        /\ \E i \in Slot :
            /\ IsLeast(i, {j \in Slot : tasks[j].active})
            /\ SwitchTo(i, Charged(tk, 0, MaxTasks - 1, diff), st, tss)

\* "All tasks are dead lol"
AllDead ==
    /\ \A i \in Slot : ~tasks[i].active
    /\ mode' = "panic"
    /\ UNCHANGED <<tasks, current_task, elapsed, cr3, esp0, stale, rolled_back, orphaned>>

\* schedule, called diff ticks after its last complete run, with the user
\* state of the slots in st saved in the wrong place.  tss: the caller sets
\* the TSS afterwards.
schedule(diff, st, tss) ==
    \/ StayPinned(diff, st, tss)
    \/ SwitchForward(diff, st, tss)
    \/ SwitchWrapping(diff, st, tss)
    \/ SwitchIgnoringWait(diff, st, tss)
    \/ AllDead

\* The user state of the running task is pushed on the stack esp0 names.
Suspended == IF esp0 = Self.pid THEN stale ELSE stale \cup {current_task}

----------------------------------------------------------------------------
(* exit_task *)

Once(n) == IF n = 0 THEN 1 ELSE 2

Exiting == mode \in {"exit_syscall", "exit_exception"}

Wrong_ExitSelf_keeps_cr3(kind) ==
    /\ mode' = kind
    /\ tasks' = [tasks EXCEPT ![current_task].active = FALSE,
                              ![current_task].pin = FALSE]
    /\ destroyed' = [destroyed EXCEPT ![Self.pid] = Once(@)]
    /\ UNCHANGED cr3
    /\ UNCHANGED <<current_task, current_pid, is_scheduler_running, elapsed,
                   current_term, esp0, stale, rolled_back, orphaned, woken, revived>>

Wrong_ExitSelf_keeps_pin(kind) ==
    /\ mode' = kind
    /\ tasks' = [tasks EXCEPT ![current_task].active = FALSE]
    /\ cr3' = KERNEL
    /\ destroyed' = [destroyed EXCEPT ![Self.pid] = Once(@)]
    /\ UNCHANGED <<current_task, current_pid, is_scheduler_running, elapsed,
                   current_term, esp0, stale, rolled_back, orphaned, woken, revived>>

\* exit_task(self).  resource_dealloc clears `resources` but not
\* num_resources: run again for the same task it dereferences NULL, and the
\* page fault killer calls exit_task again.
ExitSelf(kind) ==
    /\ IF Self.active \/ ~Self.resources
       THEN /\ mode' = kind
            /\ tasks' = [tasks EXCEPT ![current_task].active = FALSE,
                                      ![current_task].pin = FALSE]
            /\ cr3' = KERNEL
            /\ destroyed' = [destroyed EXCEPT ![Self.pid] = Once(@)]
       ELSE mode' = "crash" /\ UNCHANGED <<tasks, cr3, destroyed>>
    /\ UNCHANGED <<current_task, current_pid, is_scheduler_running, elapsed,
                   current_term, esp0, stale, rolled_back, orphaned, woken, revived>>

\* exit_task of another task leaves the kernel's page directory in cr3, and
\* the system call returns to the caller with it.
ExitOther(i) ==
    /\ tasks' = [tasks EXCEPT ![i].active = FALSE, ![i].pin = FALSE]
    /\ cr3' = KERNEL
    /\ destroyed' = [destroyed EXCEPT ![tasks[i].pid] = Once(@)]
    /\ orphaned' = TRUE
    /\ UNCHANGED <<current_task, current_pid, is_scheduler_running, elapsed,
                   current_term, mode, esp0, stale, rolled_back, woken, revived>>

----------------------------------------------------------------------------
(* Steps of the running task.  Its code is mapped only in its own address   *)
(* space, so with another one in force it can do nothing but fault.         *)

Running == mode = "user" /\ cr3 = Self.pid /\ Self.active

Wrong_HasPid(i, pid) == tasks[i].pid = pid

HasPid(i, pid) == tasks[i].active /\ tasks[i].pid = pid

\* A killer of killer.c: #DE, #UD, #GP or #PF in user code, or a #PF in the
\* kernel because a call used the NULL that get_task_by_pid returned.
Fault == mode = "user" /\ ExitSelf("exit_exception")

\* The same in a NOSHED region, where nothing switches the scheduler on again: a
\* socket call with an unknown id or a bad buffer, or an interrupt handler that
\* jumps to a NULL callback.
NoshedFault == mode = "noshed" /\ ExitSelf("exit_noshed")

sys_exit == Running /\ ExitSelf("exit_syscall")

sys_kill(pid) ==
    /\ Running
    /\ \/ HasPid(current_task, pid) /\ ExitSelf("exit_syscall")
       \/ \E i \in Slot \ {current_task} : HasPid(i, pid) /\ ExitOther(i)
       \/ ~ (\E i \in Slot : HasPid(i, pid)) /\ ExitSelf("exit_exception")

sys_yield ==
    /\ Running
    /\ schedule(elapsed, Suspended, TRUE)
    /\ UNCHANGED <<current_pid, is_scheduler_running, current_term, destroyed, woken, revived>>

Inactive == {i \in Slot : ~tasks[i].active}

NewTask(i) ==
    [tasks EXCEPT ![i] = [active |-> TRUE, pid |-> current_pid, wait_time |-> 0,
                          pin |-> FALSE, term |-> Self.term, resources |-> FALSE]]

\* sys_spawn of an ELF file: init_task with the scheduler switched off.
sys_spawn ==
    /\ Running
    /\ current_pid < MaxPid
    /\ \E i \in Slot :
        /\ IsLeast(i, Inactive)
        /\ tasks' = NewTask(i)
        /\ stale' = stale \ {i}
        /\ current_pid' = current_pid + 1
        /\ UNCHANGED <<current_task, is_scheduler_running, elapsed, current_term, mode,
                       cr3, esp0, rolled_back, destroyed, orphaned, woken, revived>>

\* assert(task != NULL) fails while init_task has switched the scheduler off,
\* which makes __assert_fail stop the kernel instead of the caller.
SpawnTableFull ==
    /\ Running
    /\ Inactive = {}
    /\ mode' = "panic"
    /\ is_scheduler_running' = FALSE
    /\ UNCHANGED <<tasks, current_task, current_pid, elapsed, current_term, cr3, esp0,
                   stale, rolled_back, destroyed, orphaned, woken, revived>>

\* init_elf reads argv and envp of the caller after init_task has made the new
\* task active: a bad pointer ends the caller and leaves the child half made.
SpawnBadArguments ==
    /\ Running
    /\ current_pid < MaxPid
    /\ \E i \in Slot :
        /\ IsLeast(i, Inactive)
        /\ tasks' = [NewTask(i) EXCEPT ![current_task].active = FALSE,
                                       ![current_task].pin = FALSE]
        /\ stale' = stale \ {i}
    /\ current_pid' = current_pid + 1
    /\ cr3' = KERNEL
    /\ destroyed' = [destroyed EXCEPT ![Self.pid] = Once(@)]
    /\ mode' = "exit_exception"
    /\ UNCHANGED <<current_task, is_scheduler_running, elapsed, current_term, esp0,
                   rolled_back, orphaned, woken, revived>>

SetField(t) ==
    /\ tasks' = t
    /\ UNCHANGED <<current_task, current_pid, is_scheduler_running, elapsed, current_term,
                   mode, cr3, esp0, stale, rolled_back, destroyed, orphaned, woken, revived>>

\* sys_env: SYS_ENV_PIN and SYS_ENV_TASK_SET_WAIT_TIME.
sys_env_pin(b) == Running /\ SetField([tasks EXCEPT ![current_task].pin = b])

sys_env_wait_time(w) == Running /\ SetField([tasks EXCEPT ![current_task].wait_time = w])

\* An unknown pid gives NULL, and the write to task->term faults.
sys_set_term(pid, t) ==
    /\ Running
    /\ \/ \E i \in Slot : HasPid(i, pid) /\ SetField([tasks EXCEPT ![i].term = t])
       \/ ~ (\E i \in Slot : HasPid(i, pid)) /\ ExitSelf("exit_exception")

\* A call that registers a resource of the task: sys_open, sys_sock_connect.
resource_register_self ==
    Running /\ SetField([tasks EXCEPT ![current_task].resources = TRUE])

\* NOSHED(...) of the socket, ICMP and DNS calls.
NoshedBegin ==
    /\ Running
    /\ mode' = "noshed"
    /\ is_scheduler_running' = FALSE
    /\ UNCHANGED <<tasks, current_task, current_pid, elapsed, current_term, cr3, esp0,
                   stale, rolled_back, destroyed, orphaned, woken, revived>>

NoshedEnd ==
    /\ mode = "noshed" /\ Self.active
    /\ mode' = "user"
    /\ is_scheduler_running' = TRUE
    /\ UNCHANGED <<tasks, current_task, current_pid, elapsed, current_term, cr3, esp0,
                   stale, rolled_back, destroyed, orphaned, woken, revived>>

----------------------------------------------------------------------------
(* Interrupts *)

\* pit_interrupt_handler.
TimerInterrupt ==
    /\ \/ /\ mode = "user"
          /\ schedule(Saturate(elapsed + 1), Suspended, TRUE)
       \/ /\ Exiting
          /\ schedule(Saturate(elapsed + 1), stale, TRUE)
       \/ /\ mode = "noshed"
          /\ elapsed' = Saturate(elapsed + 1)
          /\ UNCHANGED <<tasks, current_task, mode, cr3, esp0, stale, rolled_back, orphaned>>
    /\ UNCHANGED <<current_pid, is_scheduler_running, current_term, destroyed, woken, revived>>

\* Any other interrupt: a key, which may select a terminal, the mouse or a
\* network card.  It ends the hlt of exit_task.
DeviceInterrupt(t) ==
    /\ mode \in {"user", "noshed"}
    /\ current_term' = t
    /\ UNCHANGED <<tasks, current_task, current_pid, is_scheduler_running, elapsed, mode,
                   cr3, esp0, stale, rolled_back, destroyed, orphaned, woken, revived>>

\* exit_task returns to sys_exit or sys_kill; handle_interrupt finds the task
\* inactive and calls schedule itself, after it has set the TSS.
WakeFromExitSyscall(t) ==
    /\ mode = "exit_syscall"
    /\ current_term' = t
    /\ woken' = TRUE
    /\ schedule(elapsed, stale, FALSE)
    /\ UNCHANGED <<current_pid, is_scheduler_running, destroyed, revived>>

\* exit_task returns to the killer, which returns to the instruction that
\* faulted: the dead task is back in user mode.
WakeFromExitException(t) ==
    /\ mode = "exit_exception"
    /\ current_term' = t
    /\ woken' = TRUE
    /\ revived' = revived \cup {Self.pid}
    /\ mode' = "user"
    /\ UNCHANGED <<tasks, current_task, current_pid, is_scheduler_running, elapsed,
                   cr3, esp0, stale, rolled_back, destroyed, orphaned>>

\* In a NOSHED region every interrupt, the timer's too, finds the scheduler off and
\* returns: the dead task is back at the instruction that faults.
WakeFromExitNoshed(t) ==
    /\ mode = "exit_noshed"
    /\ \/ elapsed' = Saturate(elapsed + 1) /\ UNCHANGED current_term
       \/ current_term' = t /\ UNCHANGED elapsed
    /\ woken' = TRUE
    /\ revived' = revived \cup {Self.pid}
    /\ mode' = "noshed"
    /\ UNCHANGED <<tasks, current_task, current_pid, is_scheduler_running,
                   cr3, esp0, stale, rolled_back, destroyed, orphaned>>

----------------------------------------------------------------------------
\* load_init has created the init process, init_scheduler has switched the
\* scheduler on and the first timer interrupt has started the process.
Init ==
    \E t \in Term :
        /\ tasks = [i \in Slot |->
                       [active |-> i = 0, pid |-> IF i = 0 THEN 0 ELSE NONE,
                        wait_time |-> 0, pin |-> FALSE, term |-> t, resources |-> FALSE]]
        /\ current_task = 0
        /\ current_pid = 1
        /\ is_scheduler_running = TRUE
        /\ elapsed = 0
        /\ current_term = t
        /\ mode = "user"
        /\ cr3 = 0
        /\ esp0 = 0
        /\ stale = {}
        /\ rolled_back = FALSE
        /\ destroyed = [p \in Pid |-> 0]
        /\ orphaned = FALSE
        /\ woken = FALSE
        /\ revived = {}

Syscall ==
    \/ sys_exit
    \/ \E pid \in Pid : sys_kill(pid)
    \/ sys_yield
    \/ sys_spawn
    \/ SpawnTableFull
    \/ SpawnBadArguments
    \/ \E b \in BOOLEAN : sys_env_pin(b)
    \/ \E w \in 0 .. MaxWait : sys_env_wait_time(w)
    \/ \E pid \in Pid, t \in Term : sys_set_term(pid, t)
    \/ resource_register_self
    \/ NoshedBegin

Interrupt ==
    \/ TimerInterrupt
    \/ \E t \in Term : DeviceInterrupt(t)
    \/ \E t \in Term : WakeFromExitSyscall(t)
    \/ \E t \in Term : WakeFromExitException(t)
    \/ \E t \in Term : WakeFromExitNoshed(t)

Next == Syscall \/ Fault \/ NoshedFault \/ NoshedEnd \/ Interrupt

\* The PIT keeps ticking.  Nothing is assumed of user code or of NOSHED regions.
Fairness == WF_vars(TimerInterrupt)

Spec == Init /\ [][Next]_vars /\ Fairness

----------------------------------------------------------------------------
(* Properties *)

\* Every variable has its type.
TypeOK ==
    /\ tasks \in [Slot -> Task]
    /\ current_task \in Slot
    /\ current_pid \in 0 .. MaxPid
    /\ is_scheduler_running \in BOOLEAN
    /\ elapsed \in 0 .. MaxWait
    /\ current_term \in Term
    /\ mode \in Mode
    /\ cr3 \in Pid \cup {KERNEL}
    /\ esp0 \in Pid
    /\ stale \subseteq Slot
    /\ rolled_back \in BOOLEAN
    /\ destroyed \in [Pid -> 0 .. 2]
    /\ orphaned \in BOOLEAN
    /\ woken \in BOOLEAN
    /\ revived \subseteq Pid

\* User code runs as a live task in its own address space with the scheduler
\* on.  The only way out is sys_kill of another process, which returns to the
\* killer in the kernel's address space, and for a process that ended by an
\* exception, if a device interrupt lets its exit return.
RunsInOwnAddressSpace ==
    mode = "user" /\ Self.pid \notin revived =>
        /\ is_scheduler_running
        /\ Self.active
        /\ cr3 = Self.pid \/ (orphaned /\ cr3 = KERNEL)

\* The page directory in force is never one that vmm_destroy_context has
\* released, whoever was killed by whom.
AddressSpaceInForceIsLive == cr3 # KERNEL => destroyed[cr3] = 0

\* The TSS names the kernel stack of the running task, so that its frame lands
\* where task->registers points, and no task is resumed from an old frame -
\* as long as no device interrupt has ended the hlt of an exiting task.
ResumesWhereSuspended ==
    ~woken => /\ mode \in {"user", "noshed"} => esp0 = Self.pid
              /\ stale = {}
              /\ ~rolled_back

\* An address space is destroyed when its task ends, not before, and only once, and
\* exit_task never runs into its own leftovers - whatever happens to other tasks.
\* The exception: a process that ended by an exception and whose exit an interrupt
\* has let return, which every interrupt does in a NOSHED region; it faults again.
ReleasedExactlyOnce ==
    /\ mode = "crash" => Self.pid \in revived
    /\ \A i \in Slot : tasks[i].pid # NONE =>
          /\ tasks[i].active <=> destroyed[tasks[i].pid] = 0
          /\ destroyed[tasks[i].pid] > 1 => tasks[i].pid \in revived

Unscheduled == mode \in {"noshed", "exit_noshed"}

\* A task that has ended loses the processor for good, even when it was pinned
\* to the visible terminal and whatever interrupts arrive in its hlt - unless it
\* ended by an exception in a NOSHED region, from which there is no way out.
DeadTaskLeaves == ~Self.active ~> (Self.active \/ Unscheduled \/ mode \in {"panic", "crash"})

\* Round robin: once no task is pinned to the visible terminal and none sits in
\* a socket call or has died in one, a task that is ready gets to run or ends,
\* whatever the others spawn, kill, yield or wait for.
ReadyTaskRuns ==
    <>[](~Pinned /\ ~Unscheduled) =>
        \A i \in Slot :
            (tasks[i].active /\ tasks[i].wait_time = 0)
                ~> \/ current_task = i
                   \/ ~tasks[i].active
                   \/ mode \in {"panic", "crash"}

=============================================================================
