# MicroOS: a TLA+ verification project

MicroOS is a 32-bit x86 hobby operating system: a monolithic kernel
(`src/mckrnl`), a C library and programs for it (`src/user`), and host tools.
This directory holds TLA+ models of its core, TLC configurations that check
them on small instances, and TLAPS proofs for every instance.

## 1. The system

One processor.  Kernel code runs with interrupts off; a system call (`int 0x30`)
or an exception is therefore atomic, except where the kernel itself executes
`sti`: the end of `exit_task`, the network waits (`NET_TIMEOUT`, `pit_sleep`), the
`NOSHED` regions around them, which switch the scheduler off and interrupts on, and,
with that card, the end of `rtl8139_send` (rtl8139.c:91), which is also reached from
the card's own interrupt; the models take such a handler as one step all the same.
Tasks are preempted by the PIT every 5 ms.  The interactions that matter:

- **calls**: system calls -> scheduler, memory, VFS, sockets;
- **interrupts**: PIT -> `schedule`; keyboard -> character buffer and terminal
  switch; NIC -> Ethernet -> IPv4 -> TCP/UDP/DNS/DHCP handlers, which change the
  state a system call in a `NOSHED` region polls;
- **callbacks**: handler tables (`net_provider`), `resource_t` deallocators run
  by `exit_task`, `recv` of a TCP socket;
- **shared memory**: `mmmap` maps the frame of one process into another; the
  terminal's IPC tunnel is built on it.

| Component | State | Operations | Hard behaviour | What makes it correct |
|---|---|---|---|---|
| Page allocator `memory/pmm.c` | bitmap, paging mask, usage counters | init, alloc, alloc_pagetable, alloc_range, free, free_range | unbounded inner scan, mask only tested at the start of a range, 32-bit counters | a page has one owner; reserved pages stay reserved; page tables and memory do not mix |
| Address spaces `memory/vmm.c`, `mmap`, `mmmap`, `init_elf`, `resource.c` | page directories, shared kernel tables, frames, resource arrays | init_context, map, alloc, resize, destroy_context | frames shared by `mmmap` are freed twice; NULL from a full allocator is mapped; kernel tables take over directory entries of programs | every mapped frame has one owner; the kernel is in all contexts; the end of a task gives everything back |
| Scheduler `scheduler/*`, `interrupts.c` | task table, current task, cr3, TSS, `is_scheduler_running` | schedule, init_task, init_elf, exit_task, killers, pin, wait | interrupts in `exit_task`, stale frames, full table, killers re-entered, faults while the scheduler is off | a task runs in its own live address space, resumes where it stopped, is released once, gets its turn |
| User heap `libc/stdlib/heap.c` | segment chain, `last_hdr`, `heap_end` | malloc, calloc, realloc, free | splits and merges at both ends, rounding, 32-bit wrap | chain intact, blocks disjoint, recursion bounded |
| Terminal IPC `libc/ipc.c`, `terminal/commands.c`, `stdlib/system.c` | one shared page, two program counters | handshake, send, poll, answer | preemption between test and set, either side killed, page not cleared | both sides agree; a message runs once, before its answer |
| DNS `net/dns.c` | result cache, loop counter, wait flag | resolve_A, request, udp_recv | late and duplicated responses, alias loops | the answer belongs to the question; lookups end |
| TCP, UDP, sockets | connection list, sequence numbers, receive buffers | connect, send, recv, disconnect, handler | lost and duplicated segments, freed sockets still referenced, IRQ against system call | data delivered is a prefix of data sent; no object used after release |
| ARP, IPv4, ICMP, DHCP, start-up `net/*` | route cache, wait flags, lease, configuration | resolve, request, ping, handlers | sleeping inside an interrupt, full cache, lost, late and doubled packets, values copied while an interrupt changes them | the configuration is one confirmed lease; ping tells the truth; waits end |
| VFS, descriptors, resources, RAM fs, FAT glue | descriptor table, handles, resource arrays, files, directory entries | open, close, read, write, truncate, touch, delete, end of a task | freed handles stay in the table, sizes cached per handle, write-back to an entry by place, memory moved at page boundaries | an open file is closed once; written bytes stay; an entry is its own file's |
| devfs, initrd, NextFS, partitions | tables fixed after boot | look-up, forwarding | - | - |
| Keyboard `driver/input/ps2_keyboard.c` | look-ahead byte, modifiers, one character, one arrow | interrupt, getc, getarrw, function keys | bytes of two keys interleave, switches of terminals between typing and reading | modifiers are the keys that are down; a character is read once, where it was typed |
| Virtual terminals `renderer/text_console.c` | display, buffers, cursors | putc, poke, cursor, switch | copies at a switch, early returns before the scroll test, cursors and pokes that nobody checks | screens independent; what leads output off a screen is known |
| Disk, NIC, sound drivers | registers, rings | init, read, write, send, IRQ | hardware | - |
| Boot, PCI, ACPI, clock, serial, GDB stub | hardware registers | initialisation, port I/O | - | - |
| User library and programs | files, lines, paths | resolve, printf, terminal, tools | - | - |
| FatFs, libtinf, RISC-V emulator, host tools | - | - | - | third-party or host code; of FatFs, what handles depend on is in `Files` |

`PROJECT.json` lists the components with their sources and status, the line of
every modelled definition, and the hazards.

## 2. The models

Definitions keep the names of the C functions.  `Wrong_X` in front of `X` is a
faulty variant used to show that a property can tell the fault; no
specification uses one.  The specification of a module is `Spec`; those of `Ipc`,
`Dns` and `Keyboard` are `IpcSpec`, `DnsSpec` and `KeyboardSpec`, because their proofs
stand in one module with those of a neighbour.

### Pmm - physical page allocator (implements Allocator)

`used` is the bitmap, `Mask` the constant paging bitmap, `free_memory` and
`used_memory` the counters (in pages, so their 32 bits wrap at `NPages`).
`data[p]`/`table[p]` count the callers holding a page as memory or as a page
table, `overrun` records a read behind the bitmap, `halted` a panic.  One action
per function: `pmm_alloc`, `pmm_alloc_pagetable`, `pmm_alloc_range(count)`,
`pmm_free_data`, `pmm_free_table` (two uses of `pmm_free`), `pmm_free_range`.
`pmm_init` is `Init`, over every boot information of `Boots`; the framebuffer that
`vmm_init` marks is part of it.  The callers are an environment that frees only
what it holds; `Vmm` is about callers that do not.  `Allocator` is the abstract
specification: items are free, held or neither (reserved), and each step lends
free ones or takes held ones back.

### Vmm - address spaces and the life of frames

`tasks[t]` is a task with its context: `seen`, the directory entries it shares with
the kernel; `own`, the entries with tables of its own; `map`, what those say;
`stack`, its kernel stack; `array` and `num_resources`, its resource array.
`kmap` is what `kernel_context` maps and `tables` the number of pages of the
`.paging` section in use.  `MapInKernel` is `vmm_map_page` with `kernel_context`,
which overwrites a directory entry in every active task; `MapPages` is the same
function with a task's context.  `init_elf` is a step for `init_task`, one for each
program header (`LoadSegment`) and one for each page of arguments (`CopyString`);
nothing else runs between them.  Further actions: `sys_mmap`, `sys_mmmap`,
`resource_register_self` (the growth of the array by `vmm_resize`) and `exit_task`
(`resource_dealloc`, `vmm_destroy_context`, the stack).  Frames are handed out first
fit, as `Pmm` does; an allocation that fails gives page 0 to a caller that does not
test it (`exhausted`).  `shared` and `doomed` are history: frames that `mmmap` put
in two contexts, and frames freed while something still used them.

### Scheduler - tasks, interrupts, system calls

`tasks`, `current_task`, `current_pid`, `is_scheduler_running`, `current_term` are
the C variables.  `elapsed` is `time_ms - last_time_ms` in ticks.  `cr3` is the page
directory in force, `esp0` the stack named by the TSS; both are named by pid.  A
frame is not copied when a task is suspended: it must land where
`task->registers` points, so `stale` holds the slots for which it did not, and
`rolled_back` says one of them was resumed.  `mode` says what the processor is in:
user code, a `NOSHED` region, the `hlt` of `exit_task` (reached from a system call,
an exception, or an exception in a `NOSHED` region), a panic, or endless faults inside
`exit_task`.  `destroyed`, `orphaned`, `woken` and `revived` (processes that ended by an
exception and whose `exit_task` an interrupt has let return) are history.

`schedule` is the disjunction of its five outcomes (stay pinned, switch forward,
wrap around, ignore the delays, all dead).  Actions: `sys_exit`, `sys_kill`,
`sys_yield`, `sys_spawn` with its two failures (table full, bad arguments),
`sys_env_pin`, `sys_env_wait_time`, `sys_set_term`, `resource_register_self`,
`NoshedBegin`/`NoshedEnd`, `Fault` and `NoshedFault` (the killers), `TimerInterrupt`,
`DeviceInterrupt`, and what an interrupt does to an exiting task
(`WakeFromExitSyscall`, `WakeFromExitException`, `WakeFromExitNoshed`; the last one also
by the timer, because `schedule` returns at once while the scheduler is off).

### Heap - malloc of the user library

`hdr` maps header addresses to headers; a header that a merge swallowed leaves
the domain.  A pending allocation is `call`; each recursive call of `malloc` is a
step (`Take` a segment, or `Expand` and call again).  `hsh_split`,
`hsh_combine_forward`, `hsh_combine_backward` and `expand_heap` are operators on a
heap value.  Lengths and addresses are modulo `Word`.  `call.size` is what `malloc` was
called with and `call.asked` what the program asked for, `blocks` remembers the latter;
they differ when the product in `calloc` wraps.  `faulted`: the program touched memory it had not mapped (a wrapped size, `free(NULL)`) and was killed.

### Ipc - the terminal's tunnel

`host` (the terminal in `spawn_process`) and `client` (the program in `system`) have
positions between any two accesses to the shared page `tunnel`.  `frame` is the life
of the page's frame: `vmm_destroy_context` frees it with the first of the two
processes, and from then on `FrameReused` may write anything to it.  The page is
not cleared when mapped, so the handshake starts from any content.  `OthersRun`
is the scheduler's rule that a pin counts only while the terminal is on the
screen.  The clients' commands run as one nested process.

### Dns - the resolver

`results`, `loop` and `wait_for_response` are the fields of `dns_provider_t`. `lookup`
is the running `dns_resolve_A`; following an alias is a step.  The server (external)
answers from a fixed `zone`, with the alias alone or with the address as well; the
aliases of a name are its `Chain`, the smallest set with the name that no alias leaves,
and its address is that of the chain's end.  `dns_udp_recv` may deliver an answer to any
request ever sent, at any time, any number of times, or never.

### Sockets - TCP connections

A connection is named by its `socket_connect`.  `sock` is the `socket_t`, `tcp` the
`tcp_socket_t` with a life of its own (`mem`), `binds` and `sockets` are the two
arrays of pointers.  `call` is the socket call in progress: calls run in a `NOSHED`
region, so there is one at a time, but the handler `tcp_ipv4_recv` may run between
its steps - after the SYN, before `recv` is set (`Attach`), inside and between the two
`memcpy`s of `socket_recv` and the store of the count, after the FIN.  `RecvCopy` enters
the first `memcpy`, `RecvCopied` leaves it; `RecvStore` is separate because the build
(`-O2`) computes `num_bytes_received -= n` in a register; after it the second `memcpy`
is under way until `RecvMove`.  A segment inside a `memcpy` frees the buffer that is
copied (`Held`), which is a use of freed memory; the compiler may load the address for
the second one before the store (`MayBeHeld`).
`ProgramExits` is `resource_dealloc` for a program that leaves sockets open.

The peer and the network are external: `Segments` are all segments a peer may have sent,
and any of them may arrive at any time, again or never; in the behaviours with `orderly`
(chosen initially) they arrive once and in turn.  Data are numbered units, so that order
and repetition show; numbers wrap at `Word`.  A segment without data carries the card's
padding, which `tcp_ipv4_recv` takes for data when the segment reaches the default case
(RST). The first call of a missing callback (`mode` "crash") or use of a freed object
("stray") ends a behaviour.  The answers of the handler go through `arp_resolve`, which
sleeps: the model assumes the HPET as timer (`Stack` has both).  The programs use socket
numbers that `connect` gave them.

### Stack - start-up of the network, DHCP, ARP, ping

`main` is the kernel's own flow: `load_network_stack` from `dhcp_request` to
`dns_init`, value by value, then calls of `icmp_send_echo_reqest_and_wait`.  `Poll` is
one turn of `NET_TIMEOUT`.  `irq` is an interrupt handler that sleeps in
`arp_resolve` before it can send; while it does, nothing else is received.  With
`timer` "pit" it never wakes, because the ticks are interrupts.  `dhcp`, `ip`,
`gateway_ip`, `subnet_mask`, `dns`, `cache` and `last_echo_reply_ip` are the fields of
the providers.  A ping may ask for any address (`Target`): the hosts of the network,
the gateways, a host behind them (`Far`), 0.0.0.0 and the broadcast address, and every
host may answer what was sent to it or to everybody.  A configuration value is named by the lease it comes from, so that a
mixture shows.  `Route` and `SameSubnet` are the decision in `ipv4_send`, `Accepted`
the filter of `ipv4_etherframe_recv`.  Each kind of packet is an action
(`ReceiveOffer`, `ReceiveAck`, `ReceiveArp`, `ReceiveEchoReply`, `ReceiveIcmp`) that
may answer anything in `sent`, late, again or never.

### Files - open files (RAM part implements FileStore)

`fd_table` maps descriptors to the pages of their `file_t`; `file` is what those pages
hold, freed ones included, `live` the pages in use, `resources` the arrays that
`exit_task` closes, `held` the descriptors a program still uses.  `ram` is the RAM file
system's files with size and pages; a byte is named by the task that wrote it. `fat` is
the directory of every volume.  Of FatFs (`ff.c`) there is what handles depend on: the
search of a name (`Found`, `dir_find`), and that a handle knows its entry by place and
writes size and owner back when it is closed after a change (`Changed`, `f_sync`). Actions:
`ramfs_touch`, `fatfs_touch`, `ramfs_open`, `fatfs_open` (both through `sys_open`),
`sys_close`, `sys_delete`, `sys_read`, `ramfs_write`, `fatfs_write`, `ramfs_truncate`,
`fatfs_truncate`, `exit_task`.  `sys_read` changes something only when an assertion
fails, which ends the task.  `vfs_close` closes a sequence of files, one for `sys_close`
and all that a task has registered when it ends: of several that write to the same place
(`Changed`) the last one stays (`Synced`).  `FileStore` is the abstract specification: a
step writes one range of one file or moves its end.

### Console (implements Screens) and Keyboard

`VTerms` is what both share: the terminals and `current_term`, the one on the display.

`Console`: `text_console_video` is the display and each entry of
`text_console_vterms` a terminal with cursor and buffer.  `PutControl` and
`PutLetter` are `text_console_putc`, split where it returns early;
`text_console_driver_vpoke`, `text_console_vcursor` and `text_console_vterm` are the
other operations, with any arguments of `Cursors` and `Pokes`: the kernel tests none.
All of them are an `Output`, which stores where the offset points.  Buffers are pages
(`Page` gives their order), so an offset behind the own page may be in the buffer of
another terminal (`Reached`); of the video memory one page is mapped.  A store outside
all of these pages (`Misses`) sets `astray` and ends the behaviour.  `strayed` and
`spilled` are history: terminals that were led off their screen, and terminals to which
output was stored outside it.  `Screens` is the abstract specification: every terminal
has a screen, output changes one, and a spill reaches only from a hidden terminal to a
hidden one.

`Keyboard`: `held` and `wire` are the keys and the bytes they send; one interrupt
takes one byte.  `SecondOfExtended`, `SecondOfCaps`, `FirstOfTwo`, `ModifierKey` and
`OtherKey` are the branches of `ps2_keyboard_interrupt_handler`.  `sys_async_getc` and
`sys_async_getarrw` take the stored character or arrow for a program on the terminal
that is shown.  A character carries the number of its key press and the terminal
shown at that time.

## 3. The runs

| Run | Instance | Checks |
|---|---|---|
| `pmm` | 16 pages, kernel 3-4, paging 5-6, six boot layouts (hole, entry up to the top, entry beyond it, framebuffer), ranges up to 3 | `NoDoubleAllocation`, `PagingRegionSeparate`, `ScanStaysInBitmap`, `UsageTracksBitmap`, `ImplementsAllocator` |
| `vmm` | 16 frames, tables of three entries, two slots, three processes with two overlapping segments, a shared page, two resources | `KernelInEverySpace`, `FramesHaveOneOwner`, `ExitLeavesNothing` |
| `scheduler` | 3 slots, 3 processes, one terminal (so that every pin counts), delays of one tick | `RunsInOwnAddressSpace`, `AddressSpaceInForceIsLive`, `ResumesWhereSuspended`, `ReleasedExactlyOnce`, `DeadTaskLeaves`, `ReadyTaskRuns` |
| `heap` | a page of 32 bytes growing to five, sizes 0, 1, 17, 32, 1000, 1020 with `Word` 1024, also as factors of `calloc` | `Tiled`, `BlocksAreSegments`, `RecursionBounded` |
| `ipc` | two programs in turn, two messages | `SidesAgree`, `SystemBlocks`, `HandshakeCompletes`, `SystemReturns` |
| `dns` | three names, every zone, `MAX_LOOP_COUNT` 2, two polls, three results | `AnswerIsForTheQuestion`, `AddressNotRefused`, `LookupEnds` |
| `dns_loop` | two names, `MAX_LOOP_COUNT` 10 | `LoopingLookupEnds`, violated |
| `sockets` | one connection on any network, three units in and one out, reads of one and two, numbers modulo 8 from 6, all flags; or two connections to one server or two, orderly | `DeliveredIsPrefix`, `AckedIsDelivered`, `TablesAreLive`, `FaultsAreConfined`, `ExchangeCompletes` |
| `stack` | both timers, two servers, waits of two polls, a cache of two, five packets, two pings to any address | `OneConfirmedLease`, `YesMeansAnswered`, `WaitsEnd` |
| `files` | two tasks, one RAM file of up to two bytes with pages of two, two FAT volumes with two names and one directory place, two handles at a time, three descriptors | `OpenFilesHaveOneOwner`, `StaleMeansCut`, `EntriesAreOwn`, `BytesAreKept` |
| `console` | three terminals of two by two cells in pages of five that follow each other, cursors and pokes on the screen, left of, behind and far behind it, four writes, any number of switches | `CursorOnScreen`, `TerminalsAreIndependent` |
| `keyboard` | ten keys (two alts, shift, caps lock, a letter, an arrow, an extended key, F1, F2, F9), two terminals, five presses | `ModifiersFollowKeys`, `TypedHereReadHere` |

**Bounds.**  `pmm`: ranges of 3 cross every boundary of the layout (kernel, paging
region, module, framebuffer, hole, top).  `vmm`: programs load at a page number that is
also a frame, and tables have three entries, so that the kernel's memory grows into new
directory entries, also into those the programs use; sixteen frames and twenty tables
run out; two resources fill a page of the array, the case where the two page counts
differ.  `scheduler`: three pids in three slots allow a killer, a victim and a
bystander, reuse of a slot by a later pid and the full table; `MaxWait` 1 separates
"ready" from "waiting", and `elapsed` saturates there because a longer time makes every
delay end; with one terminal every pin is in force, and the safety properties are proved
for any number of terminals.  `heap`: 0, 1, 17 and 32 hit exact fit, split,
one-header-too-short and whole-page requests; 1000 and 1020 wrap in the rounding and the
page computation; five pages suffice for two expansions between live neighbours.  `ipc`:
a second program meets what the first left on the page.  `dns`: three names give chains,
loops and loops entered through an alias; a counter limit of 2 lets three responses
reach it.  `sockets`: three units with reads of two leave a remainder to shift, and
numbers starting at 6 wrap inside the data; two connections are enough for a slot to be
reused and for one connection to receive what belongs to the other.  `stack`: five
packets are two exchanges of offer and acknowledgement with one to spare, or one
exchange with an ARP answer and two echo replies; the second ping can meet an answer to
the first, from its own target or from another host.  `files`: two bytes with pages
of two cross the boundary at which `vmm_resize` takes a further page; one place per
directory is reused at once; three descriptors with two pages reuse a page.  `console`:
four writes fill two lines of two or place a cursor and go on from there; three
terminals in a row let a hidden one spill into a hidden one, from the display and past
the last page.  `keyboard`: five presses are a letter, two
modifiers, caps lock and a switch in any order, with any releases.

**Deadlock** is not checked where the modelled system may stop: `pmm`, `vmm`, `scheduler`,
`stack` and `files` have panics or reach the bounds on processes, packets and
descriptors; `heap` has a killed program and the bound `MaxEnd`; `sockets` ends with a
fault or when all connections are used up; `console` ends with a store outside the
terminals' pages; `keyboard` ends when all keys are up and
the presses are used up.

**Symmetry** is used in `files` only (the two tasks), whose properties are invariants
and a step property.

**Fairness.**  `Scheduler`: the PIT ticks (`WF(TimerInterrupt)`).  Nothing is assumed of
programs, devices or `NOSHED` regions: a lookup may never return (`dns_loop`), so
`ReadyTaskRuns` takes the end of such regions as a hypothesis.  `Ipc`: terminal and program each get the processor
again (`WF(HostStep)`, `WF(ClientStep)`), which is the round robin (`ReadyTaskRuns`);
nested processes may run for ever, so `SystemReturns` takes their end as a hypothesis.
`Dns`: kernel code runs on (`WF(dns_resolve_A)`), the network owes nothing.  `Stack`:
kernel code runs on (`WF(Flow)`), and so does a handler that sleeps on the HPET
(`WF(IrqSleeps)`); no packet has to arrive.  `Sockets`: a call that has begun goes on
(`WF(CallStep)`), and `WF(Arrive)` with `orderly` is the hypothesis of
`ExchangeCompletes`, that the segments of an orderly exchange arrive and `connect` does
not time out before them; the other properties of the run are safety.  Nothing is
assumed of the program: it may stop anywhere.

### What the properties exclude, and what was found

Some properties name the cases in which the code does not keep them:

- `sys_kill` of another process returns to the caller with the kernel's page
  directory in force (`exit_task` activates it and nobody restores it), so the
  killer faults unless it is rescheduled first (`orphaned`).
- `exit_task` ends in `sti; hlt`.  A device interrupt ends the `hlt` before the
  timer does (`woken`).  From a system call, `handle_interrupt` then calls
  `schedule` after it has set the TSS: the next task runs with the dead task's
  kernel stack, and its frame is not where `registers` points.  From an exception,
  the dead task returns to user mode, faults and is released again (`revived`).
- An exception in a `NOSHED` region - a socket call with an unknown id or a bad buffer,
  a missing callback - ends the task with the scheduler off.  `schedule` returns at
  once, so every interrupt returns to the instruction that faults, the context is
  destroyed again and no other task runs any more (`exit_noshed`).
- When the task table is full, `assert(task != NULL)` in `init_task`, which ends a
  caller elsewhere, runs with the scheduler off and stops the kernel.
- `mmmap` puts a frame into two contexts and both free it (`shared`, `doomed`): the
  second release takes it from whoever has it by then.  An allocation that fails
  returns NULL, which `vmm_alloc` and `init_elf` use (`exhausted`).
- The last page of a resource array that exactly fills its pages is lost when the
  task ends (`ExitLeavesNothing`).  `mmap` of a page that is mapped, or of an address
  inside a page, loses a frame for good (`Leaked`, bounded by `MaxLeaks`).
- A new kernel table replaces what a task has in that directory entry; the pages
  that the task had there are lost with it.
- `calloc` does not test its product: one that does not fit into a `size_t` gives a
  block that is too short (`Serves`).
- A tunnel handshake may lose its acknowledgement (`lost`), because
  `ipc_init_host` tests and writes in two accesses or because the frame held an
  acknowledgement when it was mapped.  The pin that `spawn_process` takes so that the
  program does not run before its page is mapped counts only on the screen.  When
  the program is killed, its frame is freed and may be reused, and then
  `assert(tunnel->state == IPC_WAIT_FOR_ANSWER)` fails in the terminal.
- A TCP socket gets foreign or false data when two connections share the remote
  end (`Exclusive`), when a RST with the expected number is taken for data
  (`padding`), and when a segment comes before `socket_recv` has stored its count
  (`uncounted`).  One that comes inside a `memcpy` of `socket_recv` frees the buffer that
  is copied; an answer of two segments is enough.  `connect` returns after the timeout without saying whether
  the connection is established.
- The callback is missing until `connect` is nearly done: a server that speaks first,
  or refuses with RST|ACK and number 0, makes the handler call NULL.  If the peer
  closes first, or still sends after the program has disconnected, the kernel uses
  a freed `tcp_socket_t` or `socket_t`.  `FaultsAreConfined` says where this can be
  and for which exchanges it cannot.
- An acknowledgement that arrives while start-up copies an earlier lease mixes the
  two (`overtaken`).  `ping 0.0.0.0` says yes without a packet, because 0 is what the
  reply field is cleared with.  With the PIT, a handler that has to resolve an address
  stops the kernel (`Stuck`), and so does an ICMP message of an unknown type.
- A RAM file that was cut through another handle still has its old size in this one
  (`cut`): a program that reads within it is ended by `assert` in `ramfs_read`.  A FAT
  file that was deleted while another handle had it open (`orphaned`) writes its size
  into whatever entry took its place.  `delete` passes FatFs a path without a drive, so
  on another drive it removes drive 0's file of that name, or none; on the RAM file
  system it is a `todo()` that stops the kernel.  `touch` empties an existing file on
  FAT and leaves one in RAM alone.  Bytes of a RAM file that nobody has written hold what
  the page held before.
- A cursor may be placed, and a poke may reach, outside the screen: the kernel checks
  nothing, and the C library's own escape sequence allows line 80
  (user/libc/buildin/ansi.c:125).  A tab, backspace or carriage return on a full last
  line also leaves the cursor below the screen (`strayed`).  Output then lands in the
  next page, which may be another terminal's buffer.  The byte behind a caps lock
  press is dropped whatever it is (`eaten`).  Arrows, unlike characters, survive a
  switch of terminals and are read on the new one.

One statement in the source is refuted by a run (`findings` in `PROJECT.json`):
`dns_loop` shows that "DNS: CACHE: looping CNAME" is never reported for a loop that is
entirely cached; the recursion does not end.

Reading the source also showed, outside the models: `text_console_vcursor_get` stores
`x` into `*y` (text_console.c:189), `ramfs_find` descends through a file's
node as if it were a directory, and `ipv4_etherframe_recv` uses `total_length` without
a byte swap (ipv4.c:60), so that packets are as long as their frames.  `dns_resolve_A`
copies through a pointer into `results` (dns.c:109) that a response may have freed in
between, which `Dns` takes as one step.  Interrupts nest in `rtl8139_send`.

Where a hazard of `PROJECT.json` is itself the exception of a property, its note says
so: the property then shows that there is no other way to that failure.

## 4. The proofs

Every theorem holds for all values of the constants that satisfy the named assumptions;
TLC evaluates the assumptions in each run.  What they demand of the constants: the boot
layout of `Pmm` (`LayoutAssumption`, `BootsAssumption`); in `Vmm`, a finite task table,
user space behind all memory (`USER_SPACE_OFFSET`), stacks that are not larger than
memory, and room for the largest resource array; in `Console`, at least two lines, tab stops
that divide the width (80 by 25, tabs of 4 in the source), and buffers in pages of
their own that hold a screen; in `Sockets`, fewer
data than sequence numbers (`MaxData + 4 < Word`, so that a number stands for one unit);
in `Heap`, pages of at least two granules, a heap that begins at a page and ends below
the top of the address space, and a `size_t` whose range is a multiple of the page; in
`Files`, that NULL is no page, no node and no entry.  The bounds on processes, presses,
packets, messages and so on are arbitrary.

**PmmProofs.**  The inductive invariant is `TypeOK` with the allocator's five state
invariants (`NoDoubleAllocation`, `ReservedNeverHandedOut`, `PagingRegionSeparate`,
`ScanStaysInBitmap`, `UsedIsAccountedFor`): `NoDoubleAllocation` alone is not
inductive, because `pmm_alloc_range` neither tests the mask inside a range nor the end
of the bitmap.  The argument is one of two sentinels.  `LastPageReserved`: `pmm_init`
cuts an entry off one page below the top, so the last page is reserved, used and
outside the mask, and a scan that would pass the bitmap is rejected there.
`KernelReserved`: the kernel's last page stands directly in front of the paging
region, is used and is outside the mask, so a range that starts below the region
cannot reach it; one that starts behind it cannot either.  `RangeIsFree` draws the
conclusion: a range that is handed out is free, unmasked and inside the bitmap.
`PmmUsageTracksBitmap` is the counters' step property, by the cardinality of what a
call adds and takes.  `PmmImplementsAllocator` is the refinement: `Init` maps to the
abstract `Init`, every step to one lending, one return, or a stutter.
Also `PmmNoDoubleAllocation`, `PmmPagingRegionSeparate`, `PmmScanStaysInBitmap`.

**VmmProofs.**  `SpaceInv`: every active task has the kernel's directory entries and
none of its own tables in one.  `MapInKernelDoes` and `MapPagesDoes` say what the two
uses of `vmm_map_page` change; `OffsetApart`, that what is mapped at the offset is never
in an entry of the kernel.  `OwnerInv` (`Owned`) is over the set of users of frames -
pages, stacks, arrays: beyond `FramesHaveOneOwner` it needs that what `mmmap` shares is
never a stack or an array, which are freed without looking.  Four lemmas say what
allocating, sharing, releasing and moving do to `Owned`, and each action is one of
them.  `TidyInv`: a task has finitely many tables and its resource array is one
piece of exactly the size that `vmm_resize` gives it; this is what
`resource_dealloc` relies on when it computes the pages from the number of entries.
`SizesAgree` compares the two page counts, `ExitFrames` and `ExitTables` account for
what `exit_task` frees.  Theorems: `VmmKernelInEverySpace`, `VmmFramesHaveOneOwner`,
`VmmExitLeavesNothing`.

**SchedulerProofs.**  The inductive invariant adds to `TypeOK` and
`ReleasedExactlyOnce`: `PidsUnique` (a pid is below `current_pid` and in one slot),
`SlotsOK` (the current slot is used, an active one has a pid), `SpaceOK` (what `cr3`
may be in each mode), `ModeOK` (when the scheduler is on and the current task
active, and that a dead task that runs is in `revived`), `StacksOK` (`esp0` and `stale` as long as nothing was woken).  They are
needed because destruction is counted per pid while tasks live in slots: without
`PidsUnique` the end of one task could disturb another's count.  `ScheduleOutcome`
sums up `schedule` once (it keeps everything but delays, and chooses an active slot
or stays or panics), and every caller of it uses that.  Theorems:
`SchedulerOwnAddressSpace`, `SchedulerAddressSpaceLive`, `SchedulerResumes`,
`SchedulerReleasedOnce`.

**UserProofs**, about the user library.

The heap.  The pointers of the chain alone exclude neither a gap nor a second chain
inside the first, so `Tiled` is not inductive.  `Sound` adds that both directions agree
(`Forward`, `Backward`), that no segment reaches into another or over the end (`Apart`)
and that all lengths are multiples of the granule (`Even`).  It is stated for a heap
value with a set of open segments, which may for the moment be free side by side with a
free one; every operation on the chain is one lemma from a sound heap to a sound heap
that keeps the blocks in use: `MergeSound` for one merge, `ForwardSound` and
`BackwardSound` for the two ways to combine, which close what `free` opened
(`FreeSound`), `SplitSound`, `TakeSound`, `GrownSound` and `ExpandSound`.  No induction
along the chain is needed: what each lemma changes is three headers at most.  `Owned`
ties the blocks to the used segments.  `Pending` says what a call has gained by
expanding: after one expansion the last segment is free and as long as the pages it
asked for less a header, after two it is long enough, so there is no third.  Rounding
and the wrap of `size_t` are `RoundedIs` and `PageLengthIs`.  Theorems: `HeapTiled`,
`HeapBlocksAreSegments`, `HeapRecursionBounded`.

The tunnel.  `TunnelInv` is a disjunction of phases - page not mapped, greeting,
terminal free, message asked - each with the positions the two sides can hold together
and the content of the page; a phase is left only by one side's write.  From it
`IpcSidesAgree` and the step property `IpcSystemBlocks` (`system` returns after its
message has run once), although both sides test and write in separate accesses.

**SocketsProofs**, for any number of connections and any loss, doubling and
reordering.  `TableInv`: `binds` and `sockets` name a connection at most once and
agree with the life of its objects (`ConnOK`), and the count of a buffer fits the call
in progress (`BufferOK`).  `OrderInv` adds, for the orderly network, the stage each
connection is in (`Stage`): so many segments received, this state, these objects
alive; no stage lets a segment reach a missing callback or a freed object.  What is
left is a segment that comes during `socket_recv` (`Overtaken`), and then it is not the
first one of the answer, since there was something to copy (`Begun`); together this is
`SocketsFaultsAreConfined`.  `AckInv` ties `ack_number` to the units counted, modulo
`Word`, through the unlocked steps of `socket_recv` (`SocketsAckedIsDelivered`).
`PrefixInv` says that what was read and what lies in the buffer are the peer's units
from the first on; a segment is stored only when its number is the expected one, and by
`AckInv` that is the number of the next unit (`SocketsDeliveredIsPrefix`).  Also
`SocketsTablesAreLive`.

**StackProofs.**  `LeaseInv` lists, for each place of the start-up flow, which values
are already copies of what the DHCP fields hold now (`CopiedSoFar`), as long as no
acknowledgement came between (`overtaken`); `PingInv` adds that the reply field names a
host that has replied since it was cleared, whichever of the hosts that is.  Theorems: `StackOneConfirmedLease`,
`StackYesMeansAnswered`.

The same module holds the resolver's proofs, for every zone over any names.  `DnsInv`:
every result in the cache agrees with the server (`FromServer`), and the name that is
looked up now has the address of the one that was asked (`OnTheWay`), through however
many aliases and whichever lookups filled the cache.  `ChainIs` and `AddressIs` say
that an alias has the address of what it stands for; the chain is a smallest closed
set, so this needs no induction.  Theorems: `DnsAnswerIsForTheQuestion`,
`DnsAddressNotRefused`.

**TerminalProofs.**  The console.  `ScreenInv`: the cursor of every terminal that was not
led astray is on the screen, and nothing of its output was stored outside.  The
refinement of `Screens` is shown step by step: with the display for the terminal that is
shown and the buffer for the others, a switch changes no screen, output inside the
screen changes one, and a spill (`Reached`) leaves the terminal that is shown alone.  The proof of
`CursorOnScreen` failed at first for one-line screens, where it is false: hidden
terminals start on the second line; hence the assumption on `Height`.  Theorems:
`ConsoleCursorOnScreen`, `ConsoleTerminalsAreIndependent`.

The keyboard.  `ModifierInv`: the modifiers are the held keys except for one key
whose bytes are still on the wire, in whole or without the prefix the driver has
remembered; `CharInv` orders the numbers of characters read, stored and typed.
Theorems: `KeyboardModifiersFollowKeys`, `KeyboardTypedHereReadHere`.

**FilesProofs**, for any number of tasks, names, volumes, places, pages and handles.
`OwnInv` (ownership): what is registered is allocated and registered once, what is
allocated is registered, and the descriptors a program uses are of different files that
its own task has registered; the last part is what makes closing one of them leave
the others alone.  `OpenOwns`, `CloseOwns` and `EndOwns` are its three kinds of step.
`FatInv`: unless a file was deleted under another handle, every handle of a FAT file is
at a place that holds an entry of its own file; so whatever closing writes
(`SyncedIs`, by the greatest index among the changed ones) is the entry's own.
`RamInv`: the file behind a handle exists and is as long as the handle says, unless
the handle is in `cut`.  `NodeInv`: a RAM file without data is empty, and one with data
has exactly the pages that `vmm_resize` computes from its size, which is why growing
inside the last page may leave the data where they are (`ResizeIs`, `CapacityIs`).  With
it the refinement: touching a file is `Create` or a stutter, a write is `Write`
(`StoreWrite`), a truncation `Truncate`, and everything else leaves the bytes alone.
Theorems: `FilesHaveOneOwner`, `FilesStaleMeansCut`, `FilesEntriesAreOwn`,
`FilesBytesAreKept`.

**Only model-checked.**  Liveness and everything under fairness (`DeadTaskLeaves`,
`ReadyTaskRuns`, `HandshakeCompletes`, `SystemReturns`, `LookupEnds`,
`ExchangeCompletes`, `WaitsEnd`), which the prover does not handle.  All other properties
of the passing runs are proved.

## 5. Not modelled

Threads, SMP, AHCI and the GDB stub are compiled out.  FatFs (22,000 of the
kernel's lines, most of them code page tables; only directory search and write-back are
in `Files`), libtinf and the RISC-V emulator are third-party.  Boot, PCI, ACPI, disk, network card and sound drivers are register
programming against hardware whose behaviour the source does not contain.  devfs,
initrd, NextFS and partitions are look-ups in what is fixed after boot.

Interrupts that nest in a handler after `rtl8139_send`, and use of a descriptor after
its `close`, are not modelled.  In the modelled parts: the content of memory, of messages and of FAT files, headers and
checksums, the encoding of DNS packets and ELF parsing are abstracted.  The virtual
output tunnel of the IPC library, which has no host in the repository, is left out, as
are UDP sockets, `tcp_listen` (declared, never defined), directories and mount
selection, the mouse, keyboard layouts besides their choice by modifiers, colours, and
the full-screen terminal, which repeats the console's control over pixels.  What a
system call does with an address that is not the caller's is not modelled: the kernel
does not test addresses.

User programs besides the terminal are straight-line use of system calls; the C
library's helpers have no state.

## 6. Plan

The models are complete for the parts listed as modelled, and all their safety
properties are proved.  What is left, in this order:

1. Shorter proofs where `SocketsProofs` repeats itself from action to action: a lemma
   for the steps that leave a connection alone, used by all four invariants.
2. UDP sockets and directories, the largest parts of the modelled components that are
   left out.

Everything about liveness stays with TLC.
