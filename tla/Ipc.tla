--------------------------------- MODULE Ipc ---------------------------------
(***************************************************************************)
(* The tunnel between a terminal and the program it runs: the shared page  *)
(* of user/libc/ipc.c, the terminal's side in spawn_process                *)
(* (user/terminal/commands.c) and the program's side in system()           *)
(* (user/libc/stdlib/system.c).                                            *)
(*                                                                         *)
(* Terminal and program are processes the kernel may preempt between any   *)
(* two accesses to the page, so every access and every system call is a    *)
(* step.  The page is one physical frame mapped into both processes by     *)
(* mmmap, which does not clear it; the kernel frees the frame when either  *)
(* of them ends although the other still maps it, and from then on its     *)
(* content belongs to whoever gets it next.                                *)
(*                                                                         *)
(* The terminal runs one program at a time.  Commands that arrive over the *)
(* tunnel run as a nested process, which the terminal only waits for       *)
(* (already_in_ipc).                                                       *)
(*                                                                         *)
(* The operators named Wrong_... are faulty variants of the definitions    *)
(* that follow them; no action uses them.                                  *)
(***************************************************************************)
EXTENDS Naturals

CONSTANTS
    Message,     \* the commands programs pass to system()
    Junk,        \* the content of a frame nobody wrote for us
    MaxSpawns    \* bound: programs the terminal starts

ASSUME IpcAssumption == Junk \notin Message /\ MaxSpawns \in Nat

VARIABLES
    host,        \* the terminal: its position, and its copy `out' of a message
    client,      \* the program: its position, ipc_initialised, its message
    tunnel,      \* the shared page: state and data
    frame,       \* the page's frame: not there yet, shared, or freed
    pin,         \* the terminal's SYS_ENV_PIN
    visible,     \* the terminal's virtual terminal is the one on the screen
    nested,      \* a process started for a message is running
    spawned,     \* number of programs started
    runs,        \* history: how often the client's current message was run
    lost         \* history: the handshake lost the program's acknowledgement

ipcVars == <<host, client, tunnel, frame, pin, visible, nested, spawned, runs, lost>>

History == <<runs, lost>>

TunnelState == {"START", "ACK", "OK", "WAIT", Junk}

\* Positions in the loop of spawn_process that serves messages.
Serving == {"serve", "poll", "run", "nested", "ok", "ok_set"}

\* Positions of a program in ipc_init and in ipc_message_send.
Handshaking == {"wait_start", "ack", "wait_ok"}

Sending == {"send", "write", "publish", "wait_answer"}

Ended == client.pc = "ended"

\* A pinned task keeps the processor while its terminal is on the screen.
OthersRun == ~(pin /\ visible)

-----------------------------------------------------------------------------
(* The terminal: spawn_process.                                            *)

HostGoto(pc) == host' = [host EXCEPT !.pc = pc]

\* The kernel's part of a process's end: vmm_destroy_context frees the shared
\* frame whether or not the other process still maps it.
FrameFreed == frame' = IF frame = "shared" THEN "freed" ELSE frame

HostEnds == HostGoto("dead") /\ pin' = FALSE /\ FrameFreed

HostPin ==
    /\ host.pc = "prompt"
    /\ spawned < MaxSpawns
    /\ pin' = TRUE
    /\ HostGoto("spawn")
    /\ UNCHANGED <<client, tunnel, frame, visible, nested, spawned, History>>

\* The program exists and can be scheduled as soon as spawn returns, or
\* spawn returns -1 and the terminal goes back to its prompt.
HostSpawn ==
    /\ host.pc = "spawn"
    /\ \/ /\ client' = [pc |-> "program", initialised |-> FALSE, msg |-> Junk]
          /\ frame' = "none"
          /\ spawned' = spawned + 1
          /\ HostGoto("map")
          /\ UNCHANGED pin
       \/ /\ pin' = FALSE
          /\ HostGoto("prompt")
          /\ UNCHANGED <<client, frame, spawned>>
    /\ runs' = 0 /\ lost' = FALSE
    /\ UNCHANGED <<tunnel, visible, nested>>

\* mmmap maps a fresh frame, with whatever it holds, into both processes.  It
\* dereferences the task of a program that has already ended, which ends the
\* terminal.
ipc_init_mapping ==
    /\ host.pc = "map"
    /\ IF Ended
       THEN HostEnds /\ UNCHANGED <<tunnel, lost>>
       ELSE /\ \E s \in TunnelState :
                  /\ tunnel' = [state |-> s, data |-> Junk]
                  /\ lost' = (s = "ACK")
            /\ frame' = "shared"
            /\ HostGoto("unpin")
            /\ UNCHANGED pin
    /\ UNCHANGED <<client, visible, nested, spawned, runs>>

HostUnpin ==
    /\ host.pc = "unpin"
    /\ pin' = FALSE
    /\ HostGoto("alive")
    /\ UNCHANGED <<client, tunnel, frame, visible, nested, spawned, History>>

\* The loops' condition: get_proc_info(pid).
HostAlive ==
    /\ host.pc \in {"alive", "serve"}
    /\ HostGoto(IF Ended THEN "prompt" ELSE IF host.pc = "alive" THEN "read" ELSE "poll")
    /\ UNCHANGED <<client, tunnel, frame, pin, visible, nested, spawned, History>>

\* ipc_init_host tests the state ...
ipc_init_host_test ==
    /\ host.pc = "read"
    /\ HostGoto(IF tunnel.state = "ACK" THEN "set_ok" ELSE "set_start")
    /\ UNCHANGED <<client, tunnel, frame, pin, visible, nested, spawned, History>>

\* ... and sets it in a second access: an acknowledgement that arrives in
\* between is overwritten.
Wrong_ipc_init_host_start ==             \* asks again only once
    /\ host.pc = "set_start"
    /\ HostGoto("serve")
    /\ tunnel' = [tunnel EXCEPT !.state = "START"]
    /\ lost' = (lost \/ (frame = "shared" /\ tunnel.state = "ACK"))
    /\ UNCHANGED <<client, frame, pin, visible, nested, spawned, runs>>

ipc_init_host_start ==
    /\ host.pc = "set_start"
    /\ HostGoto("alive")
    /\ tunnel' = [tunnel EXCEPT !.state = "START"]
    /\ lost' = (lost \/ (frame = "shared" /\ tunnel.state = "ACK"))
    /\ UNCHANGED <<client, frame, pin, visible, nested, spawned, runs>>

ipc_init_host_ok ==
    /\ host.pc = "set_ok"
    /\ HostGoto("serve")
    /\ tunnel' = [tunnel EXCEPT !.state = "OK"]
    /\ UNCHANGED <<client, frame, pin, visible, nested, spawned, History>>

\* The message is copied into a buffer on the stack.  The length of a message
\* nobody sent may run over the buffer and end the terminal.
ipc_message_ready ==
    /\ host.pc = "poll"
    /\ \/ /\ host' = IF tunnel.state = "WAIT"
                     THEN [pc |-> "run", out |-> tunnel.data]
                     ELSE [host EXCEPT !.pc = "serve"]
          /\ UNCHANGED <<frame, pin>>
       \/ /\ tunnel.state = "WAIT"
          /\ tunnel.data = Junk
          /\ HostEnds
    /\ UNCHANGED <<client, tunnel, visible, nested, spawned, History>>

\* command_received runs the message: "terminal -e ..." is spawned as a nested
\* process, or cannot be spawned.  Its pinning (set, spawn, clear) touches
\* nothing of the tunnel and is part of the step.
command_received ==
    /\ host.pc = "run"
    /\ runs' = IF runs < 2 /\ client.pc = "wait_answer" THEN runs + 1 ELSE runs
    /\ nested' \in BOOLEAN
    /\ HostGoto("nested")
    /\ UNCHANGED <<client, tunnel, frame, pin, visible, spawned, lost>>

\* normal_wait: the terminal waits until the nested process has ended.
Wrong_NestedWait ==                      \* answers before the command has ended
    /\ host.pc = "nested"
    /\ HostGoto("ok")
    /\ UNCHANGED <<client, tunnel, frame, pin, visible, nested, spawned, History>>

NestedWait ==
    /\ host.pc = "nested"
    /\ ~nested
    /\ HostGoto("ok")
    /\ UNCHANGED <<client, tunnel, frame, pin, visible, nested, spawned, History>>

\* ipc_ok: the assertion, then the answer.
ipc_ok_assert ==
    /\ host.pc = "ok"
    /\ IF tunnel.state = "WAIT"
       THEN HostGoto("ok_set") /\ UNCHANGED <<frame, pin>>
       ELSE HostEnds
    /\ UNCHANGED <<client, tunnel, visible, nested, spawned, History>>

Wrong_ipc_ok_set ==                      \* leaves the message in the tunnel
    /\ host.pc = "ok_set"
    /\ HostGoto("serve")
    /\ UNCHANGED <<client, tunnel, frame, pin, visible, nested, spawned, History>>

ipc_ok_set ==
    /\ host.pc = "ok_set"
    /\ HostGoto("serve")
    /\ tunnel' = [tunnel EXCEPT !.state = "OK"]
    /\ UNCHANGED <<client, frame, pin, visible, nested, spawned, History>>

HostStep ==
    \/ HostSpawn
    \/ ipc_init_mapping
    \/ HostUnpin
    \/ HostAlive
    \/ ipc_init_host_test
    \/ ipc_init_host_start
    \/ ipc_init_host_ok
    \/ ipc_message_ready
    \/ command_received
    \/ NestedWait
    \/ ipc_ok_assert
    \/ ipc_ok_set

-----------------------------------------------------------------------------
(* The program: ipc_init and ipc_message_send as system() calls them.      *)

ClientGoto(pc) == client' = [client EXCEPT !.pc = pc]

ClientEnds == ClientGoto("ended") /\ FrameFreed

ClientRuns(pc) ==
    /\ client.pc = pc
    /\ OthersRun
    /\ UNCHANGED <<host, pin, visible, nested, spawned, lost>>

\* An access to the page before it is mapped ends the program.
ClientAccess(pc, A) ==
    /\ ClientRuns(pc)
    /\ IF frame = "none"
       THEN ClientEnds /\ UNCHANGED <<tunnel, runs>>
       ELSE A /\ UNCHANGED frame

\* system(in): the handshake first, once per program.
system(m) ==
    /\ ClientRuns("program")
    /\ client' = [client EXCEPT !.pc = IF client.initialised THEN "send" ELSE "wait_start",
                                !.msg = m]
    /\ UNCHANGED <<tunnel, frame, runs>>

ipc_init_wait_start ==
    ClientAccess("wait_start",
        /\ ClientGoto(IF tunnel.state = "START" THEN "ack" ELSE "wait_start")
        /\ UNCHANGED <<tunnel, runs>>)

ipc_init_ack ==
    ClientAccess("ack",
        /\ tunnel' = [tunnel EXCEPT !.state = "ACK"]
        /\ ClientGoto("wait_ok")
        /\ UNCHANGED runs)

ipc_init_wait_ok ==
    ClientAccess("wait_ok",
        /\ client' = IF tunnel.state = "OK"
                     THEN [client EXCEPT !.pc = "send", !.initialised = TRUE]
                     ELSE client
        /\ UNCHANGED <<tunnel, runs>>)

\* ipc_message_send: the assertion, the message, the state that publishes it,
\* and the wait for the answer.
ipc_message_send_assert ==
    /\ ClientRuns("send")
    /\ IF tunnel.state = "OK" THEN ClientGoto("write") /\ UNCHANGED frame ELSE ClientEnds
    /\ runs' = 0
    /\ UNCHANGED tunnel

Wrong_ipc_message_send_write ==          \* publishes before the data is there
    ClientAccess("write",
        /\ tunnel' = [tunnel EXCEPT !.state = "WAIT"]
        /\ ClientGoto("publish")
        /\ UNCHANGED runs)

ipc_message_send_write ==
    ClientAccess("write",
        /\ tunnel' = [tunnel EXCEPT !.data = client.msg]
        /\ ClientGoto("publish")
        /\ UNCHANGED runs)

ipc_message_send_publish ==
    ClientAccess("publish",
        /\ tunnel' = [tunnel EXCEPT !.state = "WAIT"]
        /\ ClientGoto("wait_answer")
        /\ UNCHANGED runs)

ipc_message_send_wait ==
    ClientAccess("wait_answer",
        /\ ClientGoto(IF tunnel.state = "WAIT" THEN "wait_answer" ELSE "program")
        /\ UNCHANGED <<tunnel, runs>>)

ClientStep ==
    \/ ipc_init_wait_start
    \/ ipc_init_ack
    \/ ipc_init_wait_ok
    \/ ipc_message_send_assert
    \/ ipc_message_send_write
    \/ ipc_message_send_publish
    \/ ipc_message_send_wait

-----------------------------------------------------------------------------
(* Everybody else.                                                         *)

\* The program returns from main, or another process kills it wherever it is.
ProgramEnds ==
    /\ ~Ended
    /\ OthersRun
    /\ ClientEnds
    /\ UNCHANGED <<host, tunnel, pin, visible, nested, spawned, History>>

\* The terminal ends at its prompt, or another process kills it wherever it is.
TerminalEnds ==
    /\ host.pc # "dead"
    /\ OthersRun \/ host.pc = "prompt"
    /\ HostEnds
    /\ UNCHANGED <<client, tunnel, visible, nested, spawned, History>>

NestedEnds ==
    /\ nested
    /\ nested' = FALSE
    /\ UNCHANGED <<host, client, tunnel, frame, pin, visible, spawned, History>>

\* The next owner of the freed frame writes to it.
FrameReused ==
    /\ frame = "freed"
    /\ OthersRun
    /\ \E s \in TunnelState : tunnel' = [state |-> s, data |-> Junk]
    /\ UNCHANGED <<host, client, frame, pin, visible, nested, spawned, History>>

\* The user turns to another virtual terminal, or back.
SwitchTerminal ==
    /\ visible' = ~visible
    /\ UNCHANGED <<host, client, tunnel, frame, pin, nested, spawned, History>>

IpcInit ==
    /\ host = [pc |-> "prompt", out |-> Junk]
    /\ client = [pc |-> "ended", initialised |-> FALSE, msg |-> Junk]
    /\ tunnel = [state |-> Junk, data |-> Junk]
    /\ frame = "none"
    /\ pin = FALSE
    /\ visible = TRUE
    /\ nested = FALSE
    /\ spawned = 0
    /\ runs = 0
    /\ lost = FALSE

IpcNext ==
    \/ HostPin
    \/ HostStep
    \/ \E m \in Message : system(m)
    \/ ClientStep
    \/ ProgramEnds
    \/ TerminalEnds
    \/ NestedEnds
    \/ FrameReused
    \/ SwitchTerminal

\* Both processes get the processor again and again: the scheduler is a round
\* robin and the terminal's pin is short (Scheduler!ReadyTaskRuns).
IpcSpec == IpcInit /\ [][IpcNext]_ipcVars /\ WF_ipcVars(HostStep) /\ WF_ipcVars(ClientStep)

-----------------------------------------------------------------------------
\* A program that has come out of ipc_init has a terminal that has come out of
\* ipc_init_host, whatever the page held before the handshake.
HandshakeAgrees ==
    client.pc \in Sending \/ (client.initialised /\ ~Ended) => host.pc \in Serving \cup {"dead"}

\* assert(tunnel->state == IPC_CONNECTION_OK) of ipc_message_send: nobody else
\* uses the tunnel when a program that is past its handshake wants to send,
\* as long as there is a terminal to hold the page.
SendFindsTunnelFree ==
    client.pc = "send" /\ host.pc # "dead" => tunnel.state = "OK"

\* The terminal runs the message the program is waiting for, complete and once,
\* unless the program ended under its hands.
RunsWhatWasSent ==
    host.pc \in {"run", "nested", "ok", "ok_set"} /\ ~Ended =>
        /\ client.pc = "wait_answer"
        /\ host.out = client.msg
        /\ runs = IF host.pc = "run" THEN 0 ELSE 1

\* The two sides agree at every stage of the tunnel, whatever its page held before
\* and wherever they are preempted or killed.
SidesAgree == HandshakeAgrees /\ SendFindsTunnelFree /\ RunsWhatWasSent

\* system() returns only when its command has run, once, and has ended
\* - unless the terminal is gone.
SystemBlocks ==
    [][client.pc = "wait_answer" /\ client'.pc = "program" /\ host.pc # "dead"
         => runs = 1 /\ ~nested]_ipcVars

\* A handshake ends: the program gets its tunnel, or one of the two ends, or the
\* acknowledgement was lost - overwritten by the terminal between its test and
\* its write, or already there when the page was mapped.
HandshakeCompletes ==
    (client.pc \in Handshaking) ~>
        (client.pc \in Sending \/ Ended \/ lost \/ host.pc = "dead")

\* If the processes started for messages end, system() returns, unless one of
\* the two sides ends.
SystemReturns ==
    []<>(~nested) =>
        ((client.pc \in Sending) ~> (client.pc = "program" \/ Ended \/ host.pc = "dead"))

=============================================================================
