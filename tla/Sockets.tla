------------------------------- MODULE Sockets -------------------------------
(***************************************************************************)
(* TCP sockets: the system calls of mckrnl/net/socket_manager.c and        *)
(* mckrnl/net/tcp.c against tcp_ipv4_recv, which a network card's          *)
(* interrupt runs.                                                         *)
(*                                                                         *)
(* A socket call runs in a NOSHED region: one call at a time, interrupts   *)
(* on, so the handler may run between any two of its steps.  The handler   *)
(* itself is one step.  It sends its answers through arp_resolve, which    *)
(* sleeps; that ends because global_timer_driver is the HPET.              *)
(*                                                                         *)
(* A connection is named by its socket_t; the tcp_socket_t that belongs to *)
(* it has a life of its own.  The first use of freed memory and a call of  *)
(* the callback that is not set yet end the model (mode): nothing is said  *)
(* about what follows.  received_data has no name of its own: a buffer is  *)
(* freed when a segment is added to it, so what is kept of its life is     *)
(* whether socket_recv is inside a memcpy on it then (Held).               *)
(*                                                                         *)
(* The peer's unit k of connection c is <<c, k>>; sequence numbers count   *)
(* units and wrap at Word.  The lengths that the IP layer reports are      *)
(* taken to be right, except that a segment without data is padded by the  *)
(* network card: tcp_ipv4_recv sees the padding as data.                   *)
(*                                                                         *)
(* The operators named Wrong_... are faulty variants of the definitions    *)
(* that follow them; no action uses them.                                  *)
(***************************************************************************)
EXTENDS Integers, Sequences, FiniteSets

CONSTANTS
    Conn,        \* socket_connect calls
    Server,      \* remote addresses and ports
    None,        \* NULL in an array of pointers
    MaxData,     \* bound: units a peer sends on a connection
    MaxSend,     \* bound: units a program sends on a connection
    MaxRead,     \* bound: the longest read of a program
    Word,        \* 2^32: sequence numbers wrap here
    Isn,         \* the peers' initial sequence number
    Flags,       \* the combinations of flags that peers send
    Wild         \* bound: the connections on a network that is not orderly

ASSUME SocketsAssumption ==
    /\ None \notin Conn
    /\ MaxData \in Nat /\ MaxSend \in Nat \ {0} /\ MaxRead \in Nat \ {0}
    /\ Word \in Nat /\ Isn \in 0 .. Word - 1 /\ MaxData + 4 < Word
    /\ Wild \subseteq Conn

VARIABLES
    remote,      \* the server of each connection
    orderly,     \* a network without loss, and exchanges of request and answer
    tcp,         \* tcp_socket_t
    sock,        \* socket_t
    binds,       \* tcp_provider_t.binds
    sockets,     \* socket_manager_t.sockets
    call,        \* the socket call in progress
    mode,        \* "ok"; "crash": a NULL callback; "stray": freed memory used
    read,        \* history: what socket_recv returned
    sent,        \* history: how many units a program has sent
    odd,         \* history: what spoilt a connection's data
    got          \* segments of an orderly exchange that have arrived

vars == <<remote, orderly, tcp, sock, binds, sockets, call, mode, read, sent, odd, got>>

History == <<remote, orderly, read, sent, odd, got>>

\* What is not a unit of a peer's data.
Padding == <<None, 0>>

Idle == [op |-> "none"]
On(op, c) == [op |-> op, conn |-> c]

Next32(n) == (n + 1) % Word

-----------------------------------------------------------------------------
(* Arrays of pointers: binds and sockets take the first empty slot or grow.  *)

Enter(array, c) ==
    LET empty == {i \in DOMAIN array : array[i] = None}
    IN  IF empty = {} THEN Append(array, c)
        ELSE [array EXCEPT ![CHOOSE i \in empty : \A j \in empty : i <= j] = c]

Remove(array, c) == [i \in DOMAIN array |-> IF array[i] = c THEN None ELSE array[i]]

In(array, c) == \E i \in DOMAIN array : array[i] = c

-----------------------------------------------------------------------------
(* The calls.                                                                *)

Quiet == mode = "ok" /\ call = Idle

Stray == mode' = "stray" /\ UNCHANGED <<tcp, sock, binds, sockets, call>>

\* socket_connect and tcp_connect up to the SYN.
sys_sock_connect(c) ==
    /\ Quiet
    /\ tcp[c].mem = "none" /\ (orderly \/ c \in Wild)
    /\ sock' = [sock EXCEPT ![c].mem = "live"]
    /\ tcp' = [tcp EXCEPT ![c].mem = "bound", ![c].state = "SYN_SENT"]
    /\ binds' = Enter(binds, c)
    /\ call' = On("connect", c)
    /\ UNCHANGED <<sockets, mode, History>>

\* tcp_wait_established ends: established, or after NET_TIMEOUT.  (An orderly
\* network answers in time.)
tcp_wait_established ==
    /\ mode = "ok"
    /\ call.op = "connect"
    /\ orderly => tcp[call.conn].state = "ESTABLISHED"
    /\ call' = On("attach", call.conn)
    /\ UNCHANGED <<tcp, sock, binds, sockets, mode, History>>

\* The rest of socket_connect: data, recv, socket_manager_register.
Attach ==
    /\ mode = "ok"
    /\ call.op = "attach"
    /\ IF tcp[call.conn].mem = "freed"
       THEN Stray /\ UNCHANGED History
       ELSE /\ tcp' = [tcp EXCEPT ![call.conn].recv = TRUE]
            /\ sockets' = Enter(sockets, call.conn)
            /\ call' = Idle
            /\ UNCHANGED <<sock, binds, mode, History>>

\* socket_send: tcp_socket_send with PSH | ACK.
sys_sock_send(c) ==
    /\ Quiet
    /\ In(sockets, c)
    /\ sent[c] < MaxSend
    /\ IF tcp[c].mem = "freed"
       THEN Stray /\ UNCHANGED History
       ELSE /\ tcp' = [tcp EXCEPT ![c].sequence_number = @ + 1]
            /\ sent' = [sent EXCEPT ![c] = @ + 1]
            /\ UNCHANGED <<sock, binds, sockets, call, mode, remote, orderly, read, odd, got>>

\* socket_recv: the wait, and its end by NET_TIMEOUT.
sys_sock_recv(c) ==
    /\ Quiet
    /\ In(sockets, c)
    /\ call' = On("recv", c)
    /\ UNCHANGED <<tcp, sock, binds, sockets, mode, History>>

RecvTimeout ==
    /\ mode = "ok"
    /\ call.op = "recv"
    /\ sock[call.conn].num_bytes_received = 0
    /\ call' = Idle
    /\ UNCHANGED <<tcp, sock, binds, sockets, mode, History>>

\* socket_recv enters the memcpy to the program, with num_bytes_to_copy and the
\* address of the buffer.
RecvCopy(size) ==
    /\ mode = "ok"
    /\ call.op = "recv"
    /\ LET num == sock[call.conn].num_bytes_received
           n == IF num > size THEN size ELSE num
       IN  /\ n > 0
           /\ call' = [op |-> "copy", conn |-> call.conn, n |-> n]
    /\ UNCHANGED <<tcp, sock, binds, sockets, mode, History>>

\* The memcpy returns and what is left is computed.  The build (-O2) does
\* num_bytes_received -= n in a register, which the move then uses too.
RecvCopied ==
    /\ mode = "ok"
    /\ call.op = "copy"
    /\ LET c == call.conn
           s == sock[c]
       IN  /\ read' = [read EXCEPT ![c] = @ \o SubSeq(s.received_data, 1, call.n)]
           /\ call' = [op |-> "store", conn |-> c, n |-> call.n,
                       left |-> s.num_bytes_received - call.n]
    /\ UNCHANGED <<tcp, sock, binds, sockets, mode, remote, orderly, sent, odd, got>>

\* The register is stored: a segment since RecvCopied is no longer counted.
RecvStore ==
    /\ mode = "ok"
    /\ call.op = "store"
    /\ sock' = [sock EXCEPT ![call.conn].num_bytes_received = call.left]
    /\ call' = [call EXCEPT !.op = "move"]
    /\ UNCHANGED <<tcp, binds, sockets, mode, History>>

\* length units of data behind the first n; what lies behind its end is junk.
Moved(data, n, length) ==
    [i \in 1 .. length |-> IF n + i \in DOMAIN data THEN data[n + i] ELSE Padding]

\* The bytes left are moved to the front of received_data.
RecvMove ==
    /\ mode = "ok"
    /\ call.op = "move"
    /\ LET s == sock[call.conn]
       IN  sock' = [sock EXCEPT ![call.conn].received_data =
                        Moved(s.received_data, call.n, call.left)
                        \o SubSeq(s.received_data, call.left + 1, s.num_bytes_received)]
    /\ call' = Idle
    /\ UNCHANGED <<tcp, binds, sockets, mode, History>>

\* The program has read the whole answer.
Answered(c) == got[c] = MaxData + 1 /\ Len(read[c]) = MaxData

\* tcp_socket_disconnect: FIN | ACK is sent in state FIN_WAIT1.
sys_sock_disconnect(c) ==
    /\ Quiet
    /\ In(sockets, c)
    /\ orderly => Answered(c)
    /\ IF tcp[c].mem = "freed"
       THEN Stray /\ UNCHANGED History
       ELSE /\ tcp' = [tcp EXCEPT ![c].state = "FIN_WAIT1"]
            /\ call' = On("disconnect", c)
            /\ UNCHANGED <<sock, binds, sockets, mode, History>>

\* sequence_number++ after the FIN has been sent; then socket_disconnect
\* removes and frees the socket_t.
Disconnected ==
    /\ mode = "ok"
    /\ call.op = "disconnect"
    /\ LET c == call.conn
       IN  IF tcp[c].mem = "freed"
           THEN Stray
           ELSE /\ tcp' = [tcp EXCEPT ![c].sequence_number = @ + 1]
                /\ sockets' = Remove(sockets, c)
                /\ sock' = [sock EXCEPT ![c].mem = "freed"]
                /\ call' = Idle
                /\ UNCHANGED <<binds, mode>>
    /\ UNCHANGED History

\* exit_task: sys_connect_dealloc for every socket left, interrupts off.
ProgramExits ==
    LET left == {c \in Conn : In(sockets, c)}
    IN  /\ Quiet
        /\ ~orderly
        /\ left # {}
        /\ IF \E c \in left : tcp[c].mem = "freed"
           THEN Stray
           ELSE /\ tcp' = [c \in Conn |->
                              IF c \in left
                              THEN [tcp[c] EXCEPT !.state = "FIN_WAIT1",
                                                  !.sequence_number = @ + 1]
                              ELSE tcp[c]]
                /\ sockets' = [i \in DOMAIN sockets |-> None]
                /\ sock' = [c \in Conn |-> IF c \in left THEN [sock[c] EXCEPT !.mem = "freed"]
                                           ELSE sock[c]]
                /\ UNCHANGED <<binds, call, mode>>
        /\ UNCHANGED History

-----------------------------------------------------------------------------
(* tcp_ipv4_recv                                                             *)

\* A segment to connection c: its flags, its number and its data, if any.
Segment(c, flags, seq, data) ==
    [to |-> c, flags |-> flags, seq |-> seq % Word, data |-> data]

\* Everything a peer may have sent: segments may be lost, doubled and reordered,
\* so any of them may arrive at any time.  A unit may come pushed or not; the
\* peer may refuse, close, reset or begin again.
Segments(c) ==
    {Segment(c, {"SYN", "ACK"}, Isn, Padding), Segment(c, {"RST", "ACK"}, 0, Padding)}
    \cup (IF ~tcp[c].est THEN {} ELSE
            {Segment(c, {"ACK"}, Isn + 1, Padding),
             Segment(c, {"FIN", "ACK"}, Isn + 1, Padding),
             Segment(c, {"SYN"}, Isn, Padding)}
            \cup {Segment(c, f, Isn + k, <<c, k>>) :
                      f \in {{"ACK"}, {"ACK", "PSH"}}, k \in 1 .. MaxData}
            \cup {Segment(c, {"RST"}, Isn + 1 + k, Padding) : k \in 0 .. MaxData})

\* An orderly exchange: the peer accepts, sends its data in answer to a request,
\* acknowledges the program's FIN and closes.  got[c] counts its segments.
Turn(c) ==
    CASE got[c] = 0 -> Segment(c, {"SYN", "ACK"}, Isn, Padding)
      [] got[c] \in 1 .. MaxData -> Segment(c, {"ACK", "PSH"}, Isn + got[c], <<c, got[c]>>)
      [] got[c] = MaxData + 1 -> Segment(c, {"ACK"}, Isn + 1 + MaxData, Padding)
      [] OTHER -> Segment(c, {"FIN", "ACK"}, Isn + 1 + MaxData, Padding)

ItsTurn(c) ==
    \/ got[c] = 0
    \/ got[c] \in 1 .. MaxData /\ sent[c] > 0
    \/ got[c] \in {MaxData + 1, MaxData + 2} /\ sock[c].mem = "freed"

Arriving(c) ==
    {s \in IF orderly THEN {Turn(c)} ELSE Segments(c) :
        /\ tcp[c].mem # "none"
        /\ s.flags \in Flags
        /\ orderly => ItsTurn(c)}

\* The bind a segment is matched with: its remote end, not its local port.
Wrong_Matching(s) == {i \in DOMAIN binds : binds[i] # None}

Matching(s) == {i \in DOMAIN binds : binds[i] # None /\ remote[binds[i]] = remote[s.to]}

First(S) == CHOOSE i \in S : \A j \in S : i <= j

Keep == UNCHANGED <<sock, binds, odd, mode>>

\* The end of tcp_ipv4_recv for a socket in state CLOSED.
Wrong_Close(d) ==
    /\ tcp' = [tcp EXCEPT ![d].state = "CLOSED", ![d].mem = "freed"]
    /\ UNCHANGED <<sock, binds, odd, mode>>

Close(d) ==
    /\ tcp' = [tcp EXCEPT ![d].state = "CLOSED", ![d].mem = "freed"]
    /\ binds' = Remove(binds, d)
    /\ UNCHANGED <<sock, odd, mode>>

Kind(s) == s.flags \cap {"SYN", "ACK", "FIN"}

\* SYN, SYN | FIN, SYN | ACK after the first: reset.
RecvSyn(d, s) ==
    /\ "SYN" \in Kind(s)
    /\ Kind(s) # {"SYN", "ACK"} \/ tcp[d].state # "SYN_SENT"
    /\ Close(d)

RecvSynAck(d, s) ==
    /\ Kind(s) = {"SYN", "ACK"}
    /\ tcp[d].state = "SYN_SENT"
    /\ tcp' = [tcp EXCEPT ![d].state = "ESTABLISHED", ![d].est = TRUE,
                          ![d].ack_number = Next32(s.seq),
                          ![d].sequence_number = @ + 1]
    /\ Keep

Wrong_RecvFin(d, s) ==
    /\ Kind(s) \in {{"FIN"}, {"FIN", "ACK"}}
    /\ \/ /\ tcp[d].state = "ESTABLISHED"
          /\ tcp' = [tcp EXCEPT ![d].state = "CLOSE_WAIT", ![d].ack_number = Next32(@)]
          /\ Keep
       \/ tcp[d].state = "CLOSE_WAIT" /\ Close(d)
       \/ tcp[d].state \notin {"ESTABLISHED", "CLOSE_WAIT"} /\ UNCHANGED tcp /\ Keep

\* FIN: the number of the segment is not looked at.
RecvFin(d, s) ==
    /\ Kind(s) \in {{"FIN"}, {"FIN", "ACK"}}
    /\ \/ /\ tcp[d].state = "ESTABLISHED"
          /\ tcp' = [tcp EXCEPT ![d].state = "CLOSE_WAIT", ![d].ack_number = Next32(@)]
          /\ Keep
       \/ tcp[d].state # "ESTABLISHED" /\ Close(d)

Wrong_InOrder(d, s) == TRUE

InOrder(d, s) == s.seq = tcp[d].ack_number

Spoilt(d, s) ==
    (IF s.data = Padding THEN {"padding"} ELSE {})
    \cup (IF call.op = "store" /\ call.conn = d THEN {"uncounted"} ELSE {})

\* socket_recv is inside a memcpy on the buffer of d (one of no bytes touches
\* nothing).  The build may load the address for the second before it stores the
\* count.
Held(d) ==
    \/ call.op = "copy" /\ call.conn = d
    \/ call.op = "move" /\ call.conn = d /\ call.left > 0

MayBeHeld(d) == Held(d) \/ (call.op = "store" /\ call.conn = d /\ call.left > 0)

Wrong_Acknowledged(n) == n

Acknowledged(n) == Next32(n)

\* socket_tcp_recv, then the acknowledgement.  The old buffer is freed, and the
\* packet of the acknowledgement may be made in its page.
Deliver(d, s) ==
    /\ InOrder(d, s)
    /\ \/ /\ ~tcp[d].recv                                  \* a call of NULL
          /\ mode' = "crash"
          /\ UNCHANGED <<tcp, sock, binds, odd>>
       \/ /\ tcp[d].recv /\ (sock[d].mem = "freed" \/ MayBeHeld(d))
          /\ mode' = "stray"
          /\ UNCHANGED <<tcp, sock, binds, odd>>
       \/ /\ tcp[d].recv /\ sock[d].mem = "live" /\ ~Held(d)
          /\ sock' = [sock EXCEPT
                ![d].received_data =
                    Append(Moved(@, 0, sock[d].num_bytes_received), s.data),
                ![d].num_bytes_received = @ + 1]
          /\ tcp' = [tcp EXCEPT ![d].ack_number = Acknowledged(@)]
          /\ odd' = [odd EXCEPT ![d] = @ \cup Spoilt(d, s)]
          /\ UNCHANGED <<binds, mode>>

RecvData(d, s) == Deliver(d, s) \/ (~InOrder(d, s) /\ Close(d))

\* ACK, with whatever else but SYN and FIN.  Without PSH or RST the data of a
\* segment is ignored.
RecvAck(d, s) ==
    /\ Kind(s) = {"ACK"}
    /\ \/ /\ tcp[d].state = "FIN_WAIT1"
          /\ tcp' = [tcp EXCEPT ![d].state = "FIN_WAIT2"]
          /\ Keep
       \/ tcp[d].state = "CLOSE_WAIT" /\ Close(d)
       \/ /\ tcp[d].state \notin {"FIN_WAIT1", "CLOSE_WAIT"}
          /\ \/ s.flags = {"ACK"} /\ UNCHANGED tcp /\ Keep
             \/ s.flags # {"ACK"} /\ RecvData(d, s)

RecvOther(d, s) == Kind(s) = {} /\ RecvData(d, s)

tcp_ipv4_recv(s) ==
    /\ mode = "ok"
    /\ IF Matching(s) = {}
       THEN UNCHANGED <<tcp, sock, binds, odd, mode>>      \* cannot be routed
       ELSE LET d == binds[First(Matching(s))]
            IN  \/ RecvSyn(d, s)
                \/ RecvSynAck(d, s)
                \/ RecvFin(d, s)
                \/ RecvAck(d, s)
                \/ RecvOther(d, s)
    /\ got' = [got EXCEPT ![s.to] = IF orderly THEN @ + 1 ELSE @]
    /\ UNCHANGED <<sockets, call, remote, orderly, read, sent>>

-----------------------------------------------------------------------------
Init ==
    /\ orderly \in BOOLEAN
    /\ remote \in [Conn -> Server]
    /\ orderly \/ Wild = Conn \/ \A c \in Conn : remote[c] = CHOOSE s \in Server : TRUE
    /\ tcp = [c \in Conn |-> [mem |-> "none", state |-> "CLOSED", ack_number |-> 0,
                              sequence_number |-> 0, recv |-> FALSE, est |-> FALSE]]
    /\ sock = [c \in Conn |-> [mem |-> "none", received_data |-> <<>>,
                               num_bytes_received |-> 0]]
    /\ binds = <<>> /\ sockets = <<>>
    /\ call = Idle
    /\ mode = "ok"
    /\ read = [c \in Conn |-> <<>>]
    /\ sent = [c \in Conn |-> 0]
    /\ odd = [c \in Conn |-> {}]
    /\ got = [c \in Conn |-> 0]

\* The steps of a call once it has begun.
CallStep ==
    \/ tcp_wait_established
    \/ Attach
    \/ RecvTimeout
    \/ \E size \in 1 .. MaxRead : RecvCopy(size)
    \/ RecvCopied
    \/ RecvStore
    \/ RecvMove
    \/ Disconnected

Arrive == \E c \in Conn : \E s \in Arriving(c) : tcp_ipv4_recv(s)

Next ==
    \/ \E c \in Conn : sys_sock_connect(c)
    \/ \E c \in Conn : sys_sock_send(c)
    \/ \E c \in Conn : sys_sock_recv(c)
    \/ \E c \in Conn : sys_sock_disconnect(c)
    \/ ProgramExits
    \/ CallStep
    \/ Arrive

Spec == Init /\ [][Next]_vars

\* A call goes on; what the network has for the kernel arrives (on an orderly one
\* that is the next segment of an exchange, on another anything).
FairSpec == Spec /\ WF_vars(CallStep) /\ WF_vars(Arrive)

-----------------------------------------------------------------------------
\* No other connection has been made to the same remote end.
Exclusive(c) == \A d \in Conn \ {c} : tcp[d].mem = "none" \/ remote[d] # remote[c]

Distinct == \A c, d \in Conn : remote[c] = remote[d] => c = d

\* socket_recv has handed out units of c that are still in the buffer, and still
\* counted.
Handed(c) ==
    IF call.op \in {"store", "move"} /\ call.conn = c /\ (call.op = "move" => call.left > 0)
    THEN call.n ELSE 0
Counted(c) == IF call.op = "store" /\ call.conn = c THEN call.n ELSE 0

\* What a program has not read yet.
Waiting(c) ==
    Moved(sock[c].received_data, Handed(c), sock[c].num_bytes_received - Counted(c))

\* However segments are lost, doubled, reordered and split over reads, what a
\* program reads and what waits for it is the beginning of what its peer sent until
\* it disconnects - unless another connection has the same remote end, a RST was
\* taken for data, or a segment came between the memcpys of socket_recv.  (One
\* inside a memcpy ends the model, see FaultsAreConfined.)
DeliveredIsPrefix ==
    \A c \in Conn :
        /\ Exclusive(c)
        /\ odd[c] = {}
        /\ sock[c].mem = "live" /\ call # On("disconnect", c)
        =>
            LET all == read[c] \o Waiting(c)
            IN  \A k \in DOMAIN all : all[k] = <<c, k>>

\* The number acknowledged to the peer of an open connection counts what was put
\* into the buffer, and its SYN and FIN, through wrap-around: nothing is
\* acknowledged that the program will not read, nothing is asked for twice -
\* unless another connection has the same remote end, a RST was taken for data,
\* or a segment came before socket_recv stored its count.
AckedIsDelivered ==
    \A c \in Conn :
        /\ Exclusive(c)
        /\ odd[c] = {}
        /\ tcp[c].state \in {"ESTABLISHED", "CLOSE_WAIT"}
        =>
            tcp[c].ack_number =
                (Isn + 1 + Len(read[c]) + sock[c].num_bytes_received - Counted(c)
                   + (IF tcp[c].state = "CLOSE_WAIT" THEN 1 ELSE 0)) % Word

\* The tables hold exactly the live objects, each once: tcp_ipv4_recv never
\* finds a freed or closed socket, and none that is open is lost.
TablesAreLive ==
    /\ \A c \in Conn : In(binds, c) <=> tcp[c].mem = "bound"
    /\ \A c \in Conn : tcp[c].mem = "bound" => tcp[c].state # "CLOSED"
    /\ \A c \in Conn : In(sockets, c) => sock[c].mem = "live"
    /\ \A c \in Conn : sock[c].mem = "live" /\ call = Idle => In(sockets, c)
    /\ \A i, j \in DOMAIN binds : binds[i] = binds[j] => i = j \/ binds[i] = None
    /\ \A i, j \in DOMAIN sockets : sockets[i] = sockets[j] => i = j \/ sockets[i] = None

\* What spoils a connection stays where it can be: the handler finds no callback
\* only while socket_connect has not come to set it, and a program that sends a
\* request, reads the whole answer and disconnects, on a network that loses nothing,
\* with a server of its own that closes last, never meets a missing callback, and
\* the kernel uses freed memory at one place only: a segment after the first of the
\* answer comes while socket_recv copies from the buffer that it frees.  (An answer
\* of one segment is safe.)
FaultsAreConfined ==
    /\ mode = "crash" => call.op \in {"connect", "attach"}
    /\ orderly /\ Distinct =>
          \/ mode = "ok"
          \/ /\ mode = "stray"
             /\ call.op \in {"copy", "store", "move"}
             /\ got[call.conn] > 2

\* In such exchanges connect establishes, and the tcp_socket_t that a program has
\* left behind is released, unless freed memory was used.
ExchangeCompletes ==
    orderly /\ Distinct =>
        \A c \in Conn :
            /\ call = On("connect", c) ~> In(sockets, c) /\ tcp[c].state = "ESTABLISHED"
            /\ sock[c].mem = "freed" ~> tcp[c].mem = "freed" \/ mode = "stray"
=============================================================================
