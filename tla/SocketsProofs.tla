---------------------------- MODULE SocketsProofs ----------------------------
(***************************************************************************)
(* Proofs about TCP sockets, for any number of connections and servers,    *)
(* any amount of data, and every initial and greatest sequence number.     *)
(***************************************************************************)
EXTENDS Sockets, SequenceTheorems, WellFoundedInduction, TLAPS

Unit == (Conn \cup {None}) \X Nat

Opening == {"connect", "attach"}
Reading == {"store", "move"}

TcpState == {"CLOSED", "SYN_SENT", "ESTABLISHED", "CLOSE_WAIT", "FIN_WAIT1", "FIN_WAIT2"}

Tcps ==
    [mem : {"none", "bound", "freed"},
     state : TcpState,
     ack_number : Nat, sequence_number : Nat, recv : BOOLEAN, est : BOOLEAN]

Socks == [mem : {"none", "live", "freed"}, received_data : Seq(Unit), num_bytes_received : Nat]

Calls ==
    {Idle} \cup [op : Opening \cup {"recv", "disconnect"}, conn : Conn]
      \cup [op : {"copy"}, conn : Conn, n : Nat \ {0}]
      \cup [op : Reading, conn : Conn, n : Nat \ {0}, left : Nat]

TypeOK ==
    /\ remote \in [Conn -> Server] /\ orderly \in BOOLEAN
    /\ tcp \in [Conn -> Tcps] /\ sock \in [Conn -> Socks]
    /\ binds \in Seq(Conn \cup {None}) /\ sockets \in Seq(Conn \cup {None})
    /\ call \in Calls
    /\ mode \in {"ok", "crash", "stray"}
    /\ read \in [Conn -> Seq(Unit)] /\ sent \in [Conn -> Nat] /\ got \in [Conn -> Nat]
    /\ odd \in [Conn -> SUBSET {"padding", "uncounted"}]

\* What is counted is in the buffer, and a read leaves part of it.
BufferOK ==
    /\ \A c \in Conn : sock[c].num_bytes_received <= Len(sock[c].received_data)
    /\ call.op = "copy" => call.n <= sock[call.conn].num_bytes_received
    /\ call.op = "store" => call.left + call.n <= sock[call.conn].num_bytes_received
    /\ call.op = "move" => call.left <= sock[call.conn].num_bytes_received

\* An array of pointers names nothing twice.
Single(array) == \A i, j \in DOMAIN array : array[i] = array[j] => i = j \/ array[i] = None

\* The call that is making connection c.
Making(c) == call.op \in Opening /\ call.conn = c

\* Which of its objects a connection has, and where they are entered.
ConnOK(c) ==
    /\ In(binds, c) <=> tcp[c].mem = "bound"
    /\ tcp[c].mem = "bound" => tcp[c].state # "CLOSED"
    /\ tcp[c].mem = "none" <=> sock[c].mem = "none"
    /\ In(sockets, c) => sock[c].mem = "live" /\ tcp[c].recv
    /\ sock[c].mem = "live" => In(sockets, c) \/ Making(c)
    /\ Making(c) => sock[c].mem = "live" /\ ~In(sockets, c)
    /\ call # Idle /\ call.conn = c /\ ~Making(c) => In(sockets, c)
    /\ tcp[c].mem = "bound" /\ ~tcp[c].recv => Making(c)

TableInv ==
    /\ TypeOK
    /\ BufferOK
    /\ Single(binds) /\ Single(sockets)
    /\ \A c \in Conn : ConnOK(c)
    /\ mode = "crash" => call.op \in Opening

----------------------------------------------------------------------------
(* Arrays of pointers *)

\* A set of numbers has a least one.
LEMMA LeastNumber ==
    ASSUME NEW T, T \subseteq Nat, T # {}
    PROVE  \E i \in T : \A j \in T : i <= j
  <1>1. PICK i \in T : \A j \in T : ~ (<<j, i>> \in OpToRel(<, Nat))
    BY WFMin, NatLessThanWellFounded
  <1>2. ASSUME NEW j \in T
        PROVE  i <= j
    <2>1. i \in Nat /\ j \in Nat
      OBVIOUS
    <2>2. ~ (<<j, i>> \in OpToRel(<, Nat))
      BY <1>1
    <2>. QED
      BY <2>1, <2>2 DEF OpToRel
  <1>. QED
    BY <1>2

Pointers == Seq(Conn \cup {None})

\* An entry takes the first empty place or a new one.
LEMMA EnterPlace ==
    ASSUME NEW array \in Pointers, NEW c \in Conn
    PROVE  \E i \in 1 .. Len(array) + 1 :
              /\ i \in DOMAIN array => array[i] = None
              /\ Enter(array, c) \in Pointers
              /\ Enter(array, c)[i] = c
              /\ i \in DOMAIN Enter(array, c)
              /\ DOMAIN array \subseteq DOMAIN Enter(array, c)
              /\ \A j \in DOMAIN Enter(array, c) \ {i} : j \in DOMAIN array /\ Enter(array, c)[j] = array[j]
  <1>. DEFINE empty == {i \in DOMAIN array : array[i] = None}
  <1>1. CASE empty = {}
    <2>1. Enter(array, c) = Append(array, c)
      BY <1>1 DEF Enter
    <2>2. Append(array, c) \in Pointers /\ Len(Append(array, c)) = Len(array) + 1
      BY DEF Pointers
    <2>3. \A j \in 1 .. Len(array) : Append(array, c)[j] = array[j]
      BY DEF Pointers
    <2>4. Append(array, c)[Len(array) + 1] = c
      BY DEF Pointers
    <2>5. DOMAIN array = 1 .. Len(array) /\ DOMAIN Append(array, c) = 1 .. Len(array) + 1 /\ Len(array) \in Nat
      BY <2>2 DEF Pointers
    <2>. QED
      BY <2>1, <2>2, <2>3, <2>4, <2>5
  <1>2. CASE empty # {}
    <2>. DEFINE p == CHOOSE i \in empty : \A j \in empty : i <= j
    <2>1. empty \subseteq Nat
      BY DEF Pointers
    <2>2. \E i \in empty : \A j \in empty : i <= j
      BY <1>2, <2>1, LeastNumber
    <2>3. p \in empty
      BY <2>2
    <2>4. Enter(array, c) = [array EXCEPT ![p] = c]
      BY <1>2 DEF Enter
    <2>. HIDE DEF p
    <2>5. p \in 1 .. Len(array) /\ array[p] = None /\ DOMAIN array = 1 .. Len(array) /\ Len(array) \in Nat
      BY <2>3 DEF Pointers
    <2>6. [array EXCEPT ![p] = c] \in Pointers
      BY <2>5 DEF Pointers
    <2>7. DOMAIN [array EXCEPT ![p] = c] = DOMAIN array
      OBVIOUS
    <2>. QED
      BY <2>4, <2>5, <2>6, <2>7
  <1>. QED
    BY <1>1, <1>2

LEMMA EnterDoes ==
    ASSUME NEW array \in Pointers, NEW c \in Conn
    PROVE  /\ Enter(array, c) \in Pointers
           /\ \A d \in Conn : In(Enter(array, c), d) <=> In(array, d) \/ d = c
           /\ Single(array) /\ ~In(array, c) => Single(Enter(array, c))
  <1>. DEFINE new == Enter(array, c)
  <1>1. PICK i \in 1 .. Len(array) + 1 :
            /\ i \in DOMAIN array => array[i] = None
            /\ new \in Pointers
            /\ new[i] = c
            /\ i \in DOMAIN new
            /\ DOMAIN array \subseteq DOMAIN new
            /\ \A j \in DOMAIN new \ {i} : j \in DOMAIN array /\ new[j] = array[j]
    BY EnterPlace
  <1>. HIDE DEF new
  <1>2. ASSUME NEW d \in Conn
        PROVE  In(new, d) <=> In(array, d) \/ d = c
    <2>1. d # None
      BY SocketsAssumption
    <2>. QED
      BY <1>1, <2>1 DEF In
  <1>3. Single(array) /\ ~In(array, c) => Single(new)
    BY <1>1 DEF Single, In
  <1>. QED
    BY <1>1, <1>2, <1>3 DEF new

LEMMA RemoveDoes ==
    ASSUME NEW array \in Pointers, NEW c \in Conn
    PROVE  /\ Remove(array, c) \in Pointers
           /\ \A d \in Conn : In(Remove(array, c), d) <=> In(array, d) /\ d # c
           /\ Single(array) => Single(Remove(array, c))
  <1>. DEFINE new == Remove(array, c)
  <1>1. /\ DOMAIN array = 1 .. Len(array) /\ Len(array) \in Nat
        /\ \A i \in DOMAIN array : array[i] \in Conn \cup {None}
    BY DEF Pointers
  <1>2. /\ DOMAIN new = DOMAIN array
        /\ \A i \in DOMAIN array : new[i] = IF array[i] = c THEN None ELSE array[i]
    BY DEF Remove
  <1>3. new \in [1 .. Len(array) -> Conn \cup {None}]
    BY <1>1 DEF Remove
  <1>4. new \in Pointers
    BY <1>1, <1>3 DEF Pointers
  <1>. HIDE DEF new
  <1>5. ASSUME NEW d \in Conn
        PROVE  In(new, d) <=> In(array, d) /\ d # c
    <2>1. d # None
      BY SocketsAssumption
    <2>. QED
      BY <1>2, <2>1 DEF In
  <1>6. Single(array) => Single(new)
    BY <1>2 DEF Single
  <1>. QED
    BY <1>4, <1>5, <1>6 DEF new

\* The segment's bind: one that is entered, with the same remote end.
LEMMA MatchedBind ==
    ASSUME TypeOK, NEW s, Matching(s) # {}
    PROVE  LET d == binds[First(Matching(s))]
           IN  d \in Conn /\ In(binds, d) /\ remote[d] = remote[s.to]
  <1>1. Matching(s) \subseteq Nat
    BY DEF Matching, TypeOK
  <1>2. \E i \in Matching(s) : \A j \in Matching(s) : i <= j
    BY <1>1, LeastNumber
  <1>3. First(Matching(s)) \in Matching(s)
    BY <1>2 DEF First
  <1>. DEFINE i == First(Matching(s))
  <1>4. i \in DOMAIN binds /\ binds[i] # None /\ remote[binds[i]] = remote[s.to]
    BY <1>3 DEF Matching
  <1>. HIDE DEF i
  <1>5. binds[i] \in Conn
    BY <1>4 DEF TypeOK
  <1>. QED
    BY <1>4, <1>5 DEF In, i

----------------------------------------------------------------------------
(* Types *)

\* The fields of a tcp_socket_t keep their types.
LEMMA TcpFields ==
    ASSUME NEW f \in [Conn -> Tcps], NEW c \in Conn
    PROVE  /\ \A m \in {"none", "bound", "freed"}, x \in TcpState :
                 [f EXCEPT ![c].mem = m, ![c].state = x] \in [Conn -> Tcps]
           /\ \A m \in {"none", "bound", "freed"}, x \in TcpState :
                 [f EXCEPT ![c].state = x, ![c].mem = m] \in [Conn -> Tcps]
           /\ \A x \in TcpState : [f EXCEPT ![c].state = x] \in [Conn -> Tcps]
           /\ \A x \in TcpState, n \in Nat :
                 [f EXCEPT ![c].state = x, ![c].ack_number = n] \in [Conn -> Tcps]
           /\ \A n \in Nat : [f EXCEPT ![c].ack_number = n] \in [Conn -> Tcps]
           /\ \A n \in Nat : [f EXCEPT ![c].sequence_number = n] \in [Conn -> Tcps]
           /\ \A x \in TcpState, m, n \in Nat :
                 [f EXCEPT ![c].state = x, ![c].est = TRUE, ![c].ack_number = m,
                           ![c].sequence_number = n] \in [Conn -> Tcps]
           /\ [f EXCEPT ![c].recv = TRUE] \in [Conn -> Tcps]
  <1>1. ASSUME NEW m \in {"none", "bound", "freed"}, NEW x \in TcpState
        PROVE  [f EXCEPT ![c].mem = m, ![c].state = x] \in [Conn -> Tcps]
    BY Zenon DEF Tcps
  <1>2. ASSUME NEW m \in {"none", "bound", "freed"}, NEW x \in TcpState
        PROVE  [f EXCEPT ![c].state = x, ![c].mem = m] \in [Conn -> Tcps]
    BY Zenon DEF Tcps
  <1>3. ASSUME NEW x \in TcpState PROVE [f EXCEPT ![c].state = x] \in [Conn -> Tcps]
    BY Zenon DEF Tcps
  <1>4. ASSUME NEW n \in Nat PROVE [f EXCEPT ![c].ack_number = n] \in [Conn -> Tcps]
    BY Zenon DEF Tcps
  <1>5. ASSUME NEW n \in Nat PROVE [f EXCEPT ![c].sequence_number = n] \in [Conn -> Tcps]
    BY Zenon DEF Tcps
  <1>6. ASSUME NEW x \in TcpState, NEW n \in Nat
        PROVE  [f EXCEPT ![c].state = x, ![c].ack_number = n] \in [Conn -> Tcps]
    BY Zenon DEF Tcps
  <1>7. ASSUME NEW x \in TcpState, NEW m \in Nat, NEW n \in Nat
        PROVE  [f EXCEPT ![c].state = x, ![c].est = TRUE, ![c].ack_number = m,
                         ![c].sequence_number = n] \in [Conn -> Tcps]
    BY ZenonT(60) DEF Tcps
  <1>8. [f EXCEPT ![c].recv = TRUE] \in [Conn -> Tcps]
    BY Zenon DEF Tcps
  <1>. QED
    BY <1>1, <1>2, <1>3, <1>4, <1>5, <1>6, <1>7, <1>8

----------------------------------------------------------------------------
(* The tables *)

LEMMA CallIs ==
    ASSUME TypeOK
    PROVE  /\ call # Idle => call.conn \in Conn /\ call.op # "none"
           /\ call = Idle => call.op = "none"
           /\ call.op = "none" => call = Idle
           /\ call.op \in Opening \cup {"recv", "disconnect"} => call = On(call.op, call.conn)
           /\ call.op \in Reading => /\ call \in [op : Reading, conn : Conn, n : Nat \ {0}, left : Nat]
                                     /\ call.n \in Nat \ {0} /\ call.left \in Nat
           /\ call.op = "copy" => call.n \in Nat \ {0}
           /\ call.op \in {"none", "recv", "disconnect", "copy"} \cup Opening \cup Reading
  BY DEF TypeOK, Calls, Idle, On, Opening, Reading

LEMMA TableConnect ==
    ASSUME TableInv, NEW c \in Conn, sys_sock_connect(c)
    PROVE  TableInv'
  <1>1. TypeOK /\ binds \in Pointers /\ call = Idle /\ mode = "ok" /\ tcp[c].mem = "none"
    BY DEF TableInv, TypeOK, Pointers, sys_sock_connect, Quiet
  <1>2. ConnOK(c) /\ ~In(binds, c) /\ ~In(sockets, c) /\ sock[c].mem = "none"
    BY <1>1 DEF TableInv, ConnOK
  <1>3. /\ binds' \in Pointers /\ Single(binds')
        /\ \A d \in Conn : In(binds', d) <=> In(binds, d) \/ d = c
    BY <1>1, <1>2, EnterDoes DEF TableInv, sys_sock_connect
  <1>4. call' = On("connect", c) /\ call'.op = "connect" /\ call'.conn = c /\ call' # Idle
    BY DEF sys_sock_connect, On, Idle
  <1>5. TypeOK'
    <2>0. tcp' \in [Conn -> Tcps]
      BY <1>1, TcpFields DEF TypeOK, sys_sock_connect, TcpState
    <2>1. sock' \in [Conn -> Socks]
      BY <1>1 DEF TypeOK, sys_sock_connect, Socks
    <2>2. call' \in Calls
      BY <1>4 DEF Calls, On, Opening
    <2>. QED
      BY <1>1, <1>3, <2>0, <2>1, <2>2 DEF TypeOK, sys_sock_connect, Pointers, History
  <1>6. BufferOK'
    BY <1>1, <1>4 DEF TableInv, TypeOK, BufferOK, sys_sock_connect, Socks
  <1>7. ASSUME NEW d \in Conn
        PROVE  ConnOK(d)'
    <2>1. CASE d = c
      BY <1>1, <1>2, <1>3, <1>4, <2>1 DEF ConnOK, Making, sys_sock_connect, TypeOK, Tcps, Socks, Opening
    <2>2. CASE d # c
      <3>1. tcp'[d] = tcp[d] /\ sock'[d] = sock[d] /\ sockets' = sockets
        BY <1>1, <2>2 DEF sys_sock_connect, TypeOK
      <3>2. ConnOK(d) /\ ~Making(d)
        BY <1>1, CallIs DEF TableInv, Making, Opening
      <3>. QED
        BY <1>1, <1>3, <1>4, <2>2, <3>1, <3>2 DEF ConnOK, Making
    <2>. QED
      BY <2>1, <2>2
  <1>8. sockets' = sockets /\ mode' = mode
    BY DEF sys_sock_connect
  <1>. QED
    BY <1>1, <1>3, <1>5, <1>6, <1>7, <1>8 DEF TableInv

\* Nothing but the mode of the model changes.
LEMMA TableStray ==
    ASSUME TableInv, Stray, UNCHANGED History
    PROVE  TableInv'
  BY DEF TableInv, Stray, History, TypeOK, BufferOK, ConnOK, Making

\* Steps that move the call of a connection on.
LEMMA TableCallMoves ==
    ASSUME TableInv, UNCHANGED <<tcp, sock, binds, sockets, mode, remote, orderly, sent, odd, got>>,
           call' \in Calls, read' \in [Conn -> Seq(Unit)], mode = "ok",
           \/ call' = Idle
           \/ In(sockets, call'.conn) /\ call'.op \notin Opening
           \/ call.op \in Opening /\ call'.op \in Opening /\ call'.conn = call.conn,
           call'.op = "copy" => call'.n <= sock[call'.conn].num_bytes_received,
           call'.op = "store" => call'.left + call'.n <= sock[call'.conn].num_bytes_received,
           call'.op = "move" => call'.left <= sock[call'.conn].num_bytes_received,
           call.op \in Opening => call'.op \in Opening
    PROVE  TableInv'
  <1>1. TypeOK' /\ BufferOK' /\ Single(binds') /\ Single(sockets') /\ mode' = "ok"
    BY DEF TableInv, TypeOK, BufferOK
  <1>2. ASSUME NEW d \in Conn
        PROVE  ConnOK(d)'
    <2>1. ConnOK(d)
      BY DEF TableInv
    <2>2. tcp' = tcp /\ sock' = sock /\ binds' = binds /\ sockets' = sockets
      OBVIOUS
    <2>3. call # Idle => call.conn \in Conn
      BY CallIs DEF TableInv
    <2>4. Making(d) <=> Making(d)'
      BY <2>3, CallIs DEF Making, TableInv, Opening, Idle
    <2>. QED
      BY <2>1, <2>2, <2>4 DEF ConnOK, Making
  <1>. QED
    BY <1>1, <1>2 DEF TableInv

LEMMA TableAttach ==
    ASSUME TableInv, Attach
    PROVE  TableInv'
  <1>. DEFINE c == call.conn
  <1>1. TypeOK /\ sockets \in Pointers /\ call.op = "attach" /\ mode = "ok"
    BY DEF TableInv, TypeOK, Pointers, Attach
  <1>2. c \in Conn
    BY <1>1, CallIs DEF Idle
  <1>. HIDE DEF c
  <1>3. CASE tcp[c].mem = "freed"
    BY <1>3, TableStray DEF Attach, c
  <1>4. CASE tcp[c].mem # "freed"
    <2>1. /\ tcp' = [tcp EXCEPT ![c].recv = TRUE]
          /\ sockets' = Enter(sockets, c)
          /\ call' = Idle
          /\ UNCHANGED <<sock, binds, mode, History>>
      BY <1>4 DEF Attach, c
    <2>2. ConnOK(c) /\ Making(c) /\ ~In(sockets, c)
      BY <1>1, <1>2 DEF TableInv, ConnOK, Making, c, Opening
    <2>3. /\ sockets' \in Pointers /\ Single(sockets')
          /\ \A d \in Conn : In(sockets', d) <=> In(sockets, d) \/ d = c
      BY <1>1, <1>2, <2>1, <2>2, EnterDoes DEF TableInv
    <2>4. tcp' \in [Conn -> Tcps]
      BY <1>1, <1>2, <2>1, TcpFields DEF TypeOK
    <2>5. TypeOK'
      BY <1>1, <2>1, <2>3, <2>4 DEF TypeOK, Pointers, History, Calls
    <2>6. BufferOK'
      BY <2>1 DEF TableInv, BufferOK, Idle
    <2>7. ASSUME NEW d \in Conn
          PROVE  ConnOK(d)'
      <3>1. ConnOK(d)
        BY DEF TableInv
      <3>2. call'.op = "none" /\ call' = Idle
        BY <2>1 DEF Idle
      <3>3. CASE d = c
        <4>1. tcp'[c].recv = TRUE /\ tcp'[c].mem = tcp[c].mem /\ tcp'[c].state = tcp[c].state
          BY <1>1, <1>2, <2>1 DEF TypeOK, Tcps
        <4>. QED
          BY <2>1, <2>2, <2>3, <3>2, <3>3, <4>1 DEF ConnOK, Making, Opening
      <3>4. CASE d # c
        <4>1. tcp'[d] = tcp[d]
          BY <1>1, <2>1, <3>4 DEF TypeOK
        <4>2. ~Making(d)
          BY <3>4 DEF Making, c
        <4>. QED
          BY <2>1, <2>3, <3>1, <3>2, <3>4, <4>1, <4>2 DEF ConnOK, Making, Opening
      <3>. QED
        BY <3>3, <3>4
    <2>. QED
      BY <1>1, <2>1, <2>3, <2>5, <2>6, <2>7 DEF TableInv
  <1>. QED
    BY <1>3, <1>4

\* Steps that change numbers and states, and no object's life.
LEMMA TableTcpChanges ==
    ASSUME TableInv, NEW c \in Conn, UNCHANGED <<sock, binds, sockets, mode, remote, orderly, read, odd>>,
           mode = "ok", call' \in Calls, sent' \in [Conn -> Nat], got' \in [Conn -> Nat],
           tcp' \in [Conn -> Tcps], \A d \in Conn \ {c} : tcp'[d] = tcp[d],
           tcp'[c].mem = tcp[c].mem, tcp'[c].recv = tcp[c].recv, tcp'[c].state # "CLOSED",
           call' = call \/ (call = Idle /\ call' = On("disconnect", c) /\ In(sockets, c))
    PROVE  TableInv'
  <1>1. TypeOK'
    BY DEF TableInv, TypeOK
  <1>2. BufferOK'
    BY DEF TableInv, BufferOK, On
  <1>3. ASSUME NEW d \in Conn
        PROVE  ConnOK(d)'
    <2>1. ConnOK(d)
      BY DEF TableInv
    <2>2. tcp'[d].mem = tcp[d].mem /\ tcp'[d].recv = tcp[d].recv
      OBVIOUS
    <2>3. tcp'[d].state # "CLOSED" \/ tcp'[d].state = tcp[d].state
      OBVIOUS
    <2>4. Making(d) <=> Making(d)'
      BY DEF Making, On, Idle, Opening
    <2>5. call' # Idle /\ call'.conn = d /\ call # call' => In(sockets, d)
      BY DEF On
    <2>. QED
      BY <2>1, <2>2, <2>3, <2>4, <2>5 DEF ConnOK
  <1>. QED
    BY <1>1, <1>2, <1>3 DEF TableInv

\* A buffer changes.
LEMMA TableSockChanges ==
    ASSUME TableInv, NEW c \in Conn, UNCHANGED <<binds, sockets, mode, remote, orderly, read, sent>>,
           mode = "ok", got' \in [Conn -> Nat],
           odd' \in [Conn -> SUBSET {"padding", "uncounted"}],
           sock' \in [Conn -> Socks], \A d \in Conn \ {c} : sock'[d] = sock[d],
           sock'[c].mem = sock[c].mem,
           sock'[c].num_bytes_received <= Len(sock'[c].received_data),
           tcp' \in [Conn -> Tcps],
           \A d \in Conn : /\ tcp'[d].mem = tcp[d].mem /\ tcp'[d].recv = tcp[d].recv
                           /\ tcp'[d].state = tcp[d].state,
           call' \in Calls,
           \/ call' = call /\ sock'[c].num_bytes_received >= sock[c].num_bytes_received
           \/ /\ call.conn = c /\ call.op \in Reading
              /\ call' = Idle \/ call' = [call EXCEPT !.op = "move"]
              /\ call.left <= sock'[c].num_bytes_received
    PROVE  TableInv'
  <1>. USE CallIs DEF Opening, Reading
  <1>1. TypeOK' /\ TypeOK
    BY DEF TableInv, TypeOK
  <1>2. call' = Idle => call'.op = "none"
    BY DEF Idle
  <1>3. ASSUME call' # call, call' # Idle
        PROVE  /\ call'.op = "move" /\ call'.conn = c /\ call'.left = call.left
               /\ call.op \in Reading /\ call.conn = c /\ call # Idle
    BY <1>1, <1>3 DEF Idle
  <1>4. BufferOK'
    <2>1. \A d \in Conn : sock'[d].num_bytes_received <= Len(sock'[d].received_data)
      BY DEF TableInv, BufferOK
    <2>2. \A d \in Conn : sock[d].num_bytes_received \in Nat /\ sock'[d].num_bytes_received \in Nat
      BY <1>1 DEF TypeOK, Socks
    <2>3. CASE call' = call
      <3>1. CASE call.op \in {"store", "move"}
        <4>1. call.conn \in Conn /\ call.left \in Nat /\ call.n \in Nat
          BY <1>1, <3>1 DEF Idle
        <4>. QED
          BY <2>1, <2>2, <2>3, <3>1, <4>1 DEF TableInv, BufferOK
      <3>2. CASE call.op = "copy"
        <4>1. call.conn \in Conn /\ call.n \in Nat
          BY <1>1, <3>2 DEF Idle
        <4>. QED
          <5>1. /\ call'.op = "copy" /\ call'.conn = call.conn /\ call'.n = call.n
                /\ call.n <= sock[call.conn].num_bytes_received
                /\ sock'[call.conn].num_bytes_received >= sock[call.conn].num_bytes_received
            BY <2>2, <2>3, <3>2, <4>1 DEF TableInv, BufferOK
          <5>. QED
            BY <2>1, <2>2, <4>1, <5>1 DEF BufferOK
      <3>3. CASE call.op \notin {"copy", "store", "move"}
        BY <2>1, <2>3, <3>3 DEF BufferOK
      <3>. QED
        BY <3>1, <3>2, <3>3
    <2>4. CASE call' # call
      BY <1>2, <1>3, <2>1, <2>4 DEF BufferOK
    <2>. QED
      BY <2>3, <2>4
  <1>5. ASSUME NEW d \in Conn
        PROVE  ConnOK(d)'
    <2>1. ConnOK(d)
      BY DEF TableInv
    <2>2. tcp'[d].mem = tcp[d].mem /\ tcp'[d].recv = tcp[d].recv /\ tcp'[d].state = tcp[d].state
      OBVIOUS
    <2>3. sock'[d].mem = sock[d].mem
      OBVIOUS
    <2>4. Making(d) <=> Making(d)'
      BY <1>1, <1>2, <1>3 DEF Making
    <2>5. call' # Idle => call # Idle /\ call'.conn = call.conn
      BY <1>3
    <2>. QED
      BY <2>1, <2>2, <2>3, <2>4, <2>5 DEF ConnOK
  <1>. QED
    BY <1>1, <1>4, <1>5 DEF TableInv

LEMMA TableSend ==
    ASSUME TableInv, NEW c \in Conn, sys_sock_send(c)
    PROVE  TableInv'
  <1>1. TypeOK /\ mode = "ok" /\ call = Idle /\ In(sockets, c) /\ ConnOK(c)
    BY DEF TableInv, sys_sock_send, Quiet
  <1>2. CASE tcp[c].mem = "freed"
    BY <1>2, TableStray DEF sys_sock_send
  <1>3. CASE tcp[c].mem # "freed"
    <2>1. /\ tcp' = [tcp EXCEPT ![c].sequence_number = @ + 1]
          /\ sent' = [sent EXCEPT ![c] = @ + 1]
          /\ UNCHANGED <<sock, binds, sockets, call, mode, remote, orderly, read, odd, got>>
      BY <1>3 DEF sys_sock_send
    <2>2. tcp[c].sequence_number + 1 \in Nat /\ sent' \in [Conn -> Nat]
      BY <1>1, <2>1 DEF TypeOK, Tcps
    <2>3. tcp' \in [Conn -> Tcps]
      BY <1>1, <2>1, <2>2, TcpFields DEF TypeOK
    <2>4. tcp[c].mem = "bound" /\ tcp[c].state # "CLOSED"
      BY <1>1, <1>3 DEF ConnOK, TypeOK, Tcps, Socks
    <2>5. /\ \A d \in Conn \ {c} : tcp'[d] = tcp[d]
          /\ tcp'[c].mem = tcp[c].mem /\ tcp'[c].recv = tcp[c].recv /\ tcp'[c].state = tcp[c].state
      BY <1>1, <2>1 DEF TypeOK, Tcps
    <2>6. call' \in Calls /\ got' \in [Conn -> Nat] /\ call' = call
      BY <1>1, <2>1 DEF TypeOK
    <2>7. UNCHANGED <<sock, binds, sockets, mode, remote, orderly, read, odd>>
      BY <2>1
    <2>. QED
      <3>1. tcp'[c].state # "CLOSED"
        BY <2>4, <2>5
      <3>. QED
        BY <1>1, <2>2, <2>3, <2>5, <2>6, <2>7, <3>1, TableTcpChanges
  <1>. QED
    BY <1>2, <1>3

LEMMA TableDisconnect ==
    ASSUME TableInv, NEW c \in Conn, sys_sock_disconnect(c)
    PROVE  TableInv'
  <1>1. TypeOK /\ mode = "ok" /\ call = Idle /\ In(sockets, c)
    BY DEF TableInv, sys_sock_disconnect, Quiet
  <1>2. CASE tcp[c].mem = "freed"
    BY <1>2, TableStray DEF sys_sock_disconnect
  <1>3. CASE tcp[c].mem # "freed"
    <2>1. /\ tcp' = [tcp EXCEPT ![c].state = "FIN_WAIT1"]
          /\ call' = On("disconnect", c)
          /\ UNCHANGED <<sock, binds, sockets, mode, History>>
      BY <1>3 DEF sys_sock_disconnect
    <2>2. tcp' \in [Conn -> Tcps]
      BY <1>1, <2>1, TcpFields DEF TypeOK, TcpState
    <2>3. call' \in Calls
      BY <2>1 DEF Calls, On
    <2>4. /\ \A d \in Conn \ {c} : tcp'[d] = tcp[d]
          /\ tcp'[c].mem = tcp[c].mem /\ tcp'[c].recv = tcp[c].recv /\ tcp'[c].state = "FIN_WAIT1"
      BY <1>1, <2>1 DEF TypeOK, Tcps
    <2>. QED
      BY <1>1, <2>1, <2>2, <2>3, <2>4, TableTcpChanges DEF TypeOK, History
  <1>. QED
    BY <1>2, <1>3

\* The calls that wait and read.
LEMMA TableCalls ==
    ASSUME TableInv,
           \/ tcp_wait_established \/ RecvTimeout \/ \E c \in Conn : sys_sock_recv(c)
           \/ \E size \in 1 .. MaxRead : RecvCopy(size)
           \/ RecvCopied
    PROVE  TableInv'
  <1>0. TypeOK
    BY DEF TableInv
  <1>1. CASE tcp_wait_established
    <2>1. /\ call.op = "connect" /\ call' = On("attach", call.conn) /\ call.conn \in Conn
          /\ mode = "ok" /\ UNCHANGED <<tcp, sock, binds, sockets, mode, History>>
      BY <1>0, <1>1, CallIs DEF tcp_wait_established, Idle
    <2>2. call' \in Calls /\ call'.op = "attach" /\ call'.conn = call.conn
      BY <2>1 DEF Calls, On, Opening
    <2>. QED
      BY <1>0, <2>1, <2>2, TableCallMoves DEF History, Opening, TypeOK
  <1>2. CASE RecvTimeout
    <2>1. /\ call.op = "recv" /\ call' = Idle
          /\ mode = "ok" /\ UNCHANGED <<tcp, sock, binds, sockets, mode, History>>
      BY <1>2 DEF RecvTimeout
    <2>2. call' \in Calls /\ call'.op = "none"
      BY <2>1 DEF Calls, Idle
    <2>. QED
      BY <1>0, <2>1, <2>2, TableCallMoves DEF History, Opening, TypeOK
  <1>3. ASSUME NEW c \in Conn, sys_sock_recv(c)
        PROVE  TableInv'
    <2>1. /\ call = Idle /\ call' = On("recv", c) /\ In(sockets, c)
          /\ mode = "ok" /\ UNCHANGED <<tcp, sock, binds, sockets, mode, History>>
      BY <1>3 DEF sys_sock_recv, Quiet
    <2>2. call' \in Calls /\ call'.op = "recv" /\ call'.conn = c /\ call.op = "none"
      BY <2>1 DEF Calls, On, Idle
    <2>3. /\ read' \in [Conn -> Seq(Unit)]
          /\ UNCHANGED <<tcp, sock, binds, sockets, mode, remote, orderly, sent, odd, got>>
      BY <1>0, <2>1 DEF TypeOK, History
    <2>. QED
      BY <2>1, <2>2, <2>3, TableCallMoves DEF Opening
  <1>4. ASSUME NEW size \in 1 .. MaxRead, RecvCopy(size)
        PROVE  TableInv'
    <2>. DEFINE c == call.conn
                num == sock[c].num_bytes_received
                n == IF num > size THEN size ELSE num
    <2>1. /\ call.op = "recv" /\ mode = "ok" /\ n > 0
          /\ call' = [op |-> "copy", conn |-> c, n |-> n]
          /\ UNCHANGED <<tcp, sock, binds, sockets, mode, remote, orderly, sent, odd, got, read>>
      BY <1>4 DEF RecvCopy, History
    <2>2. c \in Conn /\ In(sockets, c)
      <3>1. c \in Conn /\ call # Idle
        BY <1>0, <2>1, CallIs DEF Idle
      <3>2. ConnOK(c)
        BY <3>1 DEF TableInv
      <3>. QED
        BY <2>1, <3>1, <3>2 DEF ConnOK, Making, Opening
    <2>. HIDE DEF c
    <2>3. num \in Nat
      BY <1>0, <2>2 DEF TypeOK, Socks
    <2>. HIDE DEF num
    <2>4. n \in Nat \ {0} /\ n <= num
      BY <2>1, <2>3, SocketsAssumption
    <2>. HIDE DEF n
    <2>5. read' \in [Conn -> Seq(Unit)]
      BY <1>0, <2>1 DEF TypeOK
    <2>6. call' \in Calls /\ call'.op = "copy" /\ call'.conn = c /\ call'.n = n
      BY <2>1, <2>2, <2>4 DEF Calls
    <2>7. call'.n <= sock[call'.conn].num_bytes_received
      BY <2>4, <2>6 DEF num
    <2>. QED
      BY <2>1, <2>2, <2>5, <2>6, <2>7, TableCallMoves DEF Opening
  <1>5. CASE RecvCopied
    <2>. DEFINE c == call.conn
                num == sock[c].num_bytes_received
                n == call.n
    <2>1. /\ call.op = "copy" /\ mode = "ok"
          /\ read' = [read EXCEPT ![c] = @ \o SubSeq(sock[c].received_data, 1, n)]
          /\ call' = [op |-> "store", conn |-> c, n |-> n, left |-> num - n]
          /\ UNCHANGED <<tcp, sock, binds, sockets, mode, remote, orderly, sent, odd, got>>
      BY <1>5 DEF RecvCopied
    <2>2. c \in Conn /\ In(sockets, c) /\ n \in Nat \ {0}
      <3>1. c \in Conn /\ call # Idle
        BY <1>0, <2>1, CallIs DEF Idle
      <3>2. ConnOK(c)
        BY <3>1 DEF TableInv
      <3>. QED
        BY <1>0, <2>1, <3>1, <3>2, CallIs DEF ConnOK, Making, Opening
    <2>3. /\ num \in Nat /\ sock[c].received_data \in Seq(Unit) /\ num <= Len(sock[c].received_data)
          /\ n <= num
      BY <1>0, <2>1, <2>2 DEF TypeOK, Socks, TableInv, BufferOK
    <2>. HIDE DEF c, num, n
    <2>4. SubSeq(sock[c].received_data, 1, n) \in Seq(Unit)
      BY <2>2, <2>3, SubSeqProperties
    <2>5. read' \in [Conn -> Seq(Unit)]
      BY <1>0, <2>1, <2>2, <2>4 DEF TypeOK
    <2>6. call' \in Calls /\ call'.op = "store" /\ call'.conn = c /\ call'.n = n /\ call'.left = num - n
      BY <2>1, <2>2, <2>3 DEF Calls, Reading
    <2>7. call'.left + call'.n <= num
      BY <2>2, <2>3, <2>6
    <2>8. call'.left + call'.n <= sock[call'.conn].num_bytes_received
      BY <2>6, <2>7 DEF num
    <2>. QED
      BY <2>1, <2>2, <2>5, <2>6, <2>8, TableCallMoves DEF Opening
  <1>. QED
    BY <1>1, <1>2, <1>3, <1>4, <1>5

\* The junk behind the end of a buffer is of the type of data.
LEMMA MovedType ==
    ASSUME NEW data \in Seq(Unit), NEW n \in Nat, NEW length \in Nat
    PROVE  /\ Moved(data, n, length) \in Seq(Unit)
           /\ Len(Moved(data, n, length)) = length
           /\ \A i \in 1 .. length : n + i <= Len(data) => Moved(data, n, length)[i] = data[n + i]
  <1>1. Padding \in Unit
    BY DEF Padding, Unit
  <1>2. DOMAIN data = 1 .. Len(data) /\ Len(data) \in Nat /\ \A i \in 1 .. Len(data) : data[i] \in Unit
    OBVIOUS
  <1>3. Moved(data, n, length) \in [1 .. length -> Unit]
    BY <1>1, <1>2 DEF Moved
  <1>4. Moved(data, n, length) \in Seq(Unit) /\ Len(Moved(data, n, length)) = length
    BY <1>3
  <1>5. ASSUME NEW i \in 1 .. length, n + i <= Len(data)
        PROVE  Moved(data, n, length)[i] = data[n + i]
    <2>1. n + i \in DOMAIN data
      BY <1>2, <1>5
    <2>. QED
      BY <2>1 DEF Moved
  <1>. QED
    BY <1>4, <1>5

LEMMA TableStore ==
    ASSUME TableInv, RecvStore
    PROVE  TableInv'
  <1>. DEFINE c == call.conn
  <1>1. TypeOK /\ BufferOK /\ call.op = "store" /\ mode = "ok"
    BY DEF TableInv, RecvStore
  <1>2. c \in Conn /\ call.left \in Nat /\ call.n \in Nat /\ call \in [op : Reading, conn : Conn, n : Nat \ {0}, left : Nat]
    BY <1>1, CallIs DEF Reading
  <1>3. /\ sock' = [sock EXCEPT ![c].num_bytes_received = call.left]
        /\ call' = [call EXCEPT !.op = "move"]
        /\ UNCHANGED <<tcp, binds, sockets, mode, History>>
    BY DEF RecvStore
  <1>4. call.left <= Len(sock[c].received_data)
    <2>1. /\ call.left + call.n <= sock[c].num_bytes_received
          /\ sock[c].num_bytes_received <= Len(sock[c].received_data)
      BY <1>1, <1>2 DEF BufferOK
    <2>2. sock[c].num_bytes_received \in Nat /\ Len(sock[c].received_data) \in Nat
      BY <1>1, <1>2 DEF TypeOK, Socks
    <2>. QED
      BY <1>2, <2>1, <2>2
  <1>5. call' \in Calls
    BY <1>2, <1>3 DEF Calls, Reading
  <1>. HIDE DEF c
  <1>6. /\ sock' \in [Conn -> Socks] /\ \A d \in Conn \ {c} : sock'[d] = sock[d]
        /\ sock'[c].mem = sock[c].mem /\ sock'[c].received_data = sock[c].received_data
        /\ sock'[c].num_bytes_received = call.left
    <2>1. sock \in [Conn -> Socks] /\ call.left \in Nat /\ c \in Conn
      BY <1>1, <1>2 DEF TypeOK
    <2>2. sock' = [sock EXCEPT ![c].num_bytes_received = call.left]
      BY <1>3
    <2>. QED
      BY <2>1, <2>2 DEF Socks
  <1>7. call.left <= sock'[c].num_bytes_received
    BY <1>2, <1>6
  <1>8. /\ tcp' \in [Conn -> Tcps] /\ got' \in [Conn -> Nat]
        /\ odd' \in [Conn -> SUBSET {"padding", "uncounted"}]
        /\ UNCHANGED <<binds, sockets, mode, remote, orderly, read, sent>>
        /\ tcp' = tcp
    BY <1>1, <1>3 DEF TypeOK, History
  <1>9. call.conn = c /\ call.op \in Reading
    BY <1>1 DEF c, Reading
  <1>. QED
    BY <1>1, <1>2, <1>3, <1>4, <1>5, <1>6, <1>7, <1>8, <1>9, TableSockChanges

LEMMA TableMove ==
    ASSUME TableInv, RecvMove
    PROVE  TableInv'
  <1>. DEFINE c == call.conn
              front == Moved(sock[c].received_data, call.n, call.left)
              back == SubSeq(sock[c].received_data, call.left + 1, sock[c].num_bytes_received)
  <1>1. TypeOK /\ BufferOK /\ call.op = "move" /\ mode = "ok"
    BY DEF TableInv, RecvMove
  <1>2. c \in Conn /\ call.left \in Nat /\ call.n \in Nat
    BY <1>1, CallIs DEF Reading
  <1>3. /\ sock' = [sock EXCEPT ![c].received_data = front \o back]
        /\ call' = Idle
        /\ UNCHANGED <<tcp, binds, sockets, mode, History>>
    BY DEF RecvMove
  <1>4. /\ sock[c].received_data \in Seq(Unit) /\ sock[c].num_bytes_received \in Nat
        /\ sock[c].num_bytes_received <= Len(sock[c].received_data)
        /\ call.left <= sock[c].num_bytes_received
    BY <1>1, <1>2 DEF TypeOK, Socks, BufferOK
  <1>5. front \in Seq(Unit) /\ Len(front) = call.left
    BY <1>2, <1>4, MovedType
  <1>6. back \in Seq(Unit) /\ Len(back) = sock[c].num_bytes_received - call.left
    <2>1. /\ call.left + 1 \in 1 .. Len(sock[c].received_data) + 1
          /\ sock[c].num_bytes_received \in (call.left + 1) - 1 .. Len(sock[c].received_data)
      BY <1>2, <1>4
    <2>. HIDE DEF c
    <2>. QED
      BY <1>2, <1>4, <2>1, SubSeqProperties
  <1>. HIDE DEF front, back
  <1>7. front \o back \in Seq(Unit) /\ Len(front \o back) = sock[c].num_bytes_received
    BY <1>2, <1>4, <1>5, <1>6
  <1>8. call' \in Calls
    BY <1>3 DEF Calls
  <1>. HIDE DEF c
  <1>9. /\ sock' \in [Conn -> Socks] /\ \A d \in Conn \ {c} : sock'[d] = sock[d]
        /\ sock'[c].mem = sock[c].mem /\ sock'[c].received_data = front \o back
        /\ sock'[c].num_bytes_received = sock[c].num_bytes_received
    BY <1>1, <1>2, <1>3, <1>7 DEF TypeOK, Socks
  <1>10. /\ tcp' \in [Conn -> Tcps] /\ got' \in [Conn -> Nat]
        /\ odd' \in [Conn -> SUBSET {"padding", "uncounted"}]
        /\ UNCHANGED <<binds, sockets, mode, remote, orderly, read, sent>>
        /\ tcp' = tcp
    BY <1>1, <1>3 DEF TypeOK, History
  <1>11. call.conn = c /\ call.op \in Reading
    BY <1>1 DEF c, Reading
  <1>12. sock'[c].num_bytes_received <= Len(sock'[c].received_data)
    BY <1>4, <1>7, <1>9
  <1>. QED
    BY <1>1, <1>2, <1>3, <1>4, <1>8, <1>9, <1>10, <1>11, <1>12, TableSockChanges

LEMMA TableDisconnected ==
    ASSUME TableInv, Disconnected
    PROVE  TableInv'
  <1>. DEFINE c == call.conn
  <1>1. TypeOK /\ sockets \in Pointers /\ call.op = "disconnect" /\ mode = "ok"
    BY DEF TableInv, TypeOK, Pointers, Disconnected
  <1>2. c \in Conn /\ call # Idle
    BY <1>1, CallIs DEF Idle
  <1>. HIDE DEF c
  <1>3. CASE tcp[c].mem = "freed"
    BY <1>3, TableStray DEF Disconnected, c
  <1>4. CASE tcp[c].mem # "freed"
    <2>1. /\ tcp' = [tcp EXCEPT ![c].sequence_number = @ + 1]
          /\ sockets' = Remove(sockets, c)
          /\ sock' = [sock EXCEPT ![c].mem = "freed"]
          /\ call' = Idle
          /\ UNCHANGED <<binds, mode, History>>
      BY <1>4 DEF Disconnected, c
    <2>2. ConnOK(c) /\ In(sockets, c)
      BY <1>1, <1>2 DEF TableInv, ConnOK, Making, c, Opening
    <2>3. /\ sockets' \in Pointers /\ Single(sockets')
          /\ \A d \in Conn : In(sockets', d) <=> In(sockets, d) /\ d # c
      BY <1>1, <1>2, <2>1, RemoveDoes DEF TableInv
    <2>4. tcp[c].sequence_number + 1 \in Nat
      BY <1>1, <1>2 DEF TypeOK, Tcps
    <2>5. tcp' \in [Conn -> Tcps]
      BY <1>1, <1>2, <2>1, <2>4, TcpFields DEF TypeOK
    <2>6. sock' \in [Conn -> Socks]
      BY <1>1, <1>2, <2>1 DEF TypeOK, Socks
    <2>7. TypeOK'
      BY <1>1, <2>1, <2>3, <2>5, <2>6 DEF TypeOK, Pointers, History, Calls
    <2>8. call'.op = "none" /\ call' = Idle
      BY <2>1 DEF Idle
    <2>9. BufferOK'
      <3>1. \A d \in Conn : /\ sock'[d].num_bytes_received = sock[d].num_bytes_received
                            /\ sock'[d].received_data = sock[d].received_data
        BY <1>1, <2>1 DEF TypeOK, Socks
      <3>. QED
        BY <2>8, <3>1 DEF TableInv, BufferOK
    <2>10. ASSUME NEW d \in Conn
           PROVE  ConnOK(d)'
      <3>1. ConnOK(d)
        BY DEF TableInv
      <3>2. ~Making(d) /\ ~Making(d)'
        BY <1>1, <2>8 DEF Making, Opening
      <3>3. CASE d = c
        <4>1. tcp'[c].recv = tcp[c].recv /\ tcp'[c].mem = tcp[c].mem /\ tcp'[c].state = tcp[c].state
              /\ sock'[c].mem = "freed"
          BY <1>1, <1>2, <2>1 DEF TypeOK, Tcps, Socks
        <4>. QED
          BY <2>1, <2>2, <2>3, <2>8, <3>2, <3>3, <4>1 DEF ConnOK, TypeOK, Socks
      <3>4. CASE d # c
        <4>1. tcp'[d] = tcp[d] /\ sock'[d] = sock[d]
          BY <1>1, <2>1, <3>4 DEF TypeOK
        <4>. QED
          BY <2>1, <2>3, <2>8, <3>1, <3>2, <3>4, <4>1 DEF ConnOK
      <3>. QED
        BY <3>3, <3>4
    <2>. QED
      BY <1>1, <2>1, <2>3, <2>7, <2>9, <2>10 DEF TableInv
  <1>. QED
    BY <1>3, <1>4

LEMMA TableExit ==
    ASSUME TableInv, ProgramExits
    PROVE  TableInv'
  <1>. DEFINE left == {c \in Conn : In(sockets, c)}
  <1>1. TypeOK /\ call = Idle /\ call.op = "none" /\ mode = "ok"
    BY DEF TableInv, ProgramExits, Quiet, Idle
  <1>2. CASE \E c \in left : tcp[c].mem = "freed"
    BY <1>2, TableStray DEF ProgramExits
  <1>3. CASE ~ \E c \in left : tcp[c].mem = "freed"
    <2>1. /\ tcp' = [c \in Conn |->
                              IF c \in left
                              THEN [tcp[c] EXCEPT !.state = "FIN_WAIT1",
                                                  !.sequence_number = @ + 1]
                              ELSE tcp[c]]
          /\ sockets' = [i \in DOMAIN sockets |-> None]
          /\ sock' = [c \in Conn |-> IF c \in left THEN [sock[c] EXCEPT !.mem = "freed"]
                                           ELSE sock[c]]
          /\ UNCHANGED <<binds, call, mode, History>>
      BY <1>3 DEF ProgramExits
    <2>2. /\ sockets' \in Pointers /\ Single(sockets')
          /\ \A d \in Conn : ~In(sockets', d)
      <3>1. DOMAIN sockets' = DOMAIN sockets /\ \A i \in DOMAIN sockets : sockets'[i] = None
        BY <2>1
      <3>2. DOMAIN sockets = 1 .. Len(sockets) /\ Len(sockets) \in Nat
        BY <1>1 DEF TypeOK
      <3>3. sockets' \in [1 .. Len(sockets) -> Conn \cup {None}]
        BY <2>1, <3>2
      <3>. QED
        BY <3>1, <3>2, <3>3, SocketsAssumption DEF Single, In, Pointers
    <2>3. ASSUME NEW d \in Conn
          PROVE  /\ tcp'[d] \in Tcps /\ sock'[d] \in Socks
                 /\ tcp'[d].mem = tcp[d].mem /\ tcp'[d].recv = tcp[d].recv
                 /\ tcp'[d].state = IF d \in left THEN "FIN_WAIT1" ELSE tcp[d].state
                 /\ sock'[d].mem = IF d \in left THEN "freed" ELSE sock[d].mem
                 /\ sock'[d].num_bytes_received = sock[d].num_bytes_received
                 /\ sock'[d].received_data = sock[d].received_data
      <3>. HIDE DEF left
      <3>1. tcp[d] \in Tcps /\ sock[d] \in Socks
        BY <1>1 DEF TypeOK
      <3>2. tcp[d].sequence_number + 1 \in Nat
        BY <3>1 DEF Tcps
      <3>3. [tcp[d] EXCEPT !.state = "FIN_WAIT1", !.sequence_number = tcp[d].sequence_number + 1] \in Tcps
        BY <3>1, <3>2, Zenon DEF Tcps, TcpState
      <3>4. tcp'[d] = IF d \in left
                      THEN [tcp[d] EXCEPT !.state = "FIN_WAIT1", !.sequence_number = tcp[d].sequence_number + 1]
                      ELSE tcp[d]
        BY <2>1
      <3>5. /\ tcp'[d] \in Tcps
            /\ tcp'[d].mem = tcp[d].mem /\ tcp'[d].recv = tcp[d].recv
            /\ tcp'[d].state = IF d \in left THEN "FIN_WAIT1" ELSE tcp[d].state
        BY <3>1, <3>3, <3>4 DEF Tcps
      <3>6. sock'[d] = IF d \in left THEN [sock[d] EXCEPT !.mem = "freed"] ELSE sock[d]
        BY <2>1
      <3>. QED
        BY <3>1, <3>5, <3>6 DEF Socks
    <2>4. tcp' \in [Conn -> Tcps] /\ sock' \in [Conn -> Socks]
      BY <2>1, <2>3
    <2>5. TypeOK'
      BY <1>1, <2>1, <2>2, <2>4 DEF TypeOK, Pointers, History
    <2>6. BufferOK'
      BY <1>1, <2>1, <2>3 DEF TableInv, BufferOK
    <2>7. ASSUME NEW d \in Conn
          PROVE  ConnOK(d)'
      <3>1. ConnOK(d) /\ ~Making(d) /\ ~Making(d)' /\ call' = Idle
        BY <1>1, <2>1 DEF TableInv, Making, Opening
      <3>2. d \in left <=> In(sockets, d)
        OBVIOUS
      <3>. HIDE DEF left
      <3>3. binds' = binds
        BY <2>1
      <3>. QED
        BY <2>2, <2>3, <3>1, <3>2, <3>3 DEF ConnOK
    <2>. QED
      BY <1>1, <2>1, <2>2, <2>5, <2>6, <2>7 DEF TableInv
  <1>. QED
    BY <1>2, <1>3

----------------------------------------------------------------------------
(* Segments *)

LEMMA Words == Word \in Nat \ {0} /\ Isn \in Nat /\ Isn % Word = Isn /\ \A n \in Nat : n % Word \in Nat
  <1>1. Word \in Nat \ {0} /\ Isn \in Nat /\ Isn < Word
    BY SocketsAssumption
  <1>. QED
    BY <1>1

LEMMA SegmentFields ==
    ASSUME NEW c, NEW flags, NEW seq, NEW data
    PROVE  LET s == Segment(c, flags, seq, data)
           IN  s.to = c /\ s.flags = flags /\ s.seq = seq % Word /\ s.data = data
  BY DEF Segment

\* What a segment of connection c can be.
LEMMA SegmentIs ==
    ASSUME TypeOK, NEW c \in Conn, NEW s \in Arriving(c)
    PROVE  /\ s.to = c /\ tcp[c].mem # "none" /\ s.data \in Unit
           /\ {"SYN", "ACK"} \subseteq s.flags => s.seq = Isn
           /\ \/ s.data = Padding
              \/ \E k \in 1 .. MaxData : s.data = <<c, k>> /\ s.seq = (Isn + k) % Word /\ "ACK" \in s.flags
           /\ orderly => s = Turn(c) /\ ItsTurn(c)
           /\ ~orderly /\ ~tcp[c].est => s.data = Padding
  <1>1. /\ tcp[c].mem # "none"
        /\ orderly => s = Turn(c) /\ ItsTurn(c)
        /\ ~orderly => s \in Segments(c)
    BY DEF Arriving
  <1>2. MaxData \in Nat /\ Padding \in Unit
    BY SocketsAssumption DEF Padding, Unit
  <1>3. \A k \in 1 .. MaxData : <<c, k>> \in Unit
    BY <1>2 DEF Unit
  <1>4. CASE orderly
    <2>1. s = Turn(c) /\ got[c] \in Nat
      BY <1>1, <1>4 DEF TypeOK
    <2>2. CASE got[c] = 0
      <3>1. s = Segment(c, {"SYN", "ACK"}, Isn, Padding)
        <4>1. ~ (got[c] \in 1 .. MaxData) /\ got[c] # MaxData + 1
          BY <1>2, <2>2
        <4>. QED
          BY <2>1, <2>2, <4>1 DEF Turn
      <3>. QED
        BY <1>1, <1>2, <1>4, <3>1, SegmentFields, Words
    <2>3. CASE got[c] \in 1 .. MaxData
      <3>1. s = Segment(c, {"ACK", "PSH"}, Isn + got[c], <<c, got[c]>>)
        BY <1>2, <2>1, <2>3 DEF Turn
      <3>2. s.to = c /\ s.flags = {"ACK", "PSH"} /\ s.seq = (Isn + got[c]) % Word /\ s.data = <<c, got[c]>>
        BY <3>1, SegmentFields
      <3>. QED
        BY <1>1, <1>3, <1>4, <2>3, <3>2
    <2>4. CASE got[c] \notin 0 .. MaxData
      <3>1. \/ s = Segment(c, {"ACK"}, Isn + 1 + MaxData, Padding)
            \/ s = Segment(c, {"FIN", "ACK"}, Isn + 1 + MaxData, Padding)
        BY <1>2, <2>1, <2>4 DEF Turn
      <3>2. s.to = c /\ "SYN" \notin s.flags /\ s.data = Padding
        BY <3>1, SegmentFields
      <3>. QED
        BY <1>1, <1>2, <1>4, <3>2
    <2>. QED
      BY <1>2, <2>1, <2>2, <2>3, <2>4
  <1>5. CASE ~orderly
    <2>1. s \in Segments(c)
      BY <1>1, <1>5
    <2>2. CASE s = Segment(c, {"SYN", "ACK"}, Isn, Padding)
      BY <1>1, <1>2, <1>5, <2>2, SegmentFields, Words
    <2>3. CASE s = Segment(c, {"RST", "ACK"}, 0, Padding)
      BY <1>1, <1>2, <1>5, <2>3, SegmentFields
    <2>4. CASE s \in {Segment(c, {"ACK"}, Isn + 1, Padding),
             Segment(c, {"FIN", "ACK"}, Isn + 1, Padding),
             Segment(c, {"SYN"}, Isn, Padding)}
                 \cup {Segment(c, {"RST"}, Isn + 1 + k, Padding) : k \in 0 .. MaxData}
      <3>1. s.to = c /\ ~ ({"SYN", "ACK"} \subseteq s.flags) /\ s.data = Padding
        BY <2>4, SegmentFields
      <3>. QED
        BY <1>1, <1>2, <1>5, <3>1
    <2>5. CASE tcp[c].est /\ s \in {Segment(c, f, Isn + k, <<c, k>>) :
                      f \in {{"ACK"}, {"ACK", "PSH"}}, k \in 1 .. MaxData}
      <3>1. PICK f \in {{"ACK"}, {"ACK", "PSH"}}, k \in 1 .. MaxData : s = Segment(c, f, Isn + k, <<c, k>>)
        BY <2>5
      <3>2. s.to = c /\ s.flags = f /\ s.seq = (Isn + k) % Word /\ s.data = <<c, k>>
        BY <3>1, SegmentFields
      <3>. QED
        BY <1>1, <1>3, <1>5, <2>5, <3>2
    <2>. QED
      BY <2>1, <2>2, <2>3, <2>4, <2>5 DEF Segments
  <1>. QED
    BY <1>4, <1>5

\* What tcp_ipv4_recv does with it.
LEMMA HandlerCases ==
    ASSUME TableInv, NEW s, tcp_ipv4_recv(s)
    PROVE  /\ mode = "ok"
           /\ got' = [got EXCEPT ![s.to] = IF orderly THEN got[s.to] + 1 ELSE got[s.to]]
           /\ UNCHANGED <<sockets, call, remote, orderly, read, sent>>
           /\ \/ UNCHANGED <<tcp, sock, binds, odd, mode>>
              \/ \E d \in Conn :
                    /\ Matching(s) # {} /\ d = binds[First(Matching(s))]
                    /\ remote[d] = remote[s.to] /\ tcp[d].mem = "bound" /\ tcp[d].state # "CLOSED"
                    /\ \/ Close(d)
                       \/ RecvSynAck(d, s)
                       \/ /\ tcp[d].state = "ESTABLISHED"
                          /\ tcp' = [tcp EXCEPT ![d].state = "CLOSE_WAIT",
                                                ![d].ack_number = Next32(tcp[d].ack_number)]
                          /\ Keep
                       \/ /\ tcp[d].state = "FIN_WAIT1"
                          /\ tcp' = [tcp EXCEPT ![d].state = "FIN_WAIT2"]
                          /\ Keep
                       \/ Deliver(d, s) /\ tcp[d].state \notin {"FIN_WAIT1", "CLOSE_WAIT"}
                       \/ Deliver(d, s) /\ s.flags \cap {"SYN", "ACK", "FIN"} = {}
  <1>1. /\ mode = "ok"
        /\ got' = [got EXCEPT ![s.to] = IF orderly THEN got[s.to] + 1 ELSE got[s.to]]
        /\ UNCHANGED <<sockets, call, remote, orderly, read, sent>>
    BY DEF tcp_ipv4_recv
  <1>2. CASE Matching(s) = {}
    BY <1>1, <1>2 DEF tcp_ipv4_recv
  <1>3. CASE Matching(s) # {}
    <2>. DEFINE d == binds[First(Matching(s))]
    <2>1. d \in Conn /\ In(binds, d) /\ remote[d] = remote[s.to]
      BY <1>3, MatchedBind DEF TableInv
    <2>2. \/ RecvSyn(d, s)
          \/ RecvSynAck(d, s)
          \/ RecvFin(d, s)
          \/ RecvAck(d, s)
          \/ RecvOther(d, s)
      BY <1>3 DEF tcp_ipv4_recv
    <2>. HIDE DEF d
    <2>3. tcp[d].mem = "bound" /\ tcp[d].state # "CLOSED"
      BY <2>1 DEF TableInv, ConnOK
    <2>4. \/ Close(d)
          \/ RecvSynAck(d, s)
          \/ /\ tcp[d].state = "ESTABLISHED"
             /\ tcp' = [tcp EXCEPT ![d].state = "CLOSE_WAIT",
                                   ![d].ack_number = Next32(tcp[d].ack_number)]
             /\ Keep
          \/ /\ tcp[d].state = "FIN_WAIT1"
             /\ tcp' = [tcp EXCEPT ![d].state = "FIN_WAIT2"]
             /\ Keep
          \/ Deliver(d, s) /\ tcp[d].state \notin {"FIN_WAIT1", "CLOSE_WAIT"}
          \/ Deliver(d, s) /\ s.flags \cap {"SYN", "ACK", "FIN"} = {}
          \/ UNCHANGED tcp /\ Keep
      <3>1. CASE RecvSyn(d, s)
        BY <3>1 DEF RecvSyn
      <3>2. CASE RecvSynAck(d, s)
        BY <3>2
      <3>3. CASE RecvFin(d, s)
        BY <3>3 DEF RecvFin
      <3>4. CASE RecvAck(d, s)
        BY <3>4 DEF RecvAck, RecvData
      <3>5. CASE RecvOther(d, s)
        BY <3>5 DEF RecvOther, RecvData, Kind
      <3>. QED
        BY <2>2, <3>1, <3>2, <3>3, <3>4, <3>5
    <2>5. CASE UNCHANGED tcp /\ Keep
      BY <1>1, <2>5 DEF Keep
    <2>. QED
      BY <1>1, <1>3, <2>1, <2>3, <2>4, <2>5 DEF d
  <1>. QED
    BY <1>2, <1>3

LEMMA TableClose ==
    ASSUME TableInv, NEW d \in Conn, tcp[d].mem = "bound", Close(d), got' \in [Conn -> Nat],
           UNCHANGED <<sockets, call, remote, orderly, read, sent>>
    PROVE  TableInv'
  <1>1. TypeOK /\ binds \in Pointers /\ ConnOK(d)
    BY DEF TableInv, TypeOK, Pointers
  <1>2. /\ tcp' = [tcp EXCEPT ![d].state = "CLOSED", ![d].mem = "freed"]
        /\ binds' = Remove(binds, d)
        /\ UNCHANGED <<sock, odd, mode>>
    BY DEF Close
  <1>3. /\ binds' \in Pointers /\ Single(binds')
        /\ \A e \in Conn : In(binds', e) <=> In(binds, e) /\ e # d
    BY <1>1, <1>2, RemoveDoes DEF TableInv
  <1>4. tcp' \in [Conn -> Tcps]
    BY <1>1, <1>2, TcpFields DEF TypeOK, TcpState
  <1>5. TypeOK'
    BY <1>1, <1>2, <1>3, <1>4 DEF TypeOK, Pointers
  <1>6. BufferOK'
    BY <1>2 DEF TableInv, BufferOK
  <1>7. ASSUME NEW e \in Conn
        PROVE  ConnOK(e)'
    <2>1. ConnOK(e) /\ (Making(e) <=> Making(e)')
      BY DEF TableInv, Making
    <2>2. CASE e = d
      <3>1. tcp'[d].mem = "freed" /\ tcp'[d].recv = tcp[d].recv
        BY <1>1, <1>2 DEF TypeOK, Tcps
      <3>. QED
        BY <1>1, <1>2, <1>3, <2>1, <2>2, <3>1 DEF ConnOK
    <2>3. CASE e # d
      <3>1. tcp'[e] = tcp[e]
        BY <1>1, <1>2, <2>3 DEF TypeOK
      <3>. QED
        BY <1>2, <1>3, <2>1, <2>3, <3>1 DEF ConnOK
    <2>. QED
      BY <2>2, <2>3
  <1>. QED
    BY <1>2, <1>3, <1>5, <1>6, <1>7 DEF TableInv

\* Only the mode and history change.
LEMMA TableHistory ==
    ASSUME TableInv, UNCHANGED <<tcp, sock, binds, sockets, call, remote, orderly, read, sent, odd>>,
           got' \in [Conn -> Nat], mode' \in {"ok", "crash", "stray"},
           mode' = "crash" => call.op \in Opening
    PROVE  TableInv'
  BY DEF TableInv, TypeOK, BufferOK, ConnOK, Making

\* socket_tcp_recv has put a unit into the buffer.
LEMMA DeliverIs ==
    ASSUME TableInv, NEW d \in Conn, NEW s, s.data \in Unit, Deliver(d, s), mode' = "ok", mode = "ok"
    PROVE  /\ InOrder(d, s) /\ tcp[d].recv /\ sock[d].mem = "live" /\ ~Held(d)
           /\ sock' \in [Conn -> Socks] /\ \A e \in Conn \ {d} : sock'[e] = sock[e]
           /\ sock'[d].mem = sock[d].mem
           /\ sock'[d].received_data =
                Append(Moved(sock[d].received_data, 0, sock[d].num_bytes_received), s.data)
           /\ sock'[d].num_bytes_received = sock[d].num_bytes_received + 1
           /\ sock'[d].num_bytes_received = Len(sock'[d].received_data)
           /\ tcp' = [tcp EXCEPT ![d].ack_number = Next32(tcp[d].ack_number)]
           /\ tcp' \in [Conn -> Tcps]
           /\ \A e \in Conn : /\ tcp'[e].mem = tcp[e].mem /\ tcp'[e].recv = tcp[e].recv
                              /\ tcp'[e].state = tcp[e].state
           /\ odd' = [odd EXCEPT ![d] = odd[d] \cup Spoilt(d, s)]
           /\ odd' \in [Conn -> SUBSET {"padding", "uncounted"}]
           /\ UNCHANGED binds
  <1>. DEFINE old == sock[d].received_data
              num == sock[d].num_bytes_received
              new == Append(Moved(old, 0, num), s.data)
  <1>1. /\ InOrder(d, s) /\ tcp[d].recv /\ sock[d].mem = "live" /\ ~Held(d)
        /\ sock' = [sock EXCEPT ![d].received_data = new, ![d].num_bytes_received = @ + 1]
        /\ tcp' = [tcp EXCEPT ![d].ack_number = Next32(tcp[d].ack_number)]
        /\ odd' = [odd EXCEPT ![d] = odd[d] \cup Spoilt(d, s)]
        /\ UNCHANGED binds
    BY DEF Deliver, Acknowledged
  <1>2. TypeOK /\ old \in Seq(Unit) /\ num \in Nat
    BY DEF TableInv, TypeOK, Socks
  <1>3. new \in Seq(Unit) /\ Len(new) = num + 1
    <2>1. Moved(old, 0, num) \in Seq(Unit) /\ Len(Moved(old, 0, num)) = num
      BY <1>2, MovedType
    <2>. QED
      BY <2>1
  <1>. HIDE DEF new
  <1>4. /\ sock' \in [Conn -> Socks] /\ \A e \in Conn \ {d} : sock'[e] = sock[e]
        /\ sock'[d].mem = sock[d].mem /\ sock'[d].received_data = new
        /\ sock'[d].num_bytes_received = num + 1
    <2>1. sock \in [Conn -> Socks]
      BY <1>2 DEF TypeOK
    <2>. QED
      BY <1>1, <1>2, <1>3, <2>1 DEF Socks
  <1>5. Next32(tcp[d].ack_number) \in Nat
    BY <1>2, Words DEF TypeOK, Tcps, Next32
  <1>6. /\ tcp' \in [Conn -> Tcps]
        /\ \A e \in Conn : /\ tcp'[e].mem = tcp[e].mem /\ tcp'[e].recv = tcp[e].recv
                           /\ tcp'[e].state = tcp[e].state
    <2>1. tcp \in [Conn -> Tcps]
      BY <1>2 DEF TypeOK
    <2>2. tcp' \in [Conn -> Tcps]
      BY <1>1, <1>5, <2>1, TcpFields
    <2>. QED
      BY <1>1, <2>1, <2>2 DEF Tcps
  <1>7. odd' \in [Conn -> SUBSET {"padding", "uncounted"}]
    BY <1>1, <1>2 DEF TypeOK, Spoilt
  <1>. QED
    BY <1>1, <1>3, <1>4, <1>6, <1>7 DEF new

LEMMA TableDeliver ==
    ASSUME TableInv, NEW d \in Conn, NEW s, s.data \in Unit, Deliver(d, s), mode = "ok",
           tcp[d].mem = "bound", got' \in [Conn -> Nat],
           UNCHANGED <<sockets, call, remote, orderly, read, sent>>
    PROVE  TableInv'
  <1>1. CASE ~tcp[d].recv /\ mode' = "crash" /\ UNCHANGED <<tcp, sock, binds, odd>>
    <2>1. ConnOK(d)
      BY DEF TableInv
    <2>2. call.op \in Opening
      BY <1>1, <2>1 DEF ConnOK, Making
    <2>. QED
      BY <1>1, <2>2, TableHistory
  <1>2. CASE mode' = "stray" /\ UNCHANGED <<tcp, sock, binds, odd>>
    BY <1>2, TableHistory
  <1>3. CASE mode' = "ok"
    <2>1. TypeOK /\ call' \in Calls /\ UNCHANGED <<sockets, mode, remote, orderly, read, sent>>
      BY <1>3 DEF TableInv, TypeOK
    <2>2. sock[d].num_bytes_received \in Nat
      BY <2>1 DEF TypeOK, Socks
    <2>3. sock'[d].num_bytes_received >= sock[d].num_bytes_received
      BY <1>3, <2>2, DeliverIs
    <2>4. sock'[d].num_bytes_received <= Len(sock'[d].received_data)
      <3>1. sock'[d].num_bytes_received = sock[d].num_bytes_received + 1
            /\ sock'[d].num_bytes_received = Len(sock'[d].received_data)
        BY <1>3, DeliverIs
      <3>. QED
        BY <2>2, <3>1
    <2>5. /\ sock' \in [Conn -> Socks] /\ \A e \in Conn \ {d} : sock'[e] = sock[e]
          /\ sock'[d].mem = sock[d].mem
          /\ tcp' \in [Conn -> Tcps]
          /\ \A e \in Conn : /\ tcp'[e].mem = tcp[e].mem /\ tcp'[e].recv = tcp[e].recv
                             /\ tcp'[e].state = tcp[e].state
          /\ odd' \in [Conn -> SUBSET {"padding", "uncounted"}]
          /\ UNCHANGED binds
      BY <1>3, DeliverIs
    <2>. QED
      BY <2>1, <2>3, <2>4, <2>5, TableSockChanges
  <1>. QED
    BY <1>1, <1>2, <1>3 DEF Deliver

LEMMA TableHandler ==
    ASSUME TableInv, NEW c \in Conn, NEW s \in Arriving(c), tcp_ipv4_recv(s)
    PROVE  TableInv'
  <1>1. TypeOK /\ mode = "ok" /\ s.to = c /\ s.data \in Unit
    BY HandlerCases, SegmentIs DEF TableInv
  <1>2. UNCHANGED <<sockets, call, remote, orderly, read, sent>>
    BY HandlerCases
  <1>3. got' \in [Conn -> Nat]
    <2>1. got' = [got EXCEPT ![c] = IF orderly THEN got[c] + 1 ELSE got[c]]
      BY <1>1, HandlerCases
    <2>. QED
      BY <1>1, <2>1 DEF TypeOK
  <1>4. CASE UNCHANGED <<tcp, sock, binds, odd, mode>>
    BY <1>1, <1>2, <1>3, <1>4, TableHistory
  <1>5. ASSUME NEW d \in Conn, tcp[d].mem = "bound", tcp[d].state # "CLOSED",
               \/ Close(d)
               \/ RecvSynAck(d, s)
               \/ /\ tcp[d].state = "ESTABLISHED"
                  /\ tcp' = [tcp EXCEPT ![d].state = "CLOSE_WAIT",
                                        ![d].ack_number = Next32(tcp[d].ack_number)]
                  /\ Keep
               \/ /\ tcp[d].state = "FIN_WAIT1"
                  /\ tcp' = [tcp EXCEPT ![d].state = "FIN_WAIT2"]
                  /\ Keep
               \/ Deliver(d, s)
        PROVE  TableInv'
    <2>0. tcp \in [Conn -> Tcps] /\ tcp[d].ack_number \in Nat /\ tcp[d].sequence_number + 1 \in Nat
      BY <1>1 DEF TypeOK, Tcps
    <2>1. CASE Close(d)
      BY <1>2, <1>3, <1>5, <2>1, TableClose
    <2>2. CASE Deliver(d, s)
      BY <1>1, <1>2, <1>3, <1>5, <2>2, TableDeliver
    <2>3. ASSUME Keep, tcp' \in [Conn -> Tcps], \A e \in Conn \ {d} : tcp'[e] = tcp[e],
                 tcp'[d].mem = tcp[d].mem, tcp'[d].recv = tcp[d].recv, tcp'[d].state # "CLOSED"
          PROVE  TableInv'
      <3>1. call' \in Calls /\ sent' \in [Conn -> Nat] /\ call' = call
        BY <1>1, <1>2 DEF TypeOK
      <3>2. UNCHANGED <<sock, binds, sockets, mode, remote, orderly, read, odd>>
        BY <1>2, <2>3 DEF Keep
      <3>. QED
        BY <1>1, <1>3, <2>3, <3>1, <3>2, TableTcpChanges
    <2>4. CASE RecvSynAck(d, s)
      <3>1. /\ Keep /\ Next32(s.seq) \in Nat
            /\ tcp' = [tcp EXCEPT ![d].state = "ESTABLISHED", ![d].est = TRUE,
                          ![d].ack_number = Next32(s.seq),
                          ![d].sequence_number = tcp[d].sequence_number + 1]
        <4>1. s.seq = Isn
          BY <1>1, <2>4, SegmentIs DEF RecvSynAck, Kind
        <4>2. Next32(s.seq) \in Nat
          BY <4>1, Words DEF Next32
        <4>. QED
          BY <2>4, <4>2 DEF RecvSynAck
      <3>2. tcp' \in [Conn -> Tcps]
        <4>1. "ESTABLISHED" \in TcpState
          BY DEF TcpState
        <4>. QED
          BY <2>0, <3>1, <4>1, TcpFields, Zenon
      <3>3. /\ \A e \in Conn \ {d} : tcp'[e] = tcp[e]
            /\ tcp'[d].mem = tcp[d].mem /\ tcp'[d].recv = tcp[d].recv /\ tcp'[d].state = "ESTABLISHED"
        BY <2>0, <3>1 DEF Tcps
      <3>. QED
        BY <2>3, <3>1, <3>2, <3>3
    <2>5. CASE /\ tcp[d].state = "ESTABLISHED"
               /\ tcp' = [tcp EXCEPT ![d].state = "CLOSE_WAIT",
                                     ![d].ack_number = Next32(tcp[d].ack_number)]
               /\ Keep
      <3>1. Next32(tcp[d].ack_number) \in Nat
        BY <2>0, Words DEF Next32
      <3>2. tcp' \in [Conn -> Tcps]
        <4>1. "CLOSE_WAIT" \in TcpState
          BY DEF TcpState
        <4>. QED
          BY <2>0, <2>5, <3>1, <4>1, TcpFields, Zenon
      <3>3. /\ \A e \in Conn \ {d} : tcp'[e] = tcp[e]
            /\ tcp'[d].mem = tcp[d].mem /\ tcp'[d].recv = tcp[d].recv /\ tcp'[d].state = "CLOSE_WAIT"
        BY <2>0, <2>5 DEF Tcps
      <3>. QED
        BY <2>3, <2>5, <3>2, <3>3
    <2>6. CASE /\ tcp[d].state = "FIN_WAIT1"
               /\ tcp' = [tcp EXCEPT ![d].state = "FIN_WAIT2"]
               /\ Keep
      <3>1. tcp' \in [Conn -> Tcps]
        BY <2>0, <2>6, TcpFields DEF TcpState
      <3>2. /\ \A e \in Conn \ {d} : tcp'[e] = tcp[e]
            /\ tcp'[d].mem = tcp[d].mem /\ tcp'[d].recv = tcp[d].recv /\ tcp'[d].state = "FIN_WAIT2"
        BY <2>0, <2>6 DEF Tcps
      <3>. QED
        BY <2>3, <2>6, <3>1, <3>2
    <2>. QED
      BY <1>5, <2>1, <2>2, <2>4, <2>5, <2>6
  <1>. QED
    BY <1>4, <1>5, HandlerCases

LEMMA TableInit == Init => TableInv
  <1>. SUFFICES ASSUME Init
                PROVE  TableInv
    OBVIOUS
  <1>1. TypeOK
    <2>1. tcp \in [Conn -> Tcps]
      BY DEF Init, Tcps, TcpState
    <2>2. sock \in [Conn -> Socks]
      BY DEF Init, Socks
    <2>3. read \in [Conn -> Seq(Unit)] /\ odd \in [Conn -> SUBSET {"padding", "uncounted"}]
      BY DEF Init
    <2>4. sent \in [Conn -> Nat] /\ got \in [Conn -> Nat] /\ binds \in Seq(Conn \cup {None})
          /\ sockets \in Seq(Conn \cup {None}) /\ call \in Calls
      BY DEF Init, Calls
    <2>. QED
      BY <2>1, <2>2, <2>3, <2>4 DEF TypeOK, Init
  <1>2. call.op = "none" /\ call = Idle
    BY DEF Init, Idle
  <1>3. BufferOK /\ Single(binds) /\ Single(sockets)
    BY <1>2 DEF Init, BufferOK, Single
  <1>4. \A c \in Conn : ConnOK(c)
    BY <1>2 DEF Init, ConnOK, Making, Opening, In
  <1>. QED
    BY <1>1, <1>3, <1>4 DEF TableInv, Init

LEMMA TableNext == TableInv /\ [Next]_vars => TableInv'
  <1>. SUFFICES ASSUME TableInv, [Next]_vars
                PROVE  TableInv'
    OBVIOUS
  <1>1. CASE UNCHANGED vars
    BY <1>1 DEF vars, TableInv, TypeOK, BufferOK, ConnOK, Making
  <1>2. CASE CallStep
    BY <1>2, TableCalls, TableAttach, TableStore, TableMove, TableDisconnected DEF CallStep
  <1>3. CASE Arrive
    BY <1>3, TableHandler DEF Arrive
  <1>4. CASE ProgramExits
    BY <1>4, TableExit
  <1>5. ASSUME NEW c \in Conn,
               sys_sock_connect(c) \/ sys_sock_send(c) \/ sys_sock_recv(c) \/ sys_sock_disconnect(c)
        PROVE  TableInv'
    BY <1>5, TableConnect, TableSend, TableCalls, TableDisconnect
  <1>. QED
    BY <1>1, <1>2, <1>3, <1>4, <1>5 DEF Next

\* binds and sockets hold exactly the objects that are alive, each once, through
\* every order of calls and interrupts.
THEOREM SocketsTablesAreLive == Spec => []TablesAreLive
  <1>1. TableInv => TablesAreLive
    <2>. SUFFICES ASSUME TableInv
                  PROVE  TablesAreLive
      OBVIOUS
    <2>1. call = Idle => \A c \in Conn : ~Making(c)
      BY DEF Making, Idle, Opening
    <2>. QED
      BY <2>1 DEF TableInv, TablesAreLive, ConnOK, Single
  <1>. QED
    BY <1>1, TableInit, TableNext, PTL DEF Spec

----------------------------------------------------------------------------
(* Orderly exchanges *)

\* How far the exchange on connection c is: nothing, connecting, answering,
\* disconnecting, acknowledged, closed.
Stage(c) ==
    \/ tcp[c].mem = "none" /\ got[c] = 0
    \/ /\ tcp[c].mem = "bound" /\ tcp[c].state = "SYN_SENT" /\ got[c] = 0
       /\ call = On("connect", c)
    \/ /\ tcp[c].mem = "bound" /\ tcp[c].state = "ESTABLISHED" /\ got[c] \in 1 .. MaxData + 1
       /\ sock[c].mem = "live" /\ call # On("disconnect", c)
       /\ tcp[c].ack_number = (Isn + got[c]) % Word
    \/ /\ tcp[c].mem = "bound" /\ tcp[c].state = "FIN_WAIT1" /\ got[c] = MaxData + 1
       /\ sock[c].mem = "freed" \/ call = On("disconnect", c)
    \/ /\ tcp[c].mem = "bound" /\ tcp[c].state = "FIN_WAIT2" /\ got[c] = MaxData + 2
       /\ sock[c].mem = "freed"
    \/ tcp[c].mem = "freed" /\ got[c] = MaxData + 3 /\ sock[c].mem = "freed"

\* Data waits only when the peer has sent some.
Begun(c) == sock[c].num_bytes_received > 0 => got[c] > 1

\* A memcpy of socket_recv used the buffer that a later segment freed.
Overtaken ==
    /\ mode = "stray"
    /\ call.op \in {"copy", "store", "move"}
    /\ got[call.conn] > 2

OrderInv ==
    /\ \A c \in Conn : sent[c] > 0 => tcp[c].recv
    /\ mode = "ok" => \A c \in Conn : orderly /\ Exclusive(c) => Stage(c) /\ Begun(c)
    /\ orderly /\ Distinct => mode = "ok" \/ Overtaken

\* A remainder is what is left.
LEMMA ModIs ==
    ASSUME NEW q \in Int, NEW r \in Int, NEW w \in Nat \ {0}, 0 <= r, r < w
    PROVE  (w * q + r) % w = r
  <1>. DEFINE a == w * q + r
              p == a \div w
              t == a % w
  <1>1. a \in Int /\ w * q \in Int
    OBVIOUS
  <1>. HIDE DEF a
  <1>2. p \in Int /\ t \in 0 .. w - 1 /\ a = w * p + t
    BY <1>1
  <1>. HIDE DEF p, t
  <1>3. w * p \in Int /\ w * (q - p) = w * q - w * p
    BY <1>2
  <1>4. w * (q - p) = t - r
    BY <1>1, <1>2, <1>3 DEF a
  <1>5. q - p = 0
    <2>. DEFINE x == q - p
    <2>1. x \in Int
      BY <1>2
    <2>. HIDE DEF x
    <2>2. w * x = t - r
      BY <1>4 DEF x
    <2>3. CASE x >= 1
      <3>1. w * x >= w
        <4>1. PICK y \in Nat : x = y + 1
          <5>1. x - 1 \in Nat /\ x = (x - 1) + 1
            BY <2>1, <2>3
          <5>. QED
            BY <5>1
        <4>2. w * x = w * y + w /\ w * y \in Nat
          BY <4>1
        <4>. QED
          BY <4>2
      <3>2. t - r >= w
        BY <2>2, <3>1
      <3>. QED
        BY <1>2, <3>2
    <2>4. CASE x <= -1
      <3>1. w * x <= - w
        <4>1. PICK y \in Nat : x = - y - 1
          <5>1. - x - 1 \in Nat /\ x = - (- x - 1) - 1
            BY <2>1, <2>4
          <5>. QED
            BY <5>1
        <4>2. w * x = - (w * y) - w /\ w * y \in Nat
          BY <4>1
        <4>. QED
          BY <4>2
      <3>2. t - r <= - w
        BY <2>2, <3>1
      <3>. QED
        BY <1>2, <3>2
    <2>5. CASE x = 0
      BY <2>5 DEF x
    <2>. QED
      BY <2>1, <2>3, <2>4, <2>5
  <1>6. t = r
    BY <1>2, <1>4, <1>5
  <1>. QED
    BY <1>6 DEF t, a

\* The next number after a remainder is the remainder of the next number.
LEMMA NextMod ==
    ASSUME NEW n \in Nat
    PROVE  Next32(n % Word) = (n + 1) % Word
  <1>. DEFINE q == n \div Word
              r == n % Word
  <1>1. q \in Int /\ r \in 0 .. Word - 1 /\ n = Word * q + r /\ Word * q \in Int
    BY Words
  <1>. HIDE DEF q, r
  <1>2. CASE r + 1 < Word
    <2>1. (r + 1) % Word = r + 1
      BY <1>1, <1>2, Words
    <2>2. (Word * q + (r + 1)) % Word = r + 1
      BY <1>1, <1>2, Words, ModIs
    <2>3. n + 1 = Word * q + (r + 1)
      BY <1>1
    <2>. QED
      BY <2>1, <2>2, <2>3 DEF Next32, r
  <1>3. CASE r + 1 = Word
    <2>1. (r + 1) % Word = 0
      <3>1. (Word * 1 + 0) % Word = 0
        BY Words, ModIs
      <3>2. Word * 1 + 0 = r + 1
        BY <1>3, Words
      <3>. QED
        BY <3>1, <3>2
    <2>2. (Word * (q + 1) + 0) % Word = 0
      BY <1>1, Words, ModIs
    <2>3. Word * (q + 1) + 0 = n + 1
      <3>1. Word * (q + 1) = Word * q + Word
        BY <1>1, Words
      <3>. QED
        BY <1>1, <1>3, <3>1, Words
    <2>. QED
      BY <2>1, <2>2, <2>3 DEF Next32, r
  <1>. QED
    BY <1>1, <1>2, <1>3, Words

\* A connection that is alone with its remote end has always been.
LEMMA ExclusiveBack ==
    ASSUME NEW c \in Conn, remote' = remote, \A e \in Conn : tcp[e].mem # "none" => tcp'[e].mem # "none"
    PROVE  Exclusive(c)' => Exclusive(c)
  BY DEF Exclusive

\* Steps that are none of the exchange's on c.
LEMMA StageKept ==
    ASSUME NEW c \in Conn, Stage(c), tcp'[c].mem = tcp[c].mem, tcp'[c].state = tcp[c].state,
           tcp'[c].ack_number = tcp[c].ack_number, sock'[c].mem = sock[c].mem, got'[c] = got[c],
           call = On("connect", c) => \/ call' = On("connect", c)
                                      \/ tcp[c].state = "ESTABLISHED",
           call' = On("disconnect", c) <=> call = On("disconnect", c)
    PROVE  Stage(c)'
  BY DEF Stage

\* On an orderly network only the calls' own states matter to a connection.
LEMMA OrderKept ==
    ASSUME OrderInv, mode = "ok", mode' = "ok", UNCHANGED <<remote, orderly, got>>,
           \A c \in Conn :
              /\ tcp'[c].mem = tcp[c].mem /\ tcp'[c].state = tcp[c].state
              /\ tcp'[c].ack_number = tcp[c].ack_number /\ sock'[c].mem = sock[c].mem
              /\ sock'[c].num_bytes_received > 0 => sock[c].num_bytes_received > 0
              /\ tcp[c].recv => tcp'[c].recv
              /\ sent'[c] > 0 => sent[c] > 0 \/ tcp'[c].recv
              /\ orderly /\ call = On("connect", c) =>
                     call' = On("connect", c) \/ tcp[c].state = "ESTABLISHED"
              /\ call' = On("disconnect", c) <=> call = On("disconnect", c)
    PROVE  OrderInv'
  <1>1. ASSUME NEW c \in Conn, orderly, Exclusive(c)'
        PROVE  Stage(c)' /\ Begun(c)'
    <2>1. Exclusive(c)
      BY <1>1, ExclusiveBack
    <2>2. Stage(c) /\ Begun(c)
      BY <1>1, <2>1 DEF OrderInv
    <2>3. got'[c] = got[c]
      OBVIOUS
    <2>4. Stage(c)'
      BY <1>1, <2>2, <2>3, StageKept
    <2>. QED
      BY <2>2, <2>3, <2>4 DEF Begun
  <1>2. \A c \in Conn : sent'[c] > 0 => tcp'[c].recv
    BY DEF OrderInv
  <1>. QED
    BY <1>1, <1>2 DEF OrderInv

\* Where a call would use what is freed, the network is not orderly or servers
\* are shared.
LEMMA OrderStray ==
    ASSUME TableInv, OrderInv, NEW c \in Conn, tcp[c].mem = "freed", sock[c].mem = "live",
           mode = "ok", Stray, UNCHANGED History
    PROVE  OrderInv'
  <1>1. UNCHANGED <<tcp, sock, call, remote, orderly, got, sent>> /\ mode' = "stray"
    BY DEF Stray, History
  <1>2. ~ (orderly /\ Exclusive(c))
    BY DEF OrderInv, Stage
  <1>3. ~ (orderly /\ Distinct)
    BY <1>2 DEF Distinct, Exclusive
  <1>. QED
    BY <1>1, <1>3 DEF OrderInv, Distinct

LEMMA OrderConnect ==
    ASSUME TableInv, OrderInv, NEW c \in Conn, sys_sock_connect(c)
    PROVE  OrderInv'
  <1>1. /\ tcp[c].mem = "none" /\ call = Idle /\ mode = "ok" /\ mode' = "ok"
        /\ tcp' = [tcp EXCEPT ![c].mem = "bound", ![c].state = "SYN_SENT"]
        /\ sock' = [sock EXCEPT ![c].mem = "live"]
        /\ call' = On("connect", c)
        /\ UNCHANGED <<remote, orderly, got, sent>>
    BY DEF sys_sock_connect, Quiet, History
  <1>2. tcp \in [Conn -> Tcps] /\ sock \in [Conn -> Socks]
    BY DEF TableInv, TypeOK
  <1>3. /\ tcp'[c].mem = "bound" /\ tcp'[c].state = "SYN_SENT" /\ tcp'[c].recv = tcp[c].recv
        /\ \A e \in Conn \ {c} : tcp'[e] = tcp[e] /\ sock'[e] = sock[e]
        /\ sock'[c].num_bytes_received = sock[c].num_bytes_received
    BY <1>1, <1>2 DEF Tcps, Socks
  <1>4. ASSUME NEW e \in Conn, orderly, Exclusive(e)'
        PROVE  Stage(e)' /\ Begun(e)'
    <2>1. Exclusive(e)
      BY <1>1, <1>3, <1>4, ExclusiveBack
    <2>2. Stage(e) /\ Begun(e)
      BY <1>1, <1>4, <2>1 DEF OrderInv
    <2>3. CASE e = c
      BY <1>1, <1>3, <2>2, <2>3 DEF Stage, Begun
    <2>4. CASE e # c
      <3>1. call # On("connect", e) /\ call # On("disconnect", e) /\ call' # On("disconnect", e)
        BY <1>1 DEF On, Idle
      <3>2. got'[e] = got[e] /\ tcp'[e] = tcp[e] /\ sock'[e] = sock[e]
        BY <1>1, <1>3, <2>4
      <3>3. Stage(e)'
        BY <2>2, <3>1, <3>2, StageKept
      <3>. QED
        BY <2>2, <3>2, <3>3 DEF Begun
    <2>. QED
      BY <2>3, <2>4
  <1>5. \A e \in Conn : sent'[e] > 0 => tcp'[e].recv
    BY <1>1, <1>3 DEF OrderInv
  <1>. QED
    BY <1>1, <1>4, <1>5 DEF OrderInv, Distinct

LEMMA OrderSend ==
    ASSUME TableInv, OrderInv, NEW c \in Conn, sys_sock_send(c)
    PROVE  OrderInv'
  <1>1. In(sockets, c) /\ mode = "ok" /\ ConnOK(c) /\ tcp \in [Conn -> Tcps]
    BY DEF TableInv, TypeOK, sys_sock_send, Quiet
  <1>2. sock[c].mem = "live" /\ tcp[c].recv
    BY <1>1 DEF ConnOK
  <1>3. CASE tcp[c].mem = "freed"
    BY <1>1, <1>2, <1>3, OrderStray DEF sys_sock_send
  <1>4. CASE tcp[c].mem # "freed"
    <2>1. /\ tcp' = [tcp EXCEPT ![c].sequence_number = @ + 1]
          /\ sent' = [sent EXCEPT ![c] = @ + 1]
          /\ UNCHANGED <<sock, call, mode, remote, orderly, got>>
      BY <1>4 DEF sys_sock_send
    <2>2. \A e \in Conn : /\ tcp'[e].mem = tcp[e].mem /\ tcp'[e].state = tcp[e].state
                          /\ tcp'[e].ack_number = tcp[e].ack_number /\ tcp'[e].recv = tcp[e].recv
      BY <1>1, <2>1 DEF Tcps
    <2>3. \A e \in Conn \ {c} : sent'[e] = sent[e]
      BY <2>1 DEF TableInv, TypeOK
    <2>. QED
      BY <1>1, <1>2, <2>1, <2>2, <2>3, OrderKept
  <1>. QED
    BY <1>3, <1>4

LEMMA OrderDisconnect ==
    ASSUME TableInv, OrderInv, NEW c \in Conn, sys_sock_disconnect(c)
    PROVE  OrderInv'
  <1>1. /\ In(sockets, c) /\ mode = "ok" /\ ConnOK(c) /\ call = Idle
        /\ tcp \in [Conn -> Tcps] /\ (orderly => got[c] = MaxData + 1)
    BY DEF TableInv, TypeOK, sys_sock_disconnect, Quiet, Answered
  <1>2. sock[c].mem = "live"
    BY <1>1 DEF ConnOK
  <1>3. CASE tcp[c].mem = "freed"
    BY <1>1, <1>2, <1>3, OrderStray DEF sys_sock_disconnect
  <1>4. CASE tcp[c].mem # "freed"
    <2>1. /\ tcp' = [tcp EXCEPT ![c].state = "FIN_WAIT1"] /\ call' = On("disconnect", c)
          /\ UNCHANGED <<sock, mode, remote, orderly, got, sent>>
      BY <1>4 DEF sys_sock_disconnect, History
    <2>2. /\ \A e \in Conn : tcp'[e].mem = tcp[e].mem /\ tcp'[e].recv = tcp[e].recv
          /\ \A e \in Conn \ {c} : tcp'[e] = tcp[e]
          /\ tcp'[c].state = "FIN_WAIT1"
      BY <1>1, <2>1 DEF Tcps
    <2>3. ASSUME NEW e \in Conn, orderly, Exclusive(e)'
          PROVE  Stage(e)' /\ Begun(e)'
      <3>1. Exclusive(e)
        BY <2>1, <2>2, <2>3, ExclusiveBack
      <3>2. Stage(e) /\ Begun(e)
        BY <1>1, <2>3, <3>1 DEF OrderInv
      <3>3. call # On("connect", e) /\ call # On("disconnect", e)
        BY <1>1 DEF On, Idle
      <3>4. CASE e = c
        <4>1. tcp[c].mem = "bound" /\ got'[c] = MaxData + 1
          BY <1>1, <1>2, <1>4, <2>1, <2>3 DEF ConnOK, TableInv, TypeOK, Tcps
        <4>. QED
          BY <2>1, <2>2, <3>2, <3>4, <4>1 DEF Stage, Begun
      <3>5. CASE e # c
        <4>1. got'[e] = got[e] /\ tcp'[e] = tcp[e] /\ sock'[e] = sock[e] /\ call' # On("disconnect", e)
          BY <2>1, <2>2, <3>5 DEF On
        <4>2. Stage(e)'
          BY <3>2, <3>3, <4>1, StageKept
        <4>. QED
          BY <3>2, <4>1, <4>2 DEF Begun
      <3>. QED
        BY <3>4, <3>5
    <2>4. \A e \in Conn : sent'[e] > 0 => tcp'[e].recv
      BY <2>1, <2>2 DEF OrderInv
    <2>. QED
      BY <1>1, <2>1, <2>3, <2>4 DEF OrderInv, Distinct
  <1>. QED
    BY <1>3, <1>4

LEMMA OrderDisconnected ==
    ASSUME TableInv, OrderInv, Disconnected
    PROVE  OrderInv'
  <1>. DEFINE c == call.conn
  <1>1. TypeOK /\ call.op = "disconnect" /\ mode = "ok" /\ tcp \in [Conn -> Tcps] /\ sock \in [Conn -> Socks]
    BY DEF TableInv, TypeOK, Disconnected
  <1>2. c \in Conn /\ call # Idle /\ call = On("disconnect", c)
    BY <1>1, CallIs DEF Idle
  <1>3. sock[c].mem = "live"
    <2>1. ConnOK(c)
      BY <1>2 DEF TableInv
    <2>. QED
      BY <1>1, <1>2, <2>1 DEF ConnOK, Making, Opening
  <1>. HIDE DEF c
  <1>4. CASE tcp[c].mem = "freed"
    BY <1>1, <1>2, <1>3, <1>4, OrderStray DEF Disconnected, c
  <1>5. CASE tcp[c].mem # "freed"
    <2>1. /\ tcp' = [tcp EXCEPT ![c].sequence_number = @ + 1]
          /\ sock' = [sock EXCEPT ![c].mem = "freed"]
          /\ call' = Idle
          /\ UNCHANGED <<mode, remote, orderly, got, sent>>
      BY <1>5 DEF Disconnected, c, History
    <2>2. /\ \A e \in Conn : /\ tcp'[e].mem = tcp[e].mem /\ tcp'[e].state = tcp[e].state
                             /\ tcp'[e].ack_number = tcp[e].ack_number /\ tcp'[e].recv = tcp[e].recv
          /\ sock'[c].mem = "freed" /\ \A e \in Conn \ {c} : sock'[e].mem = sock[e].mem
          /\ \A e \in Conn : sock'[e].num_bytes_received = sock[e].num_bytes_received
      BY <1>1, <1>2, <2>1 DEF Tcps, Socks
    <2>3. ASSUME NEW e \in Conn, orderly, Exclusive(e)'
          PROVE  Stage(e)' /\ Begun(e)'
      <3>1. Exclusive(e)
        BY <2>1, <2>2, <2>3, ExclusiveBack
      <3>2. Stage(e) /\ Begun(e)
        BY <1>1, <2>3, <3>1 DEF OrderInv
      <3>3. call # On("connect", e) /\ call' # On("disconnect", e)
        BY <1>1, <2>1 DEF On, Idle
      <3>4. CASE e = c
        <4>1. tcp[c].state = "FIN_WAIT1" /\ tcp[c].mem = "bound" /\ got[c] = MaxData + 1
          <5>1. tcp[c].mem # "none"
            BY <1>2, <1>3 DEF TableInv, ConnOK
          <5>. QED
            BY <1>2, <1>3, <3>2, <3>3, <3>4, <5>1 DEF Stage
        <4>. QED
          BY <2>1, <2>2, <3>2, <3>4, <4>1 DEF Stage, Begun
      <3>5. CASE e # c
        <4>1. call # On("disconnect", e)
          BY <3>5 DEF On, c
        <4>2. got'[e] = got[e]
          BY <2>1
        <4>3. Stage(e)'
          BY <2>2, <3>2, <3>3, <3>5, <4>1, <4>2, StageKept
        <4>. QED
          BY <2>2, <3>2, <4>2, <4>3 DEF Begun
      <3>. QED
        BY <3>4, <3>5
    <2>4. \A e \in Conn : sent'[e] > 0 => tcp'[e].recv
      BY <2>1, <2>2 DEF OrderInv
    <2>. QED
      BY <1>1, <2>1, <2>3, <2>4 DEF OrderInv, Distinct
  <1>. QED
    BY <1>4, <1>5

\* The other steps of calls.
LEMMA OrderCalls ==
    ASSUME TableInv, OrderInv,
           \/ tcp_wait_established \/ Attach \/ RecvTimeout \/ RecvCopied \/ RecvStore \/ RecvMove
           \/ \E c \in Conn : sys_sock_recv(c)
           \/ \E size \in 1 .. MaxRead : RecvCopy(size)
    PROVE  OrderInv'
  <1>1. TypeOK /\ tcp \in [Conn -> Tcps] /\ sock \in [Conn -> Socks]
    BY DEF TableInv, TypeOK
  <1>2. ASSUME mode = "ok", mode' = "ok", UNCHANGED <<remote, orderly, got, sent>>,
               call'.op # "disconnect", call.op # "disconnect",
               \A c \in Conn :
                  /\ tcp'[c].mem = tcp[c].mem /\ tcp'[c].state = tcp[c].state
                  /\ tcp'[c].ack_number = tcp[c].ack_number /\ sock'[c].mem = sock[c].mem
                  /\ sock'[c].num_bytes_received > 0 => sock[c].num_bytes_received > 0
                  /\ tcp[c].recv => tcp'[c].recv,
               call.op = "connect" /\ orderly => tcp[call.conn].state = "ESTABLISHED"
        PROVE  OrderInv'
    <2>1. \A c \in Conn : call # On("disconnect", c) /\ call' # On("disconnect", c)
      BY <1>2 DEF On
    <2>2. \A c \in Conn : orderly /\ call = On("connect", c) => tcp[c].state = "ESTABLISHED"
      BY <1>2 DEF On
    <2>. QED
      BY <1>2, <2>1, <2>2, OrderKept
  <1>3. CASE tcp_wait_established
    <2>1. /\ call.op = "connect" /\ (orderly => tcp[call.conn].state = "ESTABLISHED")
          /\ mode = "ok" /\ UNCHANGED <<tcp, sock, mode, remote, orderly, got, sent>>
          /\ call'.op = "attach"
      BY <1>3 DEF tcp_wait_established, History, On
    <2>. QED
      BY <1>2, <2>1
  <1>4. CASE Attach
    <2>. DEFINE c == call.conn
    <2>1. call.op = "attach" /\ mode = "ok"
      BY <1>4 DEF Attach
    <2>2. c \in Conn
      BY <1>1, <2>1, CallIs DEF Idle
    <2>3. CASE tcp[c].mem = "freed"
      <3>1. sock[c].mem = "live"
        BY <2>1, <2>2 DEF TableInv, ConnOK, Making, Opening
      <3>. QED
        BY <1>4, <2>1, <2>2, <2>3, <3>1, OrderStray DEF Attach
    <2>4. CASE tcp[c].mem # "freed"
      <3>1. /\ tcp' = [tcp EXCEPT ![c].recv = TRUE] /\ call' = Idle
            /\ UNCHANGED <<sock, mode, remote, orderly, got, sent>>
        BY <1>4, <2>4 DEF Attach, History
      <3>. HIDE DEF c
      <3>2. \A e \in Conn : /\ tcp'[e].mem = tcp[e].mem /\ tcp'[e].state = tcp[e].state
                            /\ tcp'[e].ack_number = tcp[e].ack_number
                            /\ tcp[e].recv => tcp'[e].recv
        BY <1>1, <2>2, <3>1 DEF Tcps
      <3>3. call'.op = "none"
        BY <3>1 DEF Idle
      <3>. QED
        BY <1>2, <2>1, <3>1, <3>2, <3>3
    <2>. QED
      BY <2>3, <2>4
  <1>5. CASE RecvTimeout
    BY <1>2, <1>5 DEF RecvTimeout, Idle, History
  <1>6. ASSUME NEW c \in Conn, sys_sock_recv(c)
        PROVE  OrderInv'
    BY <1>2, <1>6 DEF sys_sock_recv, Quiet, Idle, On, History
  <1>7. ASSUME NEW size \in 1 .. MaxRead, RecvCopy(size)
        PROVE  OrderInv'
    <2>1. /\ call.op = "recv" /\ call'.op = "copy" /\ mode = "ok"
          /\ UNCHANGED <<tcp, sock, mode, remote, orderly, got, sent>>
      BY <1>7 DEF RecvCopy, History
    <2>. QED
      BY <1>2, <2>1
  <1>10. CASE RecvCopied
    <2>1. /\ call.op = "copy" /\ call'.op = "store" /\ mode = "ok"
          /\ UNCHANGED <<tcp, sock, mode, remote, orderly, got, sent>>
      BY <1>10 DEF RecvCopied
    <2>. QED
      BY <1>2, <2>1
  <1>8. CASE RecvStore
    <2>1. /\ call.op = "store" /\ mode = "ok" /\ UNCHANGED <<tcp, mode, remote, orderly, got, sent>>
          /\ call' = [call EXCEPT !.op = "move"]
          /\ sock' = [sock EXCEPT ![call.conn].num_bytes_received = call.left]
      BY <1>8 DEF RecvStore, History
    <2>2. call'.op = "move"
      BY <1>1, <2>1, CallIs DEF Reading
    <2>3. \A e \in Conn : sock'[e].mem = sock[e].mem
      BY <1>1, <2>1 DEF Socks
    <2>4. \A e \in Conn : sock'[e].num_bytes_received > 0 => sock[e].num_bytes_received > 0
      <3>. DEFINE c == call.conn
      <3>1. c \in Conn /\ call.left \in Nat /\ call.n \in Nat \ {0}
        BY <1>1, <2>1, CallIs DEF Idle, Reading
      <3>2. call.left + call.n <= sock[c].num_bytes_received /\ sock[c].num_bytes_received \in Nat
        BY <1>1, <2>1, <3>1 DEF TableInv, BufferOK, Socks
      <3>3. sock[c].num_bytes_received > 0
        BY <3>1, <3>2
      <3>. HIDE DEF c
      <3>4. \A e \in Conn \ {c} : sock'[e] = sock[e]
        BY <1>1, <2>1 DEF c
      <3>. QED
        BY <3>3, <3>4
    <2>. QED
      BY <1>2, <2>1, <2>2, <2>3, <2>4
  <1>9. CASE RecvMove
    <2>. DEFINE c == call.conn
                data == Moved(sock[c].received_data, call.n, call.left)
                          \o SubSeq(sock[c].received_data, call.left + 1, sock[c].num_bytes_received)
    <2>1. /\ call.op = "move" /\ mode = "ok" /\ UNCHANGED <<tcp, mode, remote, orderly, got, sent>>
          /\ call' = Idle
          /\ sock' = [sock EXCEPT ![c].received_data = data]
      BY <1>9 DEF RecvMove, History
    <2>. HIDE DEF c, data
    <2>2. call'.op = "none"
      BY <2>1 DEF Idle
    <2>3. \A e \in Conn : /\ sock'[e].mem = sock[e].mem
                          /\ sock'[e].num_bytes_received = sock[e].num_bytes_received
      BY <1>1, <2>1 DEF Socks
    <2>. QED
      BY <1>2, <2>1, <2>2, <2>3
  <1>. QED
    BY <1>3, <1>4, <1>5, <1>6, <1>7, <1>8, <1>9, <1>10

\* A segment changes the connection it is for, if that is alone with its
\* remote end.
LEMMA HandlerTarget ==
    ASSUME TableInv, NEW c \in Conn, NEW s \in Arriving(c), Matching(s) # {},
           NEW e \in Conn, Exclusive(e), e = c \/ e = binds[First(Matching(s))]
    PROVE  e = c /\ e = binds[First(Matching(s))]
  <1>. DEFINE d == binds[First(Matching(s))]
  <1>1. d \in Conn /\ In(binds, d) /\ remote[d] = remote[s.to] /\ s.to = c /\ tcp[c].mem # "none"
    BY MatchedBind, SegmentIs DEF TableInv
  <1>2. tcp[d].mem # "none"
    BY <1>1 DEF TableInv, ConnOK
  <1>. HIDE DEF d
  <1>3. c = d
    BY <1>1, <1>2 DEF Exclusive, d
  <1>. QED
    BY <1>3 DEF d

\* An exchange takes its turns: each segment of the peer finds the connection
\* in the stage it is meant for.
LEMMA StageTurn ==
    ASSUME TableInv, OrderInv, NEW c \in Conn, NEW s \in Arriving(c), tcp_ipv4_recv(s),
           orderly, Exclusive(c)
    PROVE  \/ Stage(c)' /\ Begun(c)' /\ mode' = "ok"
           \/ Overtaken' /\ call.conn = c
  <1>1. /\ TypeOK /\ s = Turn(c) /\ ItsTurn(c) /\ tcp[c].mem # "none" /\ s.to = c /\ Stage(c) /\ Begun(c) /\ mode = "ok"
        /\ got[c] \in Nat /\ MaxData \in Nat /\ tcp \in [Conn -> Tcps] /\ sock \in [Conn -> Socks]
    BY SegmentIs, SocketsAssumption DEF TableInv, TypeOK, OrderInv, tcp_ipv4_recv
  <1>2. tcp[c].mem = "bound"
    BY <1>1 DEF Stage, ItsTurn
  <1>3. Matching(s) # {}
    <2>1. In(binds, c)
      BY <1>2 DEF TableInv, ConnOK
    <2>2. PICK i \in DOMAIN binds : binds[i] = c
      BY <2>1 DEF In
    <2>3. i \in Matching(s)
      BY <1>1, <2>2, SocketsAssumption DEF Matching
    <2>. QED
      BY <2>3
  <1>4. c = binds[First(Matching(s))]
    BY <1>3, HandlerTarget
  <1>5. /\ \/ RecvSyn(c, s) \/ RecvSynAck(c, s) \/ RecvFin(c, s)
           \/ RecvAck(c, s) \/ RecvOther(c, s)
        /\ mode = "ok" /\ call' = call
        /\ got'[c] = got[c] + 1
    BY <1>1, <1>3, <1>4 DEF tcp_ipv4_recv, TypeOK
  <1>6. CASE tcp[c].state = "SYN_SENT"
    <2>1. got[c] = 0 /\ call = On("connect", c)
      BY <1>2, <1>6, <1>1 DEF Stage
    <2>2. s = Segment(c, {"SYN", "ACK"}, Isn, Padding)
      <3>1. ~ (got[c] \in 1 .. MaxData) /\ got[c] # MaxData + 1
        BY <1>1, <2>1
      <3>. QED
        BY <1>1, <2>1, <3>1 DEF Turn
    <2>3. s.flags = {"SYN", "ACK"} /\ s.seq = Isn
      BY <2>2, SegmentFields, Words
    <2>4. Kind(s) = {"SYN", "ACK"}
      BY <2>3 DEF Kind
    <2>5. RecvSynAck(c, s)
      BY <1>5, <1>6, <2>4 DEF RecvSyn, RecvFin, RecvAck, RecvOther
    <2>6. /\ tcp' = [tcp EXCEPT ![c].state = "ESTABLISHED", ![c].est = TRUE,
                          ![c].ack_number = Next32(s.seq),
                          ![c].sequence_number = @ + 1]
          /\ sock' = sock /\ mode' = mode
      BY <2>5 DEF RecvSynAck, Keep
    <2>7. /\ tcp'[c].state = "ESTABLISHED" /\ tcp'[c].mem = "bound" /\ tcp'[c].recv = tcp[c].recv
          /\ tcp'[c].ack_number = Next32(s.seq)
      BY <1>1, <1>2, <2>6 DEF Tcps
    <2>8. Next32(s.seq) = (Isn + got'[c]) % Word
      <3>1. Next32(Isn % Word) = (Isn + 1) % Word
        BY Words, NextMod
      <3>. QED
        BY <1>5, <2>1, <2>3, <3>1, Words
    <2>9. sock[c].mem = "live"
      <3>1. ConnOK(c) /\ Making(c)
        BY <2>1 DEF TableInv, Making, On, Opening
      <3>. QED
        BY <3>1 DEF ConnOK
    <2>10. call' # On("disconnect", c) /\ got'[c] \in 1 .. MaxData + 1
      BY <1>1, <1>5, <2>1 DEF On
    <2>11. Stage(c)'
      BY <1>2, <2>6, <2>7, <2>8, <2>9, <2>10 DEF Stage
    <2>12. Begun(c)'
      BY <1>1, <1>5, <2>1, <2>6 DEF Begun, Socks
    <2>. QED
      BY <1>5, <2>6, <2>11, <2>12
  <1>7. CASE tcp[c].state = "ESTABLISHED"
    <2>1. /\ got[c] \in 1 .. MaxData + 1 /\ sock[c].mem = "live" /\ call # On("disconnect", c)
          /\ tcp[c].ack_number = (Isn + got[c]) % Word
      BY <1>1, <1>2, <1>7 DEF Stage
    <2>2. got[c] \in 1 .. MaxData /\ tcp[c].recv
      BY <1>1, <2>1 DEF ItsTurn, OrderInv
    <2>3. s = Segment(c, {"ACK", "PSH"}, Isn + got[c], <<c, got[c]>>)
      BY <1>1, <2>2 DEF Turn
    <2>4. s.flags = {"ACK", "PSH"} /\ s.seq = (Isn + got[c]) % Word
      BY <2>3, SegmentFields
    <2>5. Kind(s) = {"ACK"} /\ s.flags # {"ACK"}
      BY <2>4 DEF Kind
    <2>6. Deliver(c, s)
      <3>1. RecvAck(c, s)
        BY <1>5, <2>5 DEF RecvSyn, RecvSynAck, RecvFin, RecvOther
      <3>. QED
        BY <1>7, <2>1, <2>4, <2>5, <3>1 DEF RecvAck, RecvData, InOrder
    <2>0. CASE mode' # "ok"
      <3>1. mode' = "stray" /\ MayBeHeld(c)
        BY <1>5, <2>0, <2>1, <2>2, <2>6 DEF Deliver
      <3>2. call.conn = c /\ call.op \in {"copy", "store", "move"} /\ sock[c].num_bytes_received > 0
        <4>1. /\ call.conn = c /\ call.op \in {"copy", "store", "move"}
              /\ call.op # "copy" => call.left > 0
          BY <3>1 DEF MayBeHeld, Held
        <4>2. sock[c].num_bytes_received \in Nat /\ BufferOK
          BY <1>1 DEF Socks, TableInv
        <4>3. CASE call.op = "copy"
          BY <1>1, <4>1, <4>2, <4>3, CallIs DEF BufferOK
        <4>4. CASE call.op \in {"store", "move"}
          <5>1. call.left \in Nat /\ call.n \in Nat
            BY <1>1, <4>4, CallIs DEF Reading
          <5>. QED
            BY <4>1, <4>2, <4>4, <5>1 DEF BufferOK
        <4>. QED
          BY <4>1, <4>3, <4>4
      <3>3. got[c] > 1
        BY <1>1, <3>2 DEF Begun
      <3>4. got'[c] > 2
        BY <1>1, <1>5, <3>3
      <3>. QED
        BY <1>5, <3>1, <3>2, <3>4 DEF Overtaken
    <2>. SUFFICES ASSUME mode' = "ok" PROVE Stage(c)' /\ Begun(c)'
      BY <2>0
    <2>7. /\ mode' = mode /\ tcp' = [tcp EXCEPT ![c].ack_number = Next32(tcp[c].ack_number)]
      BY <1>5, <2>1, <2>2, <2>6 DEF Deliver, Acknowledged
    <2>8. sock'[c].mem = "live"
      <3>1. s.data \in Unit
        BY <1>1, SegmentIs
      <3>. QED
        BY <1>5, <2>1, <2>6, <2>7, <3>1, DeliverIs
    <2>9. /\ tcp'[c].state = "ESTABLISHED" /\ tcp'[c].mem = "bound" /\ tcp'[c].recv = tcp[c].recv
          /\ tcp'[c].ack_number = Next32(tcp[c].ack_number)
      BY <1>1, <1>2, <1>7, <2>7 DEF Tcps
    <2>10. tcp'[c].ack_number = (Isn + got'[c]) % Word
      <3>1. Isn + got[c] \in Nat /\ Isn + got'[c] = (Isn + got[c]) + 1
        BY <1>1, <1>5, Words
      <3>2. Next32((Isn + got[c]) % Word) = ((Isn + got[c]) + 1) % Word
        BY <3>1, NextMod
      <3>. QED
        BY <2>1, <2>9, <3>1, <3>2
    <2>11. got'[c] \in 1 .. MaxData + 1 /\ call' # On("disconnect", c)
      BY <1>1, <1>5, <2>1, <2>2
    <2>12. Stage(c)'
      BY <2>8, <2>9, <2>10, <2>11 DEF Stage
    <2>13. Begun(c)'
      BY <1>1, <1>5, <2>2 DEF Begun
    <2>. QED
      BY <2>12, <2>13
  <1>8. CASE tcp[c].state = "FIN_WAIT1"
    <2>1. got[c] = MaxData + 1
      BY <1>1, <1>2, <1>8 DEF Stage
    <2>2. sock[c].mem = "freed"
      BY <1>1, <2>1 DEF ItsTurn
    <2>3. s = Segment(c, {"ACK"}, Isn + 1 + MaxData, Padding)
      BY <1>1, <2>1 DEF Turn
    <2>4. Kind(s) = {"ACK"}
      BY <2>3, SegmentFields DEF Kind
    <2>5. tcp' = [tcp EXCEPT ![c].state = "FIN_WAIT2"] /\ sock' = sock /\ mode' = mode
      <3>1. RecvAck(c, s)
        BY <1>5, <2>4 DEF RecvSyn, RecvSynAck, RecvFin, RecvOther
      <3>. QED
        BY <1>8, <3>1 DEF RecvAck, Keep
    <2>6. tcp'[c].state = "FIN_WAIT2" /\ tcp'[c].mem = "bound" /\ tcp'[c].recv = tcp[c].recv
      BY <1>1, <1>2, <2>5 DEF Tcps
    <2>7. got'[c] = MaxData + 2
      BY <1>1, <1>5, <2>1
    <2>8. Stage(c)'
      BY <2>2, <2>5, <2>6, <2>7 DEF Stage
    <2>9. Begun(c)'
      BY <1>1, <1>5, <2>5 DEF Begun, Socks
    <2>. QED
      BY <1>5, <2>5, <2>8, <2>9
  <1>9. CASE tcp[c].state = "FIN_WAIT2"
    <2>1. got[c] = MaxData + 2 /\ sock[c].mem = "freed"
      BY <1>1, <1>2, <1>9 DEF Stage
    <2>2. s = Segment(c, {"FIN", "ACK"}, Isn + 1 + MaxData, Padding)
      <3>1. got[c] # 0 /\ ~ (got[c] \in 1 .. MaxData) /\ got[c] # MaxData + 1
        BY <1>1, <2>1
      <3>. QED
        BY <1>1, <2>1, <3>1 DEF Turn
    <2>3. Kind(s) = {"FIN", "ACK"}
      BY <2>2, SegmentFields DEF Kind
    <2>4. Close(c)
      <3>1. RecvFin(c, s)
        BY <1>5, <2>3 DEF RecvSyn, RecvSynAck, RecvAck, RecvOther
      <3>. QED
        BY <1>9, <3>1 DEF RecvFin
    <2>5. tcp' = [tcp EXCEPT ![c].state = "CLOSED", ![c].mem = "freed"] /\ sock' = sock /\ mode' = mode
      BY <2>4 DEF Close
    <2>6. tcp'[c].mem = "freed" /\ tcp'[c].recv = tcp[c].recv
      BY <1>1, <2>5 DEF Tcps
    <2>7. got'[c] = MaxData + 3
      BY <1>1, <1>5, <2>1
    <2>8. Stage(c)'
      BY <2>1, <2>5, <2>6, <2>7 DEF Stage
    <2>9. Begun(c)'
      BY <1>1, <1>5, <2>5 DEF Begun, Socks
    <2>. QED
      BY <1>5, <2>5, <2>8, <2>9
  <1>. QED
    BY <1>1, <1>2, <1>6, <1>7, <1>8, <1>9 DEF Stage

\* What a segment leaves alone.
LEMMA HandlerOthers ==
    ASSUME TableInv, NEW c \in Conn, NEW s \in Arriving(c), tcp_ipv4_recv(s)
    PROVE  /\ \A e \in Conn : /\ tcp[e].mem # "none" => tcp'[e].mem # "none"
                              /\ tcp'[e].recv = tcp[e].recv
                              /\ sock'[e].mem = sock[e].mem
                              /\ e # c => got'[e] = got[e]
                              /\ ~orderly => got'[e] = got[e]
           /\ \A e \in Conn : \/ tcp'[e] = tcp[e] /\ sock'[e] = sock[e] /\ odd'[e] = odd[e]
                              \/ Matching(s) # {} /\ e = binds[First(Matching(s))]
  <1>1. /\ TypeOK /\ mode = "ok" /\ s.to = c /\ s.data \in Unit
        /\ tcp \in [Conn -> Tcps] /\ sock \in [Conn -> Socks] /\ got \in [Conn -> Nat]
        /\ odd \in [Conn -> SUBSET {"padding", "uncounted"}]
    BY HandlerCases, SegmentIs DEF TableInv, TypeOK
  <1>2. \A e \in Conn : (e # c => got'[e] = got[e]) /\ (~orderly => got'[e] = got[e])
    <2>1. got' = [got EXCEPT ![c] = IF orderly THEN got[c] + 1 ELSE got[c]]
      BY <1>1, HandlerCases
    <2>. QED
      BY <1>1, <2>1
  <1>3. CASE UNCHANGED <<tcp, sock, binds, odd, mode>>
    BY <1>2, <1>3
  <1>4. ASSUME NEW d \in Conn, Matching(s) # {}, d = binds[First(Matching(s))], tcp[d].mem = "bound",
               \/ Close(d)
               \/ RecvSynAck(d, s)
               \/ /\ tcp[d].state = "ESTABLISHED"
                  /\ tcp' = [tcp EXCEPT ![d].state = "CLOSE_WAIT",
                                        ![d].ack_number = Next32(tcp[d].ack_number)]
                  /\ Keep
               \/ /\ tcp[d].state = "FIN_WAIT1"
                  /\ tcp' = [tcp EXCEPT ![d].state = "FIN_WAIT2"]
                  /\ Keep
               \/ Deliver(d, s)
        PROVE  /\ \A e \in Conn : /\ tcp[e].mem # "none" => tcp'[e].mem # "none"
                                  /\ tcp'[e].recv = tcp[e].recv /\ sock'[e].mem = sock[e].mem
               /\ \A e \in Conn \ {d} : tcp'[e] = tcp[e] /\ sock'[e] = sock[e] /\ odd'[e] = odd[e]
    <2>1. CASE Close(d)
      BY <1>1, <1>4, <2>1 DEF Close, Tcps
    <2>2. CASE RecvSynAck(d, s)
      <3>1. /\ tcp' = [tcp EXCEPT ![d].state = "ESTABLISHED", ![d].est = TRUE,
                          ![d].ack_number = Next32(s.seq),
                          ![d].sequence_number = @ + 1]
            /\ UNCHANGED <<sock, odd>>
        BY <2>2 DEF RecvSynAck, Keep
      <3>. QED
        BY <1>1, <1>4, <3>1 DEF Tcps
    <2>3. CASE /\ tcp' = [tcp EXCEPT ![d].state = "CLOSE_WAIT",
                                     ![d].ack_number = Next32(tcp[d].ack_number)]
               /\ Keep
      BY <1>1, <1>4, <2>3 DEF Keep, Tcps
    <2>4. CASE tcp' = [tcp EXCEPT ![d].state = "FIN_WAIT2"] /\ Keep
      BY <1>1, <1>4, <2>4 DEF Keep, Tcps
    <2>5. CASE Deliver(d, s) /\ mode' = "ok"
      <3>1. /\ sock'[d].mem = sock[d].mem /\ \A e \in Conn \ {d} : sock'[e] = sock[e]
            /\ tcp' = [tcp EXCEPT ![d].ack_number = Next32(tcp[d].ack_number)]
            /\ odd' = [odd EXCEPT ![d] = odd[d] \cup Spoilt(d, s)]
        BY <1>1, <2>5, DeliverIs
      <3>2. \A e \in Conn \ {d} : odd'[e] = odd[e]
        BY <1>1, <3>1
      <3>3. /\ \A e \in Conn : tcp'[e].mem = tcp[e].mem /\ tcp'[e].recv = tcp[e].recv
            /\ \A e \in Conn \ {d} : tcp'[e] = tcp[e]
        BY <1>1, <3>1 DEF Tcps
      <3>. QED
        BY <3>1, <3>2, <3>3
    <2>6. CASE Deliver(d, s) /\ mode' # "ok"
      BY <1>1, <2>6 DEF Deliver
    <2>. QED
      BY <1>4, <2>1, <2>2, <2>3, <2>4, <2>5, <2>6
  <1>5. CASE ~ UNCHANGED <<tcp, sock, binds, odd, mode>>
    <2>1. PICK d \in Conn :
              /\ Matching(s) # {} /\ d = binds[First(Matching(s))] /\ tcp[d].mem = "bound"
              /\ \/ Close(d)
                 \/ RecvSynAck(d, s)
                 \/ /\ tcp[d].state = "ESTABLISHED"
                    /\ tcp' = [tcp EXCEPT ![d].state = "CLOSE_WAIT",
                                          ![d].ack_number = Next32(tcp[d].ack_number)]
                    /\ Keep
                 \/ /\ tcp[d].state = "FIN_WAIT1"
                    /\ tcp' = [tcp EXCEPT ![d].state = "FIN_WAIT2"]
                    /\ Keep
                 \/ Deliver(d, s)
      BY <1>5, HandlerCases
    <2>2. /\ \A e \in Conn : /\ tcp[e].mem # "none" => tcp'[e].mem # "none"
                              /\ tcp'[e].recv = tcp[e].recv /\ sock'[e].mem = sock[e].mem
          /\ \A e \in Conn \ {d} : tcp'[e] = tcp[e] /\ sock'[e] = sock[e] /\ odd'[e] = odd[e]
      BY <1>4, <2>1
    <2>. QED
      BY <1>2, <2>1, <2>2
  <1>. QED
    BY <1>3, <1>5

LEMMA OrderHandler ==
    ASSUME TableInv, OrderInv, NEW c \in Conn, NEW s \in Arriving(c), tcp_ipv4_recv(s)
    PROVE  OrderInv'
  <1>1. UNCHANGED <<remote, orderly, call, sent>> /\ mode = "ok"
    BY HandlerCases DEF tcp_ipv4_recv
  <1>2. \A e \in Conn : sent'[e] > 0 => tcp'[e].recv
    BY <1>1, HandlerOthers DEF OrderInv
  <1>3. ASSUME NEW e \in Conn, orderly, Exclusive(e)', mode' = "ok"
        PROVE  Stage(e)' /\ Begun(e)'
    <2>1. Exclusive(e)
      BY <1>1, <1>3, HandlerOthers, ExclusiveBack
    <2>2. CASE e = c
      BY <1>3, <2>1, <2>2, StageTurn DEF Overtaken
    <2>3. CASE e # c
      <3>1. ~ (Matching(s) # {} /\ e = binds[First(Matching(s))])
        BY <2>1, <2>3, HandlerTarget
      <3>2. tcp'[e] = tcp[e] /\ sock'[e] = sock[e] /\ got'[e] = got[e]
        BY <2>3, <3>1, HandlerOthers
      <3>3. Stage(e) /\ Begun(e)
        BY <1>1, <1>3, <2>1 DEF OrderInv
      <3>4. Stage(e)'
        BY <1>1, <3>2, <3>3, StageKept
      <3>. QED
        BY <3>2, <3>3, <3>4 DEF Begun
    <2>. QED
      BY <2>2, <2>3
  <1>4. orderly /\ Distinct => mode' = "ok" \/ Overtaken'
    <2>1. Distinct => Exclusive(c)
      BY DEF Distinct, Exclusive
    <2>. QED
      BY <2>1, StageTurn
  <1>. QED
    BY <1>1, <1>2, <1>3, <1>4 DEF OrderInv, Distinct

LEMMA OrderExit ==
    ASSUME TableInv, OrderInv, ProgramExits
    PROVE  OrderInv'
  <1>. DEFINE left == {c \in Conn : In(sockets, c)}
  <1>1. ~orderly /\ UNCHANGED <<orderly, sent>>
    BY DEF ProgramExits, History
  <1>2. \A e \in Conn : tcp'[e].recv = tcp[e].recv
    <2>1. CASE \E c \in left : tcp[c].mem = "freed"
      BY <2>1 DEF ProgramExits, Stray
    <2>2. CASE ~ \E c \in left : tcp[c].mem = "freed"
      <3>1. tcp' = [c \in Conn |->
                              IF c \in left
                              THEN [tcp[c] EXCEPT !.state = "FIN_WAIT1",
                                                  !.sequence_number = @ + 1]
                              ELSE tcp[c]]
        BY <2>2 DEF ProgramExits
      <3>. HIDE DEF left
      <3>2. \A e \in Conn : tcp[e] \in Tcps
        BY DEF TableInv, TypeOK
      <3>. QED
        BY <3>1, <3>2 DEF Tcps
    <2>. QED
      BY <2>1, <2>2
  <1>. QED
    BY <1>1, <1>2 DEF OrderInv

LEMMA OrderInit == Init => OrderInv
  BY DEF Init, OrderInv, Stage, Begun

LEMMA OrderNext == TableInv /\ OrderInv /\ [Next]_vars => OrderInv'
  <1>. SUFFICES ASSUME TableInv, OrderInv, [Next]_vars
                PROVE  OrderInv'
    OBVIOUS
  <1>1. CASE UNCHANGED vars
    <2>1. \A c \in Conn : /\ Stage(c)' <=> Stage(c)
                          /\ Begun(c)' <=> Begun(c)
                          /\ Exclusive(c)' <=> Exclusive(c)
      BY <1>1 DEF vars, Stage, Begun, Exclusive
    <2>2. (Distinct' <=> Distinct) /\ (Overtaken' <=> Overtaken)
      BY <1>1 DEF vars, Distinct, Overtaken
    <2>. QED
      BY <1>1, <2>1, <2>2 DEF vars, OrderInv
  <1>2. CASE CallStep
    BY <1>2, OrderCalls, OrderDisconnected DEF CallStep
  <1>3. CASE Arrive
    BY <1>3, OrderHandler DEF Arrive
  <1>4. CASE ProgramExits
    BY <1>4, OrderExit
  <1>5. ASSUME NEW c \in Conn,
               sys_sock_connect(c) \/ sys_sock_send(c) \/ sys_sock_recv(c) \/ sys_sock_disconnect(c)
        PROVE  OrderInv'
    BY <1>5, OrderConnect, OrderSend, OrderCalls, OrderDisconnect
  <1>. QED
    BY <1>1, <1>2, <1>3, <1>4, <1>5 DEF Next

\* The handler calls a missing callback only while socket_connect has not set
\* it; and a program that keeps to the order of request, answer and disconnect
\* with servers of its own and an orderly network meets freed memory only in a
\* memcpy of socket_recv, when the next segment of an answer comes meanwhile.
THEOREM SocketsFaultsAreConfined == Spec => []FaultsAreConfined
  <1>1. TableInv /\ OrderInv => FaultsAreConfined
    BY DEF TableInv, OrderInv, Overtaken, FaultsAreConfined, Opening
  <1>. QED
    BY <1>1, TableInit, TableNext, OrderInit, OrderNext, PTL DEF Spec

----------------------------------------------------------------------------
(* Numbers and units *)

\* What a segment leaves of connection e when it is not matched with it.
Untouched(e) == tcp'[e] = tcp[e] /\ sock'[e] = sock[e] /\ odd'[e] = odd[e]

\* Connection e takes a step of the protocol: the tcp_socket_t alone changes.
Turned(e, state, est, ack) ==
    /\ sock'[e] = sock[e] /\ odd'[e] = odd[e]
    /\ tcp'[e].mem # "none" /\ tcp'[e].state = state
    /\ tcp'[e].est = est /\ tcp'[e].ack_number = ack

\* A unit is put into the buffer of connection e.
Delivered(e, s) ==
    /\ s.seq = tcp[e].ack_number /\ sock[e].mem = "live" /\ ~Held(e)
    /\ tcp[e].state \notin {"FIN_WAIT1", "CLOSE_WAIT"} \/ "ACK" \notin s.flags
    /\ tcp'[e].mem = tcp[e].mem /\ tcp'[e].state = tcp[e].state /\ tcp'[e].est = tcp[e].est
    /\ tcp'[e].ack_number = Next32(tcp[e].ack_number)
    /\ sock'[e].mem = "live"
    /\ sock'[e].received_data =
          Append(Moved(sock[e].received_data, 0, sock[e].num_bytes_received), s.data)
    /\ sock'[e].num_bytes_received = sock[e].num_bytes_received + 1
    /\ odd'[e] = odd[e] \cup Spoilt(e, s)

\* What tcp_ipv4_recv does with the objects of one connection.
HandlerDoes(e, s) ==
    \/ Untouched(e)
    \/ /\ tcp[e].mem = "bound" /\ tcp[e].state # "CLOSED"
       /\ Matching(s) # {} /\ e = binds[First(Matching(s))]
       /\ \/ Turned(e, "CLOSED", tcp[e].est, tcp[e].ack_number)
          \/ tcp[e].state = "SYN_SENT" /\ Turned(e, "ESTABLISHED", TRUE, Next32(Isn))
          \/ /\ tcp[e].state = "ESTABLISHED"
             /\ Turned(e, "CLOSE_WAIT", tcp[e].est, Next32(tcp[e].ack_number))
          \/ /\ tcp[e].state = "FIN_WAIT1"
             /\ Turned(e, "FIN_WAIT2", tcp[e].est, tcp[e].ack_number)
          \/ Delivered(e, s)

LEMMA HandlerOn ==
    ASSUME TableInv, NEW c \in Conn, NEW s \in Arriving(c), tcp_ipv4_recv(s), NEW e \in Conn
    PROVE  HandlerDoes(e, s)
  <1>1. /\ TypeOK /\ mode = "ok" /\ s.to = c /\ s.data \in Unit
        /\ tcp \in [Conn -> Tcps] /\ sock \in [Conn -> Socks]
        /\ odd \in [Conn -> SUBSET {"padding", "uncounted"}]
        /\ {"SYN", "ACK"} \subseteq s.flags => s.seq = Isn
    BY HandlerCases, SegmentIs DEF TableInv, TypeOK
  <1>2. CASE Untouched(e)
    BY <1>2 DEF HandlerDoes
  <1>3. CASE ~ Untouched(e)
    <2>1. Matching(s) # {} /\ e = binds[First(Matching(s))]
      BY <1>3, HandlerOthers DEF Untouched
    <2>2. ~ UNCHANGED <<tcp, sock, binds, odd, mode>>
      BY <1>3 DEF Untouched
    <2>3. /\ tcp[e].mem = "bound" /\ tcp[e].state # "CLOSED"
          /\ \/ Close(e)
             \/ RecvSynAck(e, s)
             \/ /\ tcp[e].state = "ESTABLISHED"
                /\ tcp' = [tcp EXCEPT ![e].state = "CLOSE_WAIT",
                                      ![e].ack_number = Next32(tcp[e].ack_number)]
                /\ Keep
             \/ /\ tcp[e].state = "FIN_WAIT1"
                /\ tcp' = [tcp EXCEPT ![e].state = "FIN_WAIT2"]
                /\ Keep
             \/ Deliver(e, s) /\ tcp[e].state \notin {"FIN_WAIT1", "CLOSE_WAIT"}
             \/ Deliver(e, s) /\ s.flags \cap {"SYN", "ACK", "FIN"} = {}
      BY <2>1, <2>2, HandlerCases
    <2>4. CASE Close(e)
      <3>1. Turned(e, "CLOSED", tcp[e].est, tcp[e].ack_number)
        BY <1>1, <2>4 DEF Close, Tcps, Turned
      <3>. QED
        BY <2>1, <2>3, <3>1 DEF HandlerDoes
    <2>5. CASE RecvSynAck(e, s)
      <3>1. /\ tcp' = [tcp EXCEPT ![e].state = "ESTABLISHED", ![e].est = TRUE,
                          ![e].ack_number = Next32(s.seq),
                          ![e].sequence_number = @ + 1]
            /\ UNCHANGED <<sock, odd>> /\ tcp[e].state = "SYN_SENT" /\ Kind(s) = {"SYN", "ACK"}
        BY <2>5 DEF RecvSynAck, Keep
      <3>2. s.seq = Isn
        BY <1>1, <3>1 DEF Kind
      <3>3. /\ tcp'[e].state = "ESTABLISHED" /\ tcp'[e].est = TRUE
            /\ tcp'[e].ack_number = Next32(s.seq) /\ tcp'[e].mem = tcp[e].mem
        BY <1>1, <3>1 DEF Tcps
      <3>4. Turned(e, "ESTABLISHED", TRUE, Next32(Isn))
        BY <2>3, <3>1, <3>2, <3>3 DEF Turned
      <3>. QED
        BY <2>1, <2>3, <3>1, <3>4 DEF HandlerDoes
    <2>6. CASE /\ tcp[e].state = "ESTABLISHED"
               /\ tcp' = [tcp EXCEPT ![e].state = "CLOSE_WAIT",
                                     ![e].ack_number = Next32(tcp[e].ack_number)]
               /\ Keep
      <3>1. Turned(e, "CLOSE_WAIT", tcp[e].est, Next32(tcp[e].ack_number))
        BY <1>1, <2>3, <2>6 DEF Keep, Tcps, Turned
      <3>. QED
        BY <2>1, <2>3, <2>6, <3>1 DEF HandlerDoes
    <2>7. CASE /\ tcp[e].state = "FIN_WAIT1"
               /\ tcp' = [tcp EXCEPT ![e].state = "FIN_WAIT2"]
               /\ Keep
      <3>1. Turned(e, "FIN_WAIT2", tcp[e].est, tcp[e].ack_number)
        BY <1>1, <2>3, <2>7 DEF Keep, Tcps, Turned
      <3>. QED
        BY <2>1, <2>3, <2>7, <3>1 DEF HandlerDoes
    <2>8. ASSUME Deliver(e, s), tcp[e].state \notin {"FIN_WAIT1", "CLOSE_WAIT"} \/ "ACK" \notin s.flags
          PROVE  HandlerDoes(e, s)
      <3>1. mode' = "ok"
        BY <1>1, <1>3, <2>8 DEF Deliver, Untouched
      <3>2. /\ InOrder(e, s) /\ sock[e].mem = "live" /\ ~Held(e) /\ sock'[e].mem = sock[e].mem
            /\ sock'[e].received_data =
                  Append(Moved(sock[e].received_data, 0, sock[e].num_bytes_received), s.data)
            /\ sock'[e].num_bytes_received = sock[e].num_bytes_received + 1
            /\ tcp' = [tcp EXCEPT ![e].ack_number = Next32(tcp[e].ack_number)]
            /\ odd' = [odd EXCEPT ![e] = odd[e] \cup Spoilt(e, s)]
        BY <1>1, <2>8, <3>1, DeliverIs
      <3>3. /\ tcp'[e].mem = tcp[e].mem /\ tcp'[e].state = tcp[e].state /\ tcp'[e].est = tcp[e].est
            /\ tcp'[e].ack_number = Next32(tcp[e].ack_number)
        BY <1>1, <3>2 DEF Tcps
      <3>4. odd'[e] = odd[e] \cup Spoilt(e, s)
        BY <1>1, <3>2
      <3>5. Delivered(e, s)
        BY <2>8, <3>2, <3>3, <3>4 DEF Delivered, InOrder
      <3>. QED
        BY <2>1, <2>3, <3>5 DEF HandlerDoes
    <2>. QED
      BY <2>3, <2>4, <2>5, <2>6, <2>7, <2>8
  <1>. QED
    BY <1>2, <1>3

\* Neither shared nor spoilt.
Plain(c) == Exclusive(c) /\ odd[c] = {}

\* The units that were put into the buffer of connection c.
Count(c) == Len(read[c]) + sock[c].num_bytes_received - Counted(c)

\* The number acknowledged on connection c follows from the units counted; before
\* the peer has answered there are none.
AckOK(c) ==
    /\ tcp[c].mem = "none" => ~tcp[c].est
    /\ tcp[c].est => tcp[c].state # "SYN_SENT"
    /\ tcp[c].state \in {"ESTABLISHED", "CLOSE_WAIT"} => tcp[c].est
    /\ call.op = "store" /\ call.conn = c /\ "uncounted" \notin odd[c] =>
          sock[c].num_bytes_received = call.left + call.n
    /\ Plain(c) /\ ~tcp[c].est => read[c] = <<>> /\ sock[c].num_bytes_received = 0
    /\ Plain(c) /\ tcp[c].state = "ESTABLISHED" =>
          tcp[c].ack_number = (Isn + 1 + Count(c)) % Word
    /\ Plain(c) /\ tcp[c].state = "CLOSE_WAIT" =>
          tcp[c].ack_number = (Isn + 1 + Count(c) + 1) % Word

AckInv == \A c \in Conn : AckOK(c)

LEMMA CountIs ==
    ASSUME TableInv, NEW c \in Conn
    PROVE  /\ Len(read[c]) \in Nat /\ sock[c].num_bytes_received \in Nat
           /\ Counted(c) \in Nat /\ Counted(c) <= sock[c].num_bytes_received
           /\ Count(c) \in Nat
  <1>1. TypeOK /\ BufferOK /\ Len(read[c]) \in Nat /\ sock[c].num_bytes_received \in Nat
    BY DEF TableInv, TypeOK, Socks
  <1>2. Counted(c) \in Nat /\ Counted(c) <= sock[c].num_bytes_received
    <2>1. CASE call.op = "store" /\ call.conn = c
      <3>1. call.n \in Nat /\ call.left \in Nat
        BY <1>1, <2>1, CallIs DEF Reading
      <3>2. call.left + call.n <= sock[c].num_bytes_received
        BY <1>1, <2>1 DEF BufferOK
      <3>. QED
        BY <1>1, <2>1, <3>1, <3>2 DEF Counted
    <2>2. CASE ~ (call.op = "store" /\ call.conn = c)
      BY <1>1, <2>2 DEF Counted
    <2>. QED
      BY <2>1, <2>2
  <1>. QED
    BY <1>1, <1>2 DEF Count

\* A step that concerns no number of connection c.
LEMMA AckKept ==
    ASSUME NEW c \in Conn, AckOK(c), Exclusive(c)' => Exclusive(c),
           odd'[c] = odd[c], read'[c] = read[c],
           tcp'[c].mem = tcp[c].mem, tcp'[c].state = tcp[c].state, tcp'[c].est = tcp[c].est,
           tcp'[c].ack_number = tcp[c].ack_number,
           sock'[c].num_bytes_received = sock[c].num_bytes_received,
           call' = call \/ (call.op # "store" /\ call'.op # "store")
    PROVE  AckOK(c)'
  <1>1. Plain(c)' => Plain(c)
    BY DEF Plain
  <1>2. Count(c)' = Count(c)
    BY DEF Count, Counted
  <1>. QED
    BY <1>1, <1>2 DEF AckOK

\* Only the states of connections and what they have sent change, and only to
\* states of disconnecting.
LEMMA AckQuiet ==
    ASSUME AckInv, UNCHANGED <<remote, odd, read>>,
           call' = call \/ (call.op # "store" /\ call'.op # "store"),
           \A c \in Conn :
              /\ tcp'[c].mem = tcp[c].mem /\ tcp'[c].est = tcp[c].est
              /\ tcp'[c].ack_number = tcp[c].ack_number
              /\ tcp'[c].state = tcp[c].state \/ tcp'[c].state = "FIN_WAIT1"
              /\ sock'[c].num_bytes_received = sock[c].num_bytes_received
    PROVE  AckInv'
  <1>. SUFFICES ASSUME NEW c \in Conn
                PROVE  AckOK(c)'
    BY DEF AckInv
  <1>1. AckOK(c) /\ (Exclusive(c)' => Exclusive(c))
    BY ExclusiveBack DEF AckInv
  <1>2. CASE tcp'[c].state = tcp[c].state
    BY <1>1, <1>2, AckKept
  <1>3. CASE tcp'[c].state = "FIN_WAIT1"
    <2>1. Plain(c)' => Plain(c)
      BY <1>1 DEF Plain
    <2>. QED
      BY <1>1, <1>3, <2>1 DEF AckOK
  <1>. QED
    BY <1>2, <1>3

LEMMA AckConnect ==
    ASSUME TableInv, AckInv, NEW c \in Conn, sys_sock_connect(c)
    PROVE  AckInv'
  <1>1. /\ tcp[c].mem = "none" /\ call = Idle
        /\ tcp' = [tcp EXCEPT ![c].mem = "bound", ![c].state = "SYN_SENT"]
        /\ sock' = [sock EXCEPT ![c].mem = "live"]
        /\ call' = On("connect", c)
        /\ UNCHANGED <<remote, odd, read>>
    BY DEF sys_sock_connect, Quiet, History
  <1>2. tcp \in [Conn -> Tcps] /\ sock \in [Conn -> Socks]
    BY DEF TableInv, TypeOK
  <1>3. /\ tcp'[c].mem = "bound" /\ tcp'[c].state = "SYN_SENT" /\ tcp'[c].est = tcp[c].est
        /\ sock'[c].num_bytes_received = sock[c].num_bytes_received
        /\ \A e \in Conn \ {c} : tcp'[e] = tcp[e] /\ sock'[e] = sock[e]
    BY <1>1, <1>2 DEF Tcps, Socks
  <1>4. call.op # "store" /\ call'.op # "store"
    BY <1>1 DEF Idle, On
  <1>. SUFFICES ASSUME NEW e \in Conn
                PROVE  AckOK(e)'
    BY DEF AckInv
  <1>5. AckOK(e) /\ (Exclusive(e)' => Exclusive(e))
    BY <1>1, <1>3, ExclusiveBack DEF AckInv
  <1>6. CASE e = c
    <2>1. Plain(e)' => Plain(e)
      BY <1>1, <1>5 DEF Plain
    <2>. QED
      BY <1>1, <1>3, <1>4, <1>5, <1>6, <2>1 DEF AckOK
  <1>7. CASE e # c
    BY <1>1, <1>3, <1>4, <1>5, <1>7, AckKept
  <1>. QED
    BY <1>6, <1>7

\* The calls that leave numbers alone.
LEMMA AckCalls ==
    ASSUME TableInv, AckInv,
           \/ tcp_wait_established \/ Attach \/ RecvTimeout \/ RecvMove \/ Disconnected
           \/ \E size \in 1 .. MaxRead : RecvCopy(size)
           \/ \E c \in Conn : sys_sock_recv(c) \/ sys_sock_send(c) \/ sys_sock_disconnect(c)
    PROVE  AckInv'
  <1>1. /\ TypeOK /\ tcp \in [Conn -> Tcps] /\ sock \in [Conn -> Socks]
        /\ call # Idle => call.conn \in Conn
    BY CallIs DEF TableInv, TypeOK
  <1>2. ASSUME Stray, UNCHANGED History
        PROVE  AckInv'
    BY <1>2, AckQuiet DEF Stray, History
  <1>3. ASSUME tcp' = tcp, sock' = sock, UNCHANGED History, call.op # "store", call'.op # "store"
        PROVE  AckInv'
    BY <1>3, AckQuiet DEF History
  <1>4. CASE tcp_wait_established
    BY <1>3, <1>4 DEF tcp_wait_established, On
  <1>5. CASE Attach
    <2>1. CASE tcp[call.conn].mem = "freed"
      BY <1>2, <1>5, <2>1 DEF Attach
    <2>2. CASE tcp[call.conn].mem # "freed"
      <3>1. /\ tcp' = [tcp EXCEPT ![call.conn].recv = TRUE] /\ call' = Idle /\ sock' = sock
            /\ UNCHANGED <<remote, odd, read>> /\ call.op = "attach"
        BY <1>5, <2>2 DEF Attach, History
      <3>2. \A e \in Conn : /\ tcp'[e].mem = tcp[e].mem /\ tcp'[e].state = tcp[e].state
                            /\ tcp'[e].ack_number = tcp[e].ack_number /\ tcp'[e].est = tcp[e].est
        BY <1>1, <3>1 DEF Tcps
      <3>3. call.op # "store" /\ call'.op # "store"
        BY <3>1 DEF Idle
      <3>. QED
        BY <3>1, <3>2, <3>3, AckQuiet
    <2>. QED
      BY <2>1, <2>2
  <1>6. CASE RecvTimeout
    BY <1>3, <1>6 DEF RecvTimeout, Idle
  <1>12. ASSUME NEW size \in 1 .. MaxRead, RecvCopy(size)
         PROVE  AckInv'
    <2>1. tcp' = tcp /\ sock' = sock /\ UNCHANGED History /\ call.op # "store" /\ call'.op # "store"
      BY <1>12 DEF RecvCopy
    <2>. QED
      BY <1>3, <2>1
  <1>7. CASE RecvMove
    <2>. DEFINE data == Moved(sock[call.conn].received_data, call.n, call.left)
                        \o SubSeq(sock[call.conn].received_data, call.left + 1, sock[call.conn].num_bytes_received)
    <2>1. /\ sock' = [sock EXCEPT ![call.conn].received_data = data]
          /\ tcp' = tcp /\ call.op = "move" /\ call' = Idle /\ UNCHANGED <<remote, odd, read>>
      BY <1>7 DEF RecvMove, History
    <2>. HIDE DEF data
    <2>2. \A e \in Conn : sock'[e].num_bytes_received = sock[e].num_bytes_received
      BY <1>1, <2>1 DEF Socks
    <2>3. call.op # "store" /\ call'.op # "store"
      BY <2>1 DEF Idle
    <2>. QED
      BY <2>1, <2>2, <2>3, AckQuiet
  <1>8. CASE Disconnected
    <2>1. CASE tcp[call.conn].mem = "freed"
      BY <1>2, <1>8, <2>1 DEF Disconnected
    <2>2. CASE tcp[call.conn].mem # "freed"
      <3>1. /\ tcp' = [tcp EXCEPT ![call.conn].sequence_number = @ + 1] /\ call' = Idle
            /\ sock' = [sock EXCEPT ![call.conn].mem = "freed"]
            /\ UNCHANGED <<remote, odd, read>> /\ call.op = "disconnect"
        BY <1>8, <2>2 DEF Disconnected, History
      <3>2. \A e \in Conn : /\ tcp'[e].mem = tcp[e].mem /\ tcp'[e].state = tcp[e].state
                            /\ tcp'[e].ack_number = tcp[e].ack_number /\ tcp'[e].est = tcp[e].est
                            /\ sock'[e].num_bytes_received = sock[e].num_bytes_received
        BY <1>1, <3>1 DEF Tcps, Socks
      <3>3. call.op # "store" /\ call'.op # "store"
        BY <3>1 DEF Idle
      <3>. QED
        BY <3>1, <3>2, <3>3, AckQuiet
    <2>. QED
      BY <2>1, <2>2
  <1>9. ASSUME NEW c \in Conn, sys_sock_recv(c)
        PROVE  AckInv'
    BY <1>3, <1>9 DEF sys_sock_recv, Quiet, Idle, On
  <1>10. ASSUME NEW c \in Conn, sys_sock_send(c)
         PROVE  AckInv'
    <2>1. CASE tcp[c].mem = "freed"
      BY <1>2, <1>10, <2>1 DEF sys_sock_send
    <2>2. CASE tcp[c].mem # "freed"
      <3>1. /\ tcp' = [tcp EXCEPT ![c].sequence_number = @ + 1] /\ call' = call
            /\ UNCHANGED <<sock, remote, odd, read>>
        BY <1>10, <2>2 DEF sys_sock_send
      <3>2. \A e \in Conn : /\ tcp'[e].mem = tcp[e].mem /\ tcp'[e].state = tcp[e].state
                            /\ tcp'[e].ack_number = tcp[e].ack_number /\ tcp'[e].est = tcp[e].est
        BY <1>1, <3>1 DEF Tcps
      <3>. QED
        BY <3>1, <3>2, AckQuiet
    <2>. QED
      BY <2>1, <2>2
  <1>11. ASSUME NEW c \in Conn, sys_sock_disconnect(c)
         PROVE  AckInv'
    <2>1. CASE tcp[c].mem = "freed"
      BY <1>2, <1>11, <2>1 DEF sys_sock_disconnect
    <2>2. CASE tcp[c].mem # "freed"
      <3>1. /\ tcp' = [tcp EXCEPT ![c].state = "FIN_WAIT1"] /\ call' = On("disconnect", c)
            /\ call = Idle /\ UNCHANGED <<sock, remote, odd, read>>
        BY <1>11, <2>2 DEF sys_sock_disconnect, Quiet, History
      <3>2. \A e \in Conn : /\ tcp'[e].mem = tcp[e].mem
                            /\ tcp'[e].state = tcp[e].state \/ tcp'[e].state = "FIN_WAIT1"
                            /\ tcp'[e].ack_number = tcp[e].ack_number /\ tcp'[e].est = tcp[e].est
        BY <1>1, <3>1 DEF Tcps
      <3>3. call.op # "store" /\ call'.op # "store"
        BY <3>1 DEF Idle, On
      <3>. QED
        BY <3>1, <3>2, <3>3, AckQuiet
    <2>. QED
      BY <2>1, <2>2
  <1>. QED
    BY <1>4, <1>5, <1>6, <1>7, <1>8, <1>9, <1>10, <1>11, <1>12

\* What is copied is read and still counted.
LEMMA CopyIs ==
    ASSUME TableInv, RecvCopied
    PROVE  \E c \in Conn, n \in Nat \ {0} :
              LET num == sock[c].num_bytes_received
                  part == SubSeq(sock[c].received_data, 1, n)
              IN  /\ call.op = "copy" /\ call.conn = c /\ n <= num
                  /\ part \in Seq(Unit) /\ Len(part) = n
                  /\ \A i \in 1 .. n : part[i] = sock[c].received_data[i]
                  /\ read' = [read EXCEPT ![c] = @ \o part]
                  /\ call' = [op |-> "store", conn |-> c, n |-> n, left |-> num - n]
                  /\ UNCHANGED <<tcp, sock, remote, odd>>
  <1>. DEFINE c == call.conn
              num == sock[c].num_bytes_received
              n == call.n
  <1>1. /\ TypeOK /\ call.op = "copy"
        /\ read' = [read EXCEPT ![c] = @ \o SubSeq(sock[c].received_data, 1, n)]
        /\ call' = [op |-> "store", conn |-> c, n |-> n, left |-> num - n]
        /\ UNCHANGED <<tcp, sock, remote, odd>>
    BY DEF RecvCopied, TableInv
  <1>2. c \in Conn /\ n \in Nat \ {0}
    BY <1>1, CallIs DEF Idle
  <1>3. n <= num
    BY <1>1 DEF TableInv, BufferOK
  <1>0. call.conn = c
    OBVIOUS
  <1>. HIDE DEF c, n
  <1>4. num \in Nat /\ sock[c].received_data \in Seq(Unit) /\ num <= Len(sock[c].received_data)
    BY <1>1, <1>2 DEF TypeOK, Socks, TableInv, BufferOK
  <1>. HIDE DEF num
  <1>5. n \in Nat \ {0} /\ n <= num
    BY <1>2, <1>3
  <1>. DEFINE part == SubSeq(sock[c].received_data, 1, n)
  <1>6. /\ part \in Seq(Unit) /\ Len(part) = n
        /\ \A i \in 1 .. n : part[i] = sock[c].received_data[i]
    <2>1. 1 \in 1 .. Len(sock[c].received_data) + 1 /\ n \in 1 - 1 .. Len(sock[c].received_data)
      BY <1>4, <1>5
    <2>. DEFINE data == sock[c].received_data
    <2>2. data \in Seq(Unit)
      BY <1>4
    <2>. HIDE DEF data
    <2>3. /\ SubSeq(data, 1, n) \in Seq(Unit)
          /\ Len(SubSeq(data, 1, n)) = n
          /\ \A i \in 1 .. n : SubSeq(data, 1, n)[i] = data[i]
      BY <1>5, <2>1, <2>2, SubSeqProperties DEF data
    <2>. QED
      BY <2>3 DEF data
  <1>. HIDE DEF part
  <1>. QED
    BY <1>0, <1>1, <1>2, <1>5, <1>6 DEF part, num

LEMMA AckCopy ==
    ASSUME TableInv, AckInv, RecvCopied
    PROVE  AckInv'
  <1>1. PICK c \in Conn, n \in Nat \ {0} :
              LET num == sock[c].num_bytes_received
                  part == SubSeq(sock[c].received_data, 1, n)
              IN  /\ call.op = "copy" /\ call.conn = c /\ n <= num
                  /\ part \in Seq(Unit) /\ Len(part) = n
                  /\ \A i \in 1 .. n : part[i] = sock[c].received_data[i]
                  /\ read' = [read EXCEPT ![c] = @ \o part]
                  /\ call' = [op |-> "store", conn |-> c, n |-> n, left |-> num - n]
                  /\ UNCHANGED <<tcp, sock, remote, odd>>
    BY CopyIs
  <1>. DEFINE num == sock[c].num_bytes_received
              part == SubSeq(sock[c].received_data, 1, n)
  <1>2. read \in [Conn -> Seq(Unit)] /\ num \in Nat /\ Len(read[c]) \in Nat
    BY DEF TableInv, TypeOK, Socks
  <1>3. /\ read'[c] = read[c] \o part /\ Len(read'[c]) = Len(read[c]) + n
        /\ \A e \in Conn \ {c} : read'[e] = read[e]
    <2>. HIDE DEF part
    <2>1. part \in Seq(Unit) /\ Len(part) = n /\ read' = [read EXCEPT ![c] = @ \o part]
      BY <1>1 DEF part
    <2>2. read'[c] = read[c] \o part /\ \A e \in Conn \ {c} : read'[e] = read[e]
      BY <1>2, <2>1
    <2>3. read[c] \in Seq(Unit)
      BY <1>2
    <2>4. Len(read[c] \o part) = Len(read[c]) + n
      BY <2>1, <2>3, ConcatProperties
    <2>. QED
      BY <2>2, <2>4
  <1>4. call'.op = "store" /\ call'.conn = c /\ call'.n = n /\ call'.left = num - n /\ call.op = "copy"
    BY <1>1
  <1>5. UNCHANGED <<tcp, sock, remote, odd>> /\ n <= num
    BY <1>1
  <1>. HIDE DEF part, num
  <1>. SUFFICES ASSUME NEW e \in Conn
                PROVE  AckOK(e)'
    BY DEF AckInv
  <1>6. AckOK(e) /\ (Exclusive(e)' => Exclusive(e)) /\ (Plain(e)' => Plain(e))
    BY <1>5, ExclusiveBack DEF AckInv, Plain
  <1>7. CASE e = c
    <2>1. Count(e)' = Count(e)
      <3>1. Counted(c) = 0 /\ Counted(c)' = n
        BY <1>4 DEF Counted
      <3>2. Count(c) = Len(read[c]) + num
        BY <1>2, <3>1 DEF Count, num
      <3>3. Count(c)' = Len(read'[c]) + num - n
        BY <1>5, <3>1 DEF Count, num
      <3>. QED
        BY <1>2, <1>3, <1>7, <3>2, <3>3
    <2>2. call'.left + call'.n = num
      BY <1>2, <1>4
    <2>3. ~ (sock[e].num_bytes_received = 0)
      BY <1>2, <1>5, <1>7 DEF num
    <2>. QED
      BY <1>4, <1>5, <1>6, <1>7, <2>1, <2>2, <2>3 DEF AckOK, num
  <1>8. CASE e # c
    <2>1. Count(e)' = Count(e)
      BY <1>3, <1>4, <1>5, <1>8 DEF Count, Counted
    <2>. QED
      BY <1>3, <1>4, <1>5, <1>6, <1>8, <2>1 DEF AckOK
  <1>. QED
    BY <1>7, <1>8

LEMMA StoreIs ==
    ASSUME TableInv, RecvStore
    PROVE  LET c == call.conn
           IN  /\ c \in Conn /\ call.op = "store" /\ call.left \in Nat /\ call.n \in Nat
               /\ call'.op = "move" /\ call'.conn = c /\ call'.n = call.n /\ call'.left = call.left
               /\ sock'[c].num_bytes_received = call.left
               /\ \A e \in Conn : /\ sock'[e].mem = sock[e].mem
                                  /\ sock'[e].received_data = sock[e].received_data
               /\ \A e \in Conn \ {c} : sock'[e] = sock[e]
               /\ UNCHANGED <<tcp, remote, odd, read>>
  <1>. DEFINE c == call.conn
  <1>1. /\ TypeOK /\ call.op = "store" /\ sock \in [Conn -> Socks]
        /\ sock' = [sock EXCEPT ![c].num_bytes_received = call.left]
        /\ call' = [call EXCEPT !.op = "move"]
        /\ UNCHANGED <<tcp, remote, odd, read>>
    BY DEF TableInv, TypeOK, RecvStore, History
  <1>2. c \in Conn /\ call.left \in Nat /\ call.n \in Nat /\ call \in [op : Reading, conn : Conn, n : Nat \ {0}, left : Nat]
    BY <1>1, CallIs DEF Reading
  <1>3. call'.op = "move" /\ call'.conn = c /\ call'.n = call.n /\ call'.left = call.left
    BY <1>1, <1>2
  <1>. HIDE DEF c
  <1>4. /\ sock'[c].num_bytes_received = call.left
        /\ \A e \in Conn : /\ sock'[e].mem = sock[e].mem
                           /\ sock'[e].received_data = sock[e].received_data
        /\ \A e \in Conn \ {c} : sock'[e] = sock[e]
    BY <1>1, <1>2 DEF Socks
  <1>. QED
    BY <1>1, <1>2, <1>3, <1>4 DEF c

LEMMA AckStore ==
    ASSUME TableInv, AckInv, RecvStore
    PROVE  AckInv'
  <1>. DEFINE c == call.conn
  <1>1. /\ c \in Conn /\ call.op = "store" /\ call.left \in Nat /\ call.n \in Nat
        /\ call'.op = "move" /\ call'.conn = c
        /\ sock'[c].num_bytes_received = call.left
        /\ \A e \in Conn \ {c} : sock'[e] = sock[e]
        /\ UNCHANGED <<tcp, remote, odd, read>>
    BY StoreIs
  <1>. SUFFICES ASSUME NEW e \in Conn
                PROVE  AckOK(e)'
    BY DEF AckInv
  <1>2. AckOK(e) /\ (Exclusive(e)' => Exclusive(e)) /\ (Plain(e)' => Plain(e))
    BY <1>1, ExclusiveBack DEF AckInv, Plain
  <1>3. CASE e = c
    <2>1. ASSUME Plain(e)'
          PROVE  Count(e)' = Count(e) /\ tcp[e].est
      <3>1. Plain(e) /\ sock[e].num_bytes_received = call.left + call.n
        BY <1>1, <1>2, <1>3, <2>1 DEF AckOK, Plain
      <3>2. Count(e) = Len(read[e]) + call.left /\ Len(read[e]) \in Nat
        BY <1>1, <1>3, <3>1, CountIs DEF Count, Counted
      <3>3. Count(e)' = Len(read[e]) + call.left
        BY <1>1, <1>3, <3>2 DEF Count, Counted
      <3>4. call.n # 0
        BY <1>1, CallIs DEF TableInv, Reading
      <3>. QED
        BY <1>1, <1>2, <3>1, <3>2, <3>3, <3>4 DEF AckOK
    <2>. QED
      BY <1>1, <1>2, <2>1 DEF AckOK
  <1>4. CASE e # c
    <2>1. Count(e)' = Count(e)
      BY <1>1, <1>4 DEF Count, Counted
    <2>. QED
      BY <1>1, <1>2, <1>4, <2>1 DEF AckOK
  <1>. QED
    BY <1>3, <1>4

LEMMA ExitIs ==
    ASSUME TableInv, ProgramExits
    PROVE  /\ call = Idle /\ UNCHANGED <<call, remote, odd, read>>
           /\ \A e \in Conn :
                /\ tcp'[e].mem = tcp[e].mem /\ tcp'[e].est = tcp[e].est
                /\ tcp'[e].ack_number = tcp[e].ack_number
                /\ sock'[e].num_bytes_received = sock[e].num_bytes_received
                /\ \/ tcp'[e].state = tcp[e].state /\ sock'[e] = sock[e]
                   \/ tcp'[e].state = "FIN_WAIT1" /\ sock'[e].mem = "freed"
  <1>. DEFINE left == {c \in Conn : In(sockets, c)}
  <1>1. call = Idle /\ UNCHANGED <<remote, odd, read>>
    BY DEF ProgramExits, Quiet, History
  <1>2. CASE \E c \in left : tcp[c].mem = "freed"
    BY <1>1, <1>2 DEF ProgramExits, Stray
  <1>3. CASE ~ \E c \in left : tcp[c].mem = "freed"
    <2>1. /\ tcp' = [c \in Conn |->
                              IF c \in left
                              THEN [tcp[c] EXCEPT !.state = "FIN_WAIT1",
                                                  !.sequence_number = @ + 1]
                              ELSE tcp[c]]
          /\ sock' = [c \in Conn |-> IF c \in left THEN [sock[c] EXCEPT !.mem = "freed"]
                                           ELSE sock[c]]
          /\ UNCHANGED call
      BY <1>3 DEF ProgramExits
    <2>. HIDE DEF left
    <2>2. \A e \in Conn : tcp[e] \in Tcps /\ sock[e] \in Socks
      BY DEF TableInv, TypeOK
    <2>3. ASSUME NEW e \in Conn
          PROVE  /\ tcp'[e].mem = tcp[e].mem /\ tcp'[e].est = tcp[e].est
                 /\ tcp'[e].ack_number = tcp[e].ack_number
                 /\ sock'[e].num_bytes_received = sock[e].num_bytes_received
                 /\ \/ tcp'[e].state = tcp[e].state /\ sock'[e] = sock[e]
                    \/ tcp'[e].state = "FIN_WAIT1" /\ sock'[e].mem = "freed"
      BY <2>1, <2>2 DEF Tcps, Socks
    <2>. QED
      BY <1>1, <2>1, <2>3
  <1>. QED
    BY <1>2, <1>3

\* A unit that is put into the buffer of a plain connection comes from its peer,
\* which has been answered.
LEMMA UnitDelivered ==
    ASSUME TableInv, OrderInv, NEW c \in Conn, NEW s \in Arriving(c), NEW e \in Conn, mode = "ok",
           Exclusive(e), Matching(s) # {}, e = binds[First(Matching(s))], "padding" \notin Spoilt(e, s),
           \A x \in Conn : tcp[x].state \in {"ESTABLISHED", "CLOSE_WAIT"} => tcp[x].est
    PROVE  /\ e = c /\ tcp[e].est
           /\ \E k \in 1 .. MaxData : s.data = <<e, k>> /\ s.seq = (Isn + k) % Word /\ "ACK" \in s.flags
  <1>1. e = c
    BY HandlerTarget
  <1>2. s.data # Padding
    BY DEF Spoilt
  <1>3. TypeOK /\ MaxData \in Nat
    BY SocketsAssumption DEF TableInv
  <1>4. \E k \in 1 .. MaxData : s.data = <<c, k>> /\ s.seq = (Isn + k) % Word /\ "ACK" \in s.flags
    BY <1>2, <1>3, SegmentIs
  <1>5. tcp[c].est
    <2>1. CASE ~orderly
      BY <1>2, <1>3, <2>1, SegmentIs
    <2>2. CASE orderly
      <3>1. s = Turn(c) /\ tcp[c].mem # "none" /\ Stage(c) /\ ItsTurn(c) /\ got[c] \in Nat
        BY <1>1, <1>3, <2>2, SegmentIs DEF OrderInv, TypeOK
      <3>2. got[c] \in 1 .. MaxData
        <4>1. CASE got[c] = 0
          <5>1. ~ (got[c] \in 1 .. MaxData) /\ got[c] # MaxData + 1
            BY <1>3, <4>1
          <5>2. s = Segment(c, {"SYN", "ACK"}, Isn, Padding)
            BY <3>1, <4>1, <5>1 DEF Turn
          <5>. QED
            BY <1>2, <5>2, SegmentFields
        <4>2. CASE got[c] \notin 0 .. MaxData
          <5>1. \/ s = Segment(c, {"ACK"}, Isn + 1 + MaxData, Padding)
                \/ s = Segment(c, {"FIN", "ACK"}, Isn + 1 + MaxData, Padding)
            BY <1>3, <3>1, <4>2 DEF Turn
          <5>. QED
            BY <1>2, <5>1, SegmentFields
        <4>. QED
          BY <1>3, <3>1, <4>1, <4>2
      <3>3. tcp[c].state = "ESTABLISHED"
        BY <1>3, <3>1, <3>2 DEF Stage
      <3>. QED
        BY <3>3
    <2>. QED
      BY <2>1, <2>2
  <1>. QED
    BY <1>1, <1>4, <1>5

LEMMA AckHandler ==
    ASSUME TableInv, OrderInv, AckInv, NEW c \in Conn, NEW s \in Arriving(c), tcp_ipv4_recv(s)
    PROVE  AckInv'
  <1>1. UNCHANGED <<remote, call, read>>
    BY HandlerCases
  <1>. SUFFICES ASSUME NEW e \in Conn
                PROVE  AckOK(e)'
    BY DEF AckInv
  <1>2. AckOK(e) /\ (Exclusive(e)' => Exclusive(e))
    BY <1>1, HandlerOthers, ExclusiveBack DEF AckInv
  <1>3. HandlerDoes(e, s)
    BY HandlerOn
  <1>4. Counted(e)' = Counted(e) /\ Count(e) \in Nat /\ Counted(e) \in Nat
    BY <1>1, CountIs DEF Counted
  <1>5. Len(read[e]) \in Nat /\ sock[e].num_bytes_received \in Nat /\ Counted(e) <= sock[e].num_bytes_received
    BY CountIs
  <1>6. CASE Untouched(e)
    BY <1>1, <1>2, <1>6, AckKept DEF Untouched
  <1>7. ASSUME NEW x, NEW y, NEW z, Turned(e, x, y, z)
        PROVE  /\ tcp'[e].mem # "none" /\ tcp'[e].state = x /\ tcp'[e].est = y /\ tcp'[e].ack_number = z
               /\ sock'[e] = sock[e] /\ Count(e)' = Count(e) /\ (Plain(e)' => Plain(e)) /\ odd'[e] = odd[e]
    BY <1>1, <1>2, <1>4, <1>7 DEF Turned, Plain, Count
  <1>8. CASE Turned(e, "CLOSED", tcp[e].est, tcp[e].ack_number)
    BY <1>1, <1>2, <1>7, <1>8 DEF AckOK
  <1>9. CASE tcp[e].state = "SYN_SENT" /\ Turned(e, "ESTABLISHED", TRUE, Next32(Isn))
    <2>1. Next32(Isn) = (Isn + 1 + 0) % Word
      <3>1. Next32(Isn % Word) = (Isn + 1) % Word
        BY Words, NextMod
      <3>2. Isn + 1 + 0 = Isn + 1
        BY Words
      <3>. QED
        BY <3>1, <3>2, Words
    <2>2. ASSUME Plain(e)'
          PROVE  Count(e)' = 0
      <3>1. Plain(e) /\ ~tcp[e].est
        BY <1>2, <1>7, <1>9, <2>2 DEF AckOK
      <3>2. read[e] = <<>> /\ sock[e].num_bytes_received = 0
        BY <1>2, <3>1 DEF AckOK
      <3>3. Count(e) = 0
        <4>1. Len(read[e]) = 0
          BY <3>2
        <4>. QED
          BY <1>4, <1>5, <3>2, <4>1 DEF Count
      <3>. QED
        BY <1>7, <1>9, <3>3
    <2>3. /\ tcp'[e].mem # "none" /\ tcp'[e].state = "ESTABLISHED" /\ tcp'[e].est = TRUE
          /\ tcp'[e].ack_number = Next32(Isn) /\ sock'[e] = sock[e] /\ odd'[e] = odd[e]
      BY <1>7, <1>9
    <2>. QED
      BY <1>1, <1>2, <2>1, <2>2, <2>3 DEF AckOK
  <1>10. CASE /\ tcp[e].state = "ESTABLISHED"
              /\ Turned(e, "CLOSE_WAIT", tcp[e].est, Next32(tcp[e].ack_number))
    <2>1. ASSUME Plain(e)'
          PROVE  tcp'[e].ack_number = (Isn + 1 + Count(e)' + 1) % Word
      <3>1. Plain(e) /\ tcp'[e].ack_number = Next32(tcp[e].ack_number) /\ Count(e)' = Count(e)
        BY <1>7, <1>10, <2>1
      <3>2. tcp[e].ack_number = (Isn + 1 + Count(e)) % Word
        BY <1>2, <1>10, <3>1 DEF AckOK
      <3>3. Isn + 1 + Count(e) \in Nat
        BY <1>4, Words
      <3>4. Next32((Isn + 1 + Count(e)) % Word) = (Isn + 1 + Count(e) + 1) % Word
        BY <3>3, NextMod
      <3>. QED
        BY <3>1, <3>2, <3>4
    <2>2. /\ tcp'[e].mem # "none" /\ tcp'[e].state = "CLOSE_WAIT" /\ tcp'[e].est = tcp[e].est
          /\ sock'[e] = sock[e] /\ odd'[e] = odd[e] /\ (Plain(e)' => Plain(e))
      BY <1>7, <1>10
    <2>. QED
      BY <1>1, <1>2, <1>10, <2>1, <2>2 DEF AckOK
  <1>11. CASE /\ tcp[e].state = "FIN_WAIT1"
              /\ Turned(e, "FIN_WAIT2", tcp[e].est, tcp[e].ack_number)
    BY <1>1, <1>2, <1>7, <1>11 DEF AckOK
  <1>12. CASE /\ Delivered(e, s) /\ tcp[e].mem = "bound" /\ Matching(s) # {}
              /\ e = binds[First(Matching(s))]
    <2>1. /\ tcp'[e].mem = tcp[e].mem /\ tcp'[e].state = tcp[e].state /\ tcp'[e].est = tcp[e].est
          /\ tcp'[e].ack_number = Next32(tcp[e].ack_number)
          /\ sock'[e].num_bytes_received = sock[e].num_bytes_received + 1
          /\ odd'[e] = odd[e] \cup Spoilt(e, s)
      BY <1>12 DEF Delivered
    <2>2. call.op = "store" /\ call.conn = e => "uncounted" \in odd'[e]
      BY <2>1 DEF Spoilt
    <2>3. Count(e)' = Count(e) + 1
      BY <1>1, <1>4, <1>5, <2>1 DEF Count
    <2>4. ASSUME Plain(e)'
          PROVE  Plain(e) /\ tcp[e].est
      <3>1. Plain(e) /\ "padding" \notin Spoilt(e, s)
        BY <1>2, <2>1, <2>4 DEF Plain
      <3>2. \A x \in Conn : tcp[x].state \in {"ESTABLISHED", "CLOSE_WAIT"} => tcp[x].est
        BY DEF AckInv, AckOK
      <3>. QED
        BY <1>12, <3>1, <3>2, UnitDelivered DEF Plain, tcp_ipv4_recv
    <2>5. ASSUME Plain(e)', tcp[e].state = "ESTABLISHED"
          PROVE  tcp'[e].ack_number = (Isn + 1 + Count(e)') % Word
      <3>1. tcp[e].ack_number = (Isn + 1 + Count(e)) % Word
        BY <1>2, <2>4, <2>5 DEF AckOK
      <3>2. Isn + 1 + Count(e) \in Nat /\ Isn + 1 + Count(e)' = (Isn + 1 + Count(e)) + 1
        BY <1>4, <2>3, Words
      <3>3. Next32((Isn + 1 + Count(e)) % Word) = ((Isn + 1 + Count(e)) + 1) % Word
        BY <3>2, NextMod
      <3>. QED
        BY <2>1, <3>1, <3>2, <3>3
    <2>6. ASSUME Plain(e)', tcp[e].state = "CLOSE_WAIT"
          PROVE  tcp'[e].ack_number = (Isn + 1 + Count(e)' + 1) % Word
      <3>1. tcp[e].ack_number = (Isn + 1 + Count(e) + 1) % Word
        BY <1>2, <2>4, <2>6 DEF AckOK
      <3>2. Isn + 1 + Count(e) + 1 \in Nat /\ Isn + 1 + Count(e)' + 1 = (Isn + 1 + Count(e) + 1) + 1
        BY <1>4, <2>3, Words
      <3>3. Next32((Isn + 1 + Count(e) + 1) % Word) = ((Isn + 1 + Count(e) + 1) + 1) % Word
        BY <3>2, NextMod
      <3>. QED
        BY <2>1, <3>1, <3>2, <3>3
    <2>. QED
      BY <1>1, <1>2, <1>12, <2>1, <2>2, <2>4, <2>5, <2>6 DEF AckOK
  <1>. QED
    BY <1>3, <1>6, <1>8, <1>9, <1>10, <1>11, <1>12 DEF HandlerDoes

LEMMA AckInit == Init => AckInv
  <1>. SUFFICES ASSUME Init, NEW c \in Conn
                PROVE  AckOK(c)
    BY DEF AckInv
  <1>. QED
    BY DEF Init, AckOK, Idle

LEMMA AckNext == TableInv /\ OrderInv /\ AckInv /\ [Next]_vars => AckInv'
  <1>. SUFFICES ASSUME TableInv, OrderInv, AckInv, [Next]_vars
                PROVE  AckInv'
    OBVIOUS
  <1>1. CASE UNCHANGED vars
    BY <1>1, AckQuiet DEF vars
  <1>2. CASE CallStep
    BY <1>2, AckCalls, AckCopy, AckStore DEF CallStep
  <1>3. CASE Arrive
    BY <1>3, AckHandler DEF Arrive
  <1>4. CASE ProgramExits
    BY <1>4, ExitIs, AckQuiet
  <1>5. ASSUME NEW c \in Conn,
               sys_sock_connect(c) \/ sys_sock_send(c) \/ sys_sock_recv(c) \/ sys_sock_disconnect(c)
        PROVE  AckInv'
    BY <1>5, AckConnect, AckCalls
  <1>. QED
    BY <1>1, <1>2, <1>3, <1>4, <1>5 DEF Next

\* However calls and segments interleave, the number acknowledged to the peer of
\* an open connection is the one that follows what went into the buffer.
THEOREM SocketsAckedIsDelivered == Spec => []AckedIsDelivered
  <1>1. TableInv /\ AckInv => AckedIsDelivered
    <2>. SUFFICES ASSUME TableInv, AckInv, NEW c \in Conn, Plain(c),
                         tcp[c].state \in {"ESTABLISHED", "CLOSE_WAIT"}
                  PROVE  tcp[c].ack_number =
                            (Isn + 1 + Len(read[c]) + sock[c].num_bytes_received - Counted(c)
                               + (IF tcp[c].state = "CLOSE_WAIT" THEN 1 ELSE 0)) % Word
      BY DEF AckedIsDelivered, Plain
    <2>1. AckOK(c) /\ Isn \in Nat
      BY Words DEF AckInv
    <2>2. Len(read[c]) \in Nat /\ sock[c].num_bytes_received \in Nat /\ Counted(c) \in Nat
      BY CountIs
    <2>3. CASE tcp[c].state = "ESTABLISHED"
      <3>1. tcp[c].ack_number = (Isn + 1 + Count(c)) % Word
        BY <2>1, <2>3 DEF AckOK
      <3>2. Isn + 1 + Len(read[c]) + sock[c].num_bytes_received - Counted(c) + 0 = Isn + 1 + Count(c)
        <4>. DEFINE r == Len(read[c])
                    n == sock[c].num_bytes_received
                    k == Counted(c)
        <4>1. r \in Int /\ n \in Int /\ k \in Int /\ Isn \in Int
          BY <2>1, <2>2
        <4>2. Count(c) = r + n - k
          BY DEF Count
        <4>. HIDE DEF r, n, k
        <4>3. Isn + 1 + r + n - k + 0 = Isn + 1 + Count(c)
          BY <4>1, <4>2
        <4>. QED
          BY <4>3 DEF r, n, k
      <3>. QED
        BY <2>3, <3>1, <3>2
    <2>4. CASE tcp[c].state = "CLOSE_WAIT"
      <3>1. tcp[c].ack_number = (Isn + 1 + Count(c) + 1) % Word
        BY <2>1, <2>4 DEF AckOK
      <3>2. Isn + 1 + Len(read[c]) + sock[c].num_bytes_received - Counted(c) + 1 = Isn + 1 + Count(c) + 1
        BY <2>1, <2>2 DEF Count
      <3>. QED
        BY <2>4, <3>1, <3>2
    <2>. QED
      BY <2>3, <2>4
  <1>. QED
    BY <1>1, TableInit, TableNext, OrderInit, OrderNext, AckInit, AckNext, PTL DEF Spec

\* Numbers less than Word apart are told apart by their remainders.
LEMMA ModSame ==
    ASSUME NEW a \in Nat, NEW b \in Nat, a <= b, b - a < Word, a % Word = b % Word
    PROVE  a = b
  <1>. DEFINE p == a \div Word
              t == a % Word
              d == b - a
  <1>1. p \in Int /\ t \in 0 .. Word - 1 /\ a = Word * p + t /\ Word * p \in Int /\ d \in Nat /\ d < Word
    BY Words
  <1>2. b = Word * p + (t + d)
    BY <1>1
  <1>3. b % Word = t
    OBVIOUS
  <1>. HIDE DEF p, t, d
  <1>4. CASE t + d < Word
    <2>1. (Word * p + (t + d)) % Word = t + d
      BY <1>1, <1>4, Words, ModIs
    <2>2. d = 0
      BY <1>1, <1>2, <1>3, <2>1
    <2>. QED
      BY <2>2 DEF d
  <1>5. CASE t + d >= Word
    <2>1. (Word * (p + 1) + (t + d - Word)) % Word = t + d - Word
      <3>1. p + 1 \in Int /\ t + d - Word \in Int /\ 0 <= t + d - Word /\ t + d - Word < Word
        BY <1>1, <1>5, Words
      <3>. QED
        BY <3>1, Words, ModIs
    <2>2. b = Word * (p + 1) + (t + d - Word)
      <3>1. Word * (p + 1) = Word * p + Word
        BY <1>1, Words
      <3>. QED
        BY <1>1, <1>2, <3>1, Words
    <2>3. d = Word
      BY <1>1, <1>3, <2>1, <2>2, Words
    <2>. QED
      BY <1>1, <2>3, Words
  <1>. QED
    BY <1>1, <1>4, <1>5, Words

\* The states of a tcp_socket_t before its program disconnects.
Open == {"SYN_SENT", "ESTABLISHED", "CLOSE_WAIT", "CLOSED"}

\* Nothing has spoilt what the program of connection c reads.
Intact(c) ==
    /\ Exclusive(c) /\ odd[c] = {}
    /\ sock[c].mem = "live" /\ call # On("disconnect", c)

\* What was read and what lies in the buffer are the peer's units from the first on.
Ordered(c) ==
    /\ \A k \in 1 .. Len(read[c]) : read[c][k] = <<c, k>>
    /\ \A i \in 1 .. sock[c].num_bytes_received - Counted(c) :
          sock[c].received_data[Handed(c) + i] = <<c, Len(read[c]) + i>>

PrefixOK(c) ==
    /\ sock[c].mem = "live" /\ call # On("disconnect", c) => tcp[c].state \in Open
    /\ call.op = "move" /\ call.conn = c /\ call.left > 0 /\ odd[c] = {} =>
          /\ sock[c].num_bytes_received = call.left
          /\ call.left + call.n <= Len(sock[c].received_data)
    /\ Intact(c) => Count(c) <= MaxData /\ Ordered(c)

PrefixInv == \A c \in Conn : PrefixOK(c)

\* A step that neither reads from connection c nor puts anything into its buffer.
LEMMA PrefixKept ==
    ASSUME NEW c \in Conn, PrefixOK(c), Exclusive(c)' => Exclusive(c),
           odd'[c] = odd[c], read'[c] = read[c],
           sock'[c].num_bytes_received = sock[c].num_bytes_received,
           sock'[c].received_data = sock[c].received_data,
           sock'[c].mem = "live" => sock[c].mem = "live",
           \/ call' = On("disconnect", c)
           \/ sock'[c].mem # "live"
           \/ call # On("disconnect", c) /\ (tcp[c].state \in Open => tcp'[c].state \in Open),
           \/ call' = call
           \/ call.op \notin Reading /\ call'.op \notin Reading
           \/ call.conn # c /\ call'.conn # c
    PROVE  PrefixOK(c)'
  <1>1. Handed(c)' = Handed(c) /\ Counted(c)' = Counted(c)
    BY DEF Handed, Counted, Reading
  <1>2. Count(c)' = Count(c) /\ (Ordered(c) => Ordered(c)')
    BY <1>1 DEF Count, Ordered
  <1>3. Intact(c)' => Intact(c)
    BY DEF Intact
  <1>4. call'.op = "move" /\ call'.conn = c => call' = call
    BY DEF Reading
  <1>. QED
    BY <1>2, <1>3, <1>4 DEF PrefixOK

\* The calls that leave data alone.
LEMMA PrefixQuiet ==
    ASSUME PrefixInv, UNCHANGED <<remote, odd, read>>,
           \A c \in Conn : tcp'[c].mem = tcp[c].mem,
           \A c \in Conn :
              /\ sock'[c].num_bytes_received = sock[c].num_bytes_received
              /\ sock'[c].received_data = sock[c].received_data
              /\ sock'[c].mem = "live" => sock[c].mem = "live"
              /\ \/ call' = On("disconnect", c)
                 \/ sock'[c].mem # "live"
                 \/ call # On("disconnect", c) /\ (tcp[c].state \in Open => tcp'[c].state \in Open),
           call' = call \/ (call.op \notin Reading /\ call'.op \notin Reading)
    PROVE  PrefixInv'
  <1>. SUFFICES ASSUME NEW c \in Conn
                PROVE  PrefixOK(c)'
    BY DEF PrefixInv
  <1>1. PrefixOK(c) /\ (Exclusive(c)' => Exclusive(c))
    BY ExclusiveBack DEF PrefixInv
  <1>. QED
    BY <1>1, PrefixKept

LEMMA PrefixConnect ==
    ASSUME TableInv, AckInv, PrefixInv, NEW c \in Conn, sys_sock_connect(c)
    PROVE  PrefixInv'
  <1>1. /\ tcp[c].mem = "none" /\ call = Idle
        /\ tcp' = [tcp EXCEPT ![c].mem = "bound", ![c].state = "SYN_SENT"]
        /\ sock' = [sock EXCEPT ![c].mem = "live"]
        /\ call' = On("connect", c)
        /\ UNCHANGED <<remote, odd, read>>
    BY DEF sys_sock_connect, Quiet, History
  <1>2. tcp \in [Conn -> Tcps] /\ sock \in [Conn -> Socks] /\ MaxData \in Nat
    BY SocketsAssumption DEF TableInv, TypeOK
  <1>3. /\ tcp'[c].mem = "bound" /\ tcp'[c].state = "SYN_SENT"
        /\ sock'[c].num_bytes_received = sock[c].num_bytes_received
        /\ \A e \in Conn \ {c} : tcp'[e] = tcp[e] /\ sock'[e] = sock[e]
    BY <1>1, <1>2 DEF Tcps, Socks
  <1>4. call.op \notin Reading /\ call'.op \notin Reading /\ call'.op = "connect"
    BY <1>1 DEF Idle, On, Reading
  <1>5. \A e \in Conn : call # On("disconnect", e)
    BY <1>1 DEF Idle, On
  <1>. SUFFICES ASSUME NEW e \in Conn
                PROVE  PrefixOK(e)'
    BY DEF PrefixInv
  <1>6. AckOK(e) /\ PrefixOK(e) /\ (Exclusive(e)' => Exclusive(e))
    BY <1>1, <1>3, ExclusiveBack DEF AckInv, PrefixInv
  <1>7. CASE e = c
    <2>1. ASSUME Intact(e)'
          PROVE  Count(e)' <= MaxData /\ Ordered(e)'
      <3>1. Plain(e) /\ ~tcp[e].est
        BY <1>1, <1>6, <1>7, <2>1 DEF Intact, Plain, AckOK
      <3>2. read[e] = <<>> /\ sock[e].num_bytes_received = 0
        BY <1>6, <3>1 DEF AckOK
      <3>3. Counted(e)' = 0 /\ Len(read'[e]) = 0 /\ sock'[e].num_bytes_received = 0
        BY <1>1, <1>3, <1>4, <1>7, <3>2 DEF Counted, Reading
      <3>. QED
        BY <1>2, <3>3 DEF Count, Ordered
    <2>2. tcp'[e].state \in Open
      BY <1>3, <1>7 DEF Open
    <2>. QED
      BY <1>4, <2>1, <2>2 DEF PrefixOK
  <1>8. CASE e # c
    BY <1>1, <1>3, <1>4, <1>5, <1>6, <1>8, PrefixKept
  <1>. QED
    BY <1>7, <1>8

LEMMA PrefixCalls ==
    ASSUME TableInv, PrefixInv,
           \/ tcp_wait_established \/ Attach \/ RecvTimeout \/ Disconnected \/ ProgramExits
           \/ \E size \in 1 .. MaxRead : RecvCopy(size)
           \/ \E c \in Conn : sys_sock_recv(c) \/ sys_sock_send(c) \/ sys_sock_disconnect(c)
    PROVE  PrefixInv'
  <1>1. TypeOK /\ tcp \in [Conn -> Tcps] /\ sock \in [Conn -> Socks]
    BY DEF TableInv, TypeOK
  <1>2. ASSUME Stray, UNCHANGED History
        PROVE  PrefixInv'
    <2>1. UNCHANGED <<tcp, sock, call, remote, odd, read>>
      BY <1>2 DEF Stray, History
    <2>. QED
      BY <2>1, PrefixQuiet
  <1>3. ASSUME sock' = sock, UNCHANGED <<remote, odd, read>>, call.op \notin Reading \cup {"disconnect"}, call'.op \notin Reading,
               \A c \in Conn : tcp'[c].mem = tcp[c].mem /\ tcp'[c].state = tcp[c].state
        PROVE  PrefixInv'
    <2>1. \A c \in Conn : call # On("disconnect", c)
      BY <1>3 DEF On
    <2>. QED
      BY <1>3, <2>1, PrefixQuiet
  <1>4. CASE tcp_wait_established
    BY <1>3, <1>4 DEF tcp_wait_established, On, History, Reading
  <1>5. CASE Attach
    <2>1. CASE tcp[call.conn].mem = "freed"
      BY <1>2, <1>5, <2>1 DEF Attach
    <2>2. CASE tcp[call.conn].mem # "freed"
      <3>1. /\ tcp' = [tcp EXCEPT ![call.conn].recv = TRUE] /\ call' = Idle /\ sock' = sock
            /\ UNCHANGED <<remote, odd, read>> /\ call.op = "attach"
        BY <1>5, <2>2 DEF Attach, History
      <3>2. \A e \in Conn : tcp'[e].mem = tcp[e].mem /\ tcp'[e].state = tcp[e].state
        BY <1>1, <3>1 DEF Tcps
      <3>3. call.op \notin Reading \cup {"disconnect"} /\ call'.op \notin Reading
        BY <3>1 DEF Idle, Reading
      <3>. QED
        BY <1>3, <3>1, <3>2, <3>3
    <2>. QED
      BY <2>1, <2>2
  <1>6. CASE RecvTimeout
    BY <1>3, <1>6 DEF RecvTimeout, Idle, History, Reading
  <1>12. ASSUME NEW size \in 1 .. MaxRead, RecvCopy(size)
         PROVE  PrefixInv'
    <2>1. /\ tcp' = tcp /\ sock' = sock /\ UNCHANGED <<remote, odd, read>>
          /\ call.op = "recv" /\ call'.op = "copy"
      BY <1>12 DEF RecvCopy, History
    <2>. QED
      BY <1>3, <2>1 DEF Reading
  <1>7. CASE Disconnected
    <2>1. CASE tcp[call.conn].mem = "freed"
      BY <1>2, <1>7, <2>1 DEF Disconnected
    <2>2. CASE tcp[call.conn].mem # "freed"
      <3>. DEFINE c == call.conn
      <3>1. /\ tcp' = [tcp EXCEPT ![c].sequence_number = @ + 1] /\ call' = Idle
            /\ sock' = [sock EXCEPT ![c].mem = "freed"]
            /\ UNCHANGED <<remote, odd, read>> /\ call.op = "disconnect"
        BY <1>7, <2>2 DEF Disconnected, History
      <3>2. c \in Conn /\ \A e \in Conn : call = On("disconnect", e) => e = c
        BY <1>1, <3>1, CallIs DEF Idle, On
      <3>3. call.op \notin Reading /\ call'.op \notin Reading
        BY <3>1 DEF Idle, Reading
      <3>. HIDE DEF c
      <3>4. /\ \A e \in Conn : /\ tcp'[e].mem = tcp[e].mem /\ tcp'[e].state = tcp[e].state
                               /\ sock'[e].num_bytes_received = sock[e].num_bytes_received
                               /\ sock'[e].received_data = sock[e].received_data
            /\ sock'[c].mem = "freed" /\ \A e \in Conn \ {c} : sock'[e] = sock[e]
        BY <1>1, <3>1, <3>2 DEF Tcps, Socks
      <3>5. \A e \in Conn :
              /\ sock'[e].mem = "live" => sock[e].mem = "live"
              /\ sock'[e].mem # "live" \/ call # On("disconnect", e)
        BY <3>2, <3>4
      <3>. QED
        BY <3>1, <3>3, <3>4, <3>5, PrefixQuiet
    <2>. QED
      BY <2>1, <2>2
  <1>8. ASSUME NEW c \in Conn, sys_sock_recv(c)
        PROVE  PrefixInv'
    BY <1>3, <1>8 DEF sys_sock_recv, Quiet, Idle, On, History, Reading
  <1>9. ASSUME NEW c \in Conn, sys_sock_send(c)
         PROVE  PrefixInv'
    <2>1. CASE tcp[c].mem = "freed"
      BY <1>2, <1>9, <2>1 DEF sys_sock_send
    <2>2. CASE tcp[c].mem # "freed"
      <3>1. /\ tcp' = [tcp EXCEPT ![c].sequence_number = @ + 1] /\ call' = call /\ call = Idle
            /\ UNCHANGED <<sock, remote, odd, read>>
        BY <1>9, <2>2 DEF sys_sock_send, Quiet
      <3>2. \A e \in Conn : tcp'[e].mem = tcp[e].mem /\ tcp'[e].state = tcp[e].state
        BY <1>1, <3>1 DEF Tcps
      <3>3. call.op \notin Reading \cup {"disconnect"} /\ call'.op \notin Reading
        BY <3>1 DEF Idle, Reading
      <3>. QED
        BY <1>3, <3>1, <3>2, <3>3
    <2>. QED
      BY <2>1, <2>2
  <1>10. ASSUME NEW c \in Conn, sys_sock_disconnect(c)
         PROVE  PrefixInv'
    <2>1. CASE tcp[c].mem = "freed"
      BY <1>2, <1>10, <2>1 DEF sys_sock_disconnect
    <2>2. CASE tcp[c].mem # "freed"
      <3>1. /\ tcp' = [tcp EXCEPT ![c].state = "FIN_WAIT1"] /\ call' = On("disconnect", c)
            /\ call = Idle /\ UNCHANGED <<sock, remote, odd, read>>
        BY <1>10, <2>2 DEF sys_sock_disconnect, Quiet, History
      <3>2. /\ \A e \in Conn : tcp'[e].mem = tcp[e].mem
            /\ \A e \in Conn \ {c} : tcp'[e].state = tcp[e].state
        BY <1>1, <3>1 DEF Tcps
      <3>3. /\ call.op \notin Reading /\ call'.op \notin Reading
            /\ \A e \in Conn : call # On("disconnect", e)
        BY <3>1 DEF Idle, On, Reading
      <3>. QED
        BY <3>1, <3>2, <3>3, PrefixQuiet
    <2>. QED
      BY <2>1, <2>2
  <1>11. CASE ProgramExits
    <2>. SUFFICES ASSUME NEW e \in Conn
                  PROVE  PrefixOK(e)'
      BY DEF PrefixInv
    <2>1. /\ call = Idle /\ UNCHANGED <<call, remote, odd, read>>
          /\ \A d \in Conn : tcp'[d].mem = tcp[d].mem
          /\ \/ tcp'[e].state = tcp[e].state /\ sock'[e] = sock[e]
             \/ tcp'[e].state = "FIN_WAIT1" /\ sock'[e].mem = "freed"
      BY <1>11, ExitIs
    <2>2. PrefixOK(e) /\ (Exclusive(e)' => Exclusive(e)) /\ call # On("disconnect", e)
      BY <2>1, ExclusiveBack DEF PrefixInv, Idle, On
    <2>3. CASE sock'[e] = sock[e] /\ tcp'[e].state = tcp[e].state
      BY <2>1, <2>2, <2>3, PrefixKept
    <2>4. CASE sock'[e].mem = "freed"
      BY <2>1, <2>4 DEF PrefixOK, Intact, Idle
    <2>. QED
      BY <2>1, <2>3, <2>4
  <1>. QED
    BY <1>4, <1>5, <1>6, <1>7, <1>8, <1>9, <1>10, <1>11, <1>12

LEMMA PrefixCopy ==
    ASSUME TableInv, PrefixInv, RecvCopied
    PROVE  PrefixInv'
  <1>1. PICK c \in Conn, n \in Nat \ {0} :
              LET num == sock[c].num_bytes_received
                  part == SubSeq(sock[c].received_data, 1, n)
              IN  /\ call.op = "copy" /\ call.conn = c /\ n <= num
                  /\ part \in Seq(Unit) /\ Len(part) = n
                  /\ \A i \in 1 .. n : part[i] = sock[c].received_data[i]
                  /\ read' = [read EXCEPT ![c] = @ \o part]
                  /\ call' = [op |-> "store", conn |-> c, n |-> n, left |-> num - n]
                  /\ UNCHANGED <<tcp, sock, remote, odd>>
    BY CopyIs
  <1>. DEFINE num == sock[c].num_bytes_received
              data == sock[c].received_data
              part == SubSeq(data, 1, n)
              old == read[c]
  <1>2. read \in [Conn -> Seq(Unit)] /\ num \in Nat /\ old \in Seq(Unit) /\ Len(old) \in Nat
    BY DEF TableInv, TypeOK, Socks
  <1>3. /\ part \in Seq(Unit) /\ Len(part) = n /\ \A i \in 1 .. n : part[i] = data[i]
        /\ n <= num /\ read' = [read EXCEPT ![c] = @ \o part]
    BY <1>1
  <1>4. call'.op = "store" /\ call'.conn = c /\ call'.n = n /\ call.op = "copy" /\ call.conn = c
    BY <1>1
  <1>5. UNCHANGED <<tcp, sock, remote, odd>> /\ \A e \in Conn : call # On("disconnect", e) /\ call' # On("disconnect", e)
    BY <1>1, <1>4 DEF On
  <1>6. read'[c] = old \o part /\ \A e \in Conn \ {c} : read'[e] = read[e]
    <2>. HIDE DEF part
    <2>. QED
      BY <1>2, <1>3
  <1>. SUFFICES ASSUME NEW e \in Conn
                PROVE  PrefixOK(e)'
    BY DEF PrefixInv
  <1>7. PrefixOK(e) /\ (Exclusive(e)' => Exclusive(e))
    BY <1>5, ExclusiveBack DEF PrefixInv
  <1>8. CASE e # c
    BY <1>4, <1>5, <1>6, <1>7, <1>8, PrefixKept
  <1>9. CASE e = c
    <2>1. Intact(c)' => Intact(c)
      BY <1>5, <1>7, <1>9 DEF Intact
    <2>2. /\ Counted(c) = 0 /\ Handed(c) = 0 /\ Counted(c)' = n /\ Handed(c)' = n
      BY <1>4 DEF Counted, Handed
    <2>. HIDE DEF part, num, data, old
    <2>3. Len(old \o part) = Len(old) + n /\ Len(read'[c]) = Len(old) + n
      BY <1>2, <1>3, <1>6, ConcatProperties
    <2>4. ASSUME Intact(c)'
          PROVE  Count(c)' <= MaxData /\ Ordered(c)'
      <3>1. Count(c) <= MaxData /\ Ordered(c)
        BY <1>7, <1>9, <2>1, <2>4 DEF PrefixOK
      <3>2. Count(c) = Len(old) + num /\ Count(c)' = (Len(old) + n) + num - n
        BY <1>2, <1>5, <2>2, <2>3 DEF Count, num, old
      <3>3. Count(c)' <= MaxData
        BY <1>2, <3>1, <3>2
      <3>4. /\ \A k \in 1 .. Len(old) : old[k] = <<c, k>>
            /\ \A i \in 1 .. num : data[i] = <<c, Len(old) + i>>
        <4>1. /\ \A k \in 1 .. Len(old) : old[k] = <<c, k>>
              /\ \A i \in 1 .. num - 0 : data[0 + i] = <<c, Len(old) + i>>
          BY <2>2, <3>1 DEF Ordered, num, data, old
        <4>. QED
          BY <1>2, <4>1
      <3>5. ASSUME NEW k \in 1 .. Len(old) + n
            PROVE  (old \o part)[k] = <<c, k>>
        <4>1. (old \o part)[k] = IF k <= Len(old) THEN old[k] ELSE part[k - Len(old)]
          BY <1>2, <1>3, ConcatProperties
        <4>2. CASE k <= Len(old)
          BY <1>2, <3>4, <4>1, <4>2
        <4>3. CASE ~ (k <= Len(old))
          <5>1. k - Len(old) \in 1 .. n /\ k - Len(old) \in 1 .. num /\ Len(old) + (k - Len(old)) = k
            BY <1>2, <1>3, <4>3
          <5>2. part[k - Len(old)] = <<c, Len(old) + (k - Len(old))>>
            BY <1>3, <3>4, <5>1
          <5>. QED
            BY <4>1, <4>3, <5>1, <5>2
        <4>. QED
          BY <4>2, <4>3
      <3>6. ASSUME NEW i \in 1 .. num - n
            PROVE  data[n + i] = <<c, (Len(old) + n) + i>>
        <4>1. n + i \in 1 .. num /\ Len(old) + (n + i) = (Len(old) + n) + i
          BY <1>2, <1>3
        <4>2. data[n + i] = <<c, Len(old) + (n + i)>>
          BY <3>4, <4>1
        <4>. QED
          BY <4>1, <4>2
      <3>7. Ordered(c)'
        <4>1. sock'[c].num_bytes_received = num /\ sock'[c].received_data = data
          BY <1>5 DEF num, data
        <4>2. \A k \in 1 .. Len(read'[c]) : read'[c][k] = <<c, k>>
          BY <1>6, <2>3, <3>5
        <4>3. \A i \in 1 .. num - n : data[n + i] = <<c, Len(read'[c]) + i>>
          BY <2>3, <3>6
        <4>. QED
          BY <2>2, <4>1, <4>2, <4>3 DEF Ordered
      <3>. QED
        BY <3>3, <3>7
    <2>5. tcp'[c].state = tcp[c].state /\ sock'[c].mem = sock[c].mem
      BY <1>5
    <2>. QED
      BY <1>4, <1>5, <1>7, <1>9, <2>4, <2>5 DEF PrefixOK
  <1>. QED
    BY <1>8, <1>9

LEMMA PrefixStore ==
    ASSUME TableInv, AckInv, PrefixInv, RecvStore
    PROVE  PrefixInv'
  <1>. DEFINE c == call.conn
  <1>1. /\ c \in Conn /\ call.op = "store" /\ call.left \in Nat /\ call.n \in Nat
        /\ call'.op = "move" /\ call'.conn = c /\ call'.n = call.n /\ call'.left = call.left
        /\ sock'[c].num_bytes_received = call.left
        /\ \A e \in Conn : /\ sock'[e].mem = sock[e].mem
                           /\ sock'[e].received_data = sock[e].received_data
        /\ \A e \in Conn \ {c} : sock'[e] = sock[e]
        /\ UNCHANGED <<tcp, remote, odd, read>>
    BY StoreIs
  <1>2. \A e \in Conn : call # On("disconnect", e) /\ call' # On("disconnect", e)
    BY <1>1 DEF On
  <1>. SUFFICES ASSUME NEW e \in Conn
                PROVE  PrefixOK(e)'
    BY DEF PrefixInv
  <1>3. PrefixOK(e) /\ AckOK(e) /\ (Exclusive(e)' => Exclusive(e))
    BY <1>1, ExclusiveBack DEF PrefixInv, AckInv
  <1>4. CASE e # c
    BY <1>1, <1>2, <1>3, <1>4, PrefixKept
  <1>5. CASE e = c
    <2>1. /\ sock[e].num_bytes_received \in Nat /\ Len(sock[e].received_data) \in Nat
          /\ sock[e].num_bytes_received <= Len(sock[e].received_data) /\ Len(read[e]) \in Nat
      BY CountIs DEF TableInv, BufferOK, TypeOK, Socks
    <2>2. odd[e] = {} => sock[e].num_bytes_received = call.left + call.n
      BY <1>1, <1>3, <1>5 DEF AckOK
    <2>3. /\ Handed(e) = call.n /\ Counted(e) = call.n /\ Counted(e)' = 0
          /\ call.left > 0 => Handed(e)' = call.n
      BY <1>1, <1>5 DEF Handed, Counted
    <2>4. ASSUME Intact(e)'
          PROVE  Count(e)' <= MaxData /\ Ordered(e)'
      <3>1. Intact(e) /\ odd[e] = {}
        BY <1>1, <1>2, <1>3, <2>4 DEF Intact
      <3>2. sock[e].num_bytes_received - Counted(e) = call.left
        BY <1>1, <2>1, <2>2, <2>3, <3>1
      <3>3. sock'[e].num_bytes_received - Counted(e)' = call.left
        BY <1>1, <1>5, <2>3
      <3>4. Count(e)' = Count(e)
        <4>1. Count(e) = Len(read[e]) + call.left
          BY <3>2 DEF Count
        <4>2. Count(e)' = Len(read[e]) + call.left
          BY <1>1, <3>3 DEF Count
        <4>. QED
          BY <4>1, <4>2
      <3>5. Count(e) <= MaxData /\ Ordered(e)
        BY <1>3, <3>1 DEF PrefixOK
      <3>6. CASE call.left > 0
        BY <1>1, <2>3, <3>2, <3>3, <3>4, <3>5, <3>6 DEF Ordered
      <3>7. CASE ~ (call.left > 0)
        <4>1. \A i \in 1 .. call.left : FALSE
          BY <1>1, <3>7
        <4>. QED
          BY <1>1, <3>3, <3>4, <3>5, <4>1 DEF Ordered
      <3>. QED
        BY <3>6, <3>7
    <2>5. odd[e] = {} => call.left + call.n <= Len(sock[e].received_data)
      BY <2>1, <2>2
    <2>. QED
      BY <1>1, <1>2, <1>3, <1>5, <2>4, <2>5 DEF PrefixOK
  <1>. QED
    BY <1>4, <1>5

LEMMA PrefixMove ==
    ASSUME TableInv, PrefixInv, RecvMove
    PROVE  PrefixInv'
  <1>. DEFINE c == call.conn
              data == sock[c].received_data
              num == sock[c].num_bytes_received
              n == call.n
              left == call.left
              front == Moved(data, n, left)
              back == SubSeq(data, left + 1, num)
  <1>1. /\ TypeOK /\ BufferOK /\ call.op = "move" /\ sock \in [Conn -> Socks]
        /\ sock' = [sock EXCEPT ![c].received_data = front \o back]
        /\ call' = Idle /\ UNCHANGED <<tcp, remote, odd, read>>
    BY DEF TableInv, TypeOK, RecvMove, History
  <1>2. c \in Conn /\ left \in Nat /\ n \in Nat
    BY <1>1, CallIs DEF Reading
  <1>3. data \in Seq(Unit) /\ num \in Nat /\ left <= num /\ num <= Len(data)
    BY <1>1, <1>2 DEF Socks, BufferOK
  <1>4. Handed(c) = (IF left > 0 THEN n ELSE 0) /\ Counted(c) = 0
    BY <1>1 DEF Handed, Counted
  <1>5. call'.op = "none" /\ \A e \in Conn : call # On("disconnect", e) /\ call' # On("disconnect", e)
    BY <1>1 DEF On, Idle
  <1>6. left > 0 /\ odd[c] = {} => num = left /\ left + n <= Len(data)
    BY <1>1, <1>2 DEF PrefixInv, PrefixOK
  <1>8. \A e \in Conn \ {c} : call.conn # e
    OBVIOUS
  <1>. HIDE DEF c, data, num, n, left
  <1>9. /\ front \in Seq(Unit) /\ Len(front) = left
        /\ \A i \in 1 .. left : n + i <= Len(data) => front[i] = data[n + i]
    BY <1>2, <1>3, MovedType
  <1>10. /\ back \in Seq(Unit) /\ Len(back) = num - left
         /\ \A i \in 1 .. num - left : back[i] = data[left + i]
    <2>1. left + 1 \in 1 .. Len(data) + 1 /\ num \in (left + 1) - 1 .. Len(data)
      BY <1>2, <1>3
    <2>2. /\ back \in Seq(Unit)
          /\ Len(back) = IF left + 1 <= num THEN num - (left + 1) + 1 ELSE 0
          /\ \A i \in 1 .. num - (left + 1) + 1 : back[i] = data[left + 1 + i - 1]
      BY <1>3, <2>1, SubSeqProperties
    <2>. HIDE DEF back
    <2>. QED
      BY <1>2, <1>3, <2>2
  <1>. HIDE DEF front, back
  <1>11. \A i \in 1 .. left : (front \o back)[i] = front[i]
    <2>1. \A i \in 1 .. Len(front) + Len(back) : (front \o back)[i] =
                     IF i <= Len(front) THEN front[i] ELSE back[i - Len(front)]
      BY <1>9, <1>10, ConcatProperties
    <2>2. Len(back) \in Nat
      BY <1>10
    <2>. QED
      BY <1>2, <1>9, <2>1, <2>2
  <1>12. /\ \A e \in Conn : /\ sock'[e].mem = sock[e].mem
                            /\ sock'[e].num_bytes_received = sock[e].num_bytes_received
         /\ \A e \in Conn \ {c} : sock'[e] = sock[e]
         /\ sock'[c].received_data = front \o back
    BY <1>1, <1>2 DEF Socks
  <1>. SUFFICES ASSUME NEW e \in Conn
                PROVE  PrefixOK(e)'
    BY DEF PrefixInv
  <1>13. PrefixOK(e) /\ (Exclusive(e)' => Exclusive(e))
    BY <1>1, ExclusiveBack DEF PrefixInv
  <1>14. CASE e # c
    <2>1. Handed(e) = 0 /\ Counted(e) = 0 /\ Handed(e)' = 0 /\ Counted(e)' = 0
      BY <1>5, <1>8, <1>14 DEF Handed, Counted
    <2>2. Count(e)' = Count(e) /\ (Ordered(e) => Ordered(e)')
      BY <1>1, <1>12, <1>14, <2>1 DEF Count, Ordered
    <2>3. Intact(e)' => Intact(e)
      BY <1>1, <1>5, <1>12, <1>13, <1>14 DEF Intact
    <2>. QED
      BY <1>1, <1>5, <1>12, <1>13, <1>14, <2>2, <2>3 DEF PrefixOK
  <1>15. CASE e = c
    <2>0. /\ Handed(e)' = 0 /\ Counted(e)' = 0 /\ Counted(e) = 0
          /\ Handed(e) = IF left > 0 THEN n ELSE 0
      BY <1>4, <1>5, <1>15 DEF Handed, Counted
    <2>1. ASSUME Intact(e)'
          PROVE  Count(e)' <= MaxData /\ Ordered(e)'
      <3>1. Intact(e) /\ odd[e] = {}
        BY <1>1, <1>5, <1>12, <1>13, <2>1 DEF Intact
      <3>2. Count(e) <= MaxData /\ Ordered(e)
        BY <1>13, <1>15, <3>1 DEF PrefixOK
      <3>3. Count(e)' = Count(e)
        BY <1>1, <1>2, <2>0, <1>15, <1>12 DEF Count
      <3>4. sock'[e].num_bytes_received - Counted(e)' = num /\ sock[e].num_bytes_received - Counted(e) = num
        BY <1>3, <2>0, <1>15, <1>12 DEF num
      <3>5. ASSUME NEW i \in 1 .. num
            PROVE  sock'[e].received_data[0 + i] = <<e, Len(read[e]) + i>>
        <4>0. 0 + i = i
          BY <1>3
        <4>1. data[Handed(e) + i] = <<e, Len(read[e]) + i>>
          BY <1>15, <3>2, <3>4 DEF Ordered, data
        <4>2. CASE left > 0
          <5>1. num = left /\ left + n <= Len(data)
            BY <1>6, <1>15, <3>1, <4>2
          <5>2. data[n + i] = <<e, Len(read[e]) + i>>
            BY <2>0, <4>1, <4>2
          <5>3. n + i <= Len(data) /\ i \in 1 .. left
            BY <1>2, <1>3, <5>1
          <5>. QED
            BY <1>9, <1>11, <1>12, <1>15, <4>0, <5>2, <5>3
        <4>3. CASE ~ (left > 0)
          <5>1. left = 0 /\ num - left = num /\ left + i = i /\ i - 0 = i /\ ~ (i <= 0)
            BY <1>2, <1>3, <4>3
          <5>2. data[i] = <<e, Len(read[e]) + i>>
            BY <2>0, <4>0, <4>1, <4>3
          <5>3. (front \o back)[i] = back[i]
            <6>1. \A k \in 1 .. Len(front) + Len(back) : (front \o back)[k] =
                     IF k <= Len(front) THEN front[k] ELSE back[k - Len(front)]
              BY <1>9, <1>10, ConcatProperties
            <6>2. Len(front) = 0 /\ Len(back) = num /\ i \in 1 .. 0 + num
              BY <1>3, <1>9, <1>10, <5>1
            <6>. QED
              BY <5>1, <6>1, <6>2
          <5>4. back[i] = data[i]
            BY <1>10, <5>1
          <5>. QED
            BY <1>12, <1>15, <4>0, <5>2, <5>3, <5>4
        <4>. QED
          BY <4>2, <4>3
      <3>. QED
        BY <1>1, <2>0, <3>2, <3>3, <3>4, <3>5 DEF Ordered
    <2>. QED
      BY <1>1, <1>5, <1>12, <1>13, <1>15, <2>1 DEF PrefixOK
  <1>. QED
    BY <1>14, <1>15

LEMMA PrefixDelivered ==
    ASSUME TableInv, OrderInv, AckInv, PrefixInv, NEW c \in Conn, NEW s \in Arriving(c),
           tcp_ipv4_recv(s), NEW e \in Conn, Delivered(e, s), tcp[e].mem = "bound", tcp[e].state # "CLOSED",
           Matching(s) # {}, e = binds[First(Matching(s))], Intact(e)'
    PROVE  Count(e)' <= MaxData /\ Ordered(e)'
  <1>. DEFINE num == sock[e].num_bytes_received
              data == sock[e].received_data
              moved == Moved(data, 0, num)
              r == Len(read[e])
  <1>1. /\ sock'[e].received_data = Append(moved, s.data)
        /\ sock'[e].num_bytes_received = num + 1
        /\ odd'[e] = odd[e] \cup Spoilt(e, s)
        /\ s.seq = tcp[e].ack_number /\ sock[e].mem = "live" /\ ~Held(e)
        /\ tcp[e].state \notin {"FIN_WAIT1", "CLOSE_WAIT"} \/ "ACK" \notin s.flags
    BY DEF Delivered
  <1>2. UNCHANGED <<remote, call, read>>
    BY HandlerCases
  <1>3. Exclusive(e)
    BY <1>2, HandlerOthers, ExclusiveBack DEF Intact
  <1>4. odd[e] = {} /\ Spoilt(e, s) = {} /\ call # On("disconnect", e)
    BY <1>1, <1>2 DEF Intact
  <1>5. Intact(e) /\ Plain(e)
    BY <1>1, <1>3, <1>4 DEF Intact, Plain
  <1>6. call.op \in {"store", "move"} /\ call.conn = e => call.op = "move" /\ ~ (call.left > 0)
    BY <1>1, <1>4 DEF Spoilt, Held
  <1>7. Handed(e) = 0 /\ Counted(e) = 0 /\ Handed(e)' = 0 /\ Counted(e)' = 0
    BY <1>2, <1>6 DEF Handed, Counted
  <1>8. data \in Seq(Unit) /\ num \in Nat /\ num <= Len(data) /\ Len(data) \in Nat /\ r \in Nat
    BY DEF TableInv, TypeOK, Socks, BufferOK
  <1>9. Count(e) <= MaxData /\ Ordered(e) /\ tcp[e].state \in Open
    BY <1>1, <1>4, <1>5 DEF PrefixInv, PrefixOK
  <1>10. \A x \in Conn : tcp[x].state \in {"ESTABLISHED", "CLOSE_WAIT"} => tcp[x].est
    BY DEF AckInv, AckOK
  <1>11. tcp[e].est /\ \E k \in 1 .. MaxData : s.data = <<e, k>> /\ s.seq = (Isn + k) % Word /\ "ACK" \in s.flags
    BY <1>3, <1>4, <1>10, UnitDelivered DEF tcp_ipv4_recv
  <1>12. PICK k \in 1 .. MaxData : s.data = <<e, k>> /\ s.seq = (Isn + k) % Word /\ "ACK" \in s.flags
    BY <1>11
  <1>13. tcp[e].state = "ESTABLISHED"
    BY <1>1, <1>9, <1>11, <1>12 DEF Open, AckInv, AckOK
  <1>14. tcp[e].ack_number = (Isn + 1 + Count(e)) % Word
    BY <1>5, <1>13 DEF AckInv, AckOK
  <1>15. Count(e) = r + num
    BY <1>7, <1>8 DEF Count
  <1>16. k = r + num + 1
    <2>. HIDE DEF r, num
    <2>. DEFINE a == Isn + k
                b == Isn + 1 + Count(e)
    <2>0. MaxData + 4 < Word /\ MaxData \in Nat /\ Count(e) \in Nat /\ Isn \in Nat /\ Word \in Nat /\ k \in Nat
      BY <1>8, <1>15, Words, SocketsAssumption
    <2>1. a \in Nat /\ b \in Nat /\ MaxData + 4 < Word /\ MaxData \in Nat /\ Count(e) \in Nat /\ Isn \in Nat /\ Word \in Nat
      BY <2>0
    <2>2. a % Word = b % Word
      BY <1>1, <1>12, <1>14
    <2>3. (a <= b /\ b - a < Word) \/ (b <= a /\ a - b < Word)
      BY <1>9, <2>1
    <2>4. a = b
      <3>. HIDE DEF a, b
      <3>. QED
        BY <2>1, <2>2, <2>3, ModSame
    <2>5. k = 1 + Count(e)
      BY <2>1, <2>4
    <2>. QED
      BY <1>8, <1>15, <2>5
  <1>17. Count(e)' <= MaxData
    <2>1. Count(e)' = r + (num + 1) - 0
      BY <1>1, <1>2, <1>7 DEF Count
    <2>. HIDE DEF r, num, data
    <2>. QED
      BY <1>8, <1>12, <1>16, <2>1, SocketsAssumption
  <1>18. /\ moved \in Seq(Unit) /\ Len(moved) = num
         /\ \A i \in 1 .. num : 0 + i <= Len(data) => moved[i] = data[0 + i]
    <2>. HIDE DEF r, num, data
    <2>. QED
      BY <1>8, MovedType
  <1>19. \A i \in 1 .. num : data[i] = <<e, r + i>>
    <2>1. \A i \in 1 .. num - 0 : data[0 + i] = <<e, r + i>>
      BY <1>7, <1>9 DEF Ordered
    <2>. HIDE DEF data, num, r
    <2>. QED
      BY <1>8, <2>1
  <1>. HIDE DEF moved
  <1>20. ASSUME NEW i \in 1 .. num + 1
         PROVE  Append(moved, s.data)[i] = <<e, r + i>>
    <2>. HIDE DEF data, num, r
    <2>1. CASE i = num + 1
      <3>1. Append(moved, s.data)[i] = s.data
        BY <1>8, <1>18, <2>1
      <3>2. r + i = k
        BY <1>8, <1>16, <2>1
      <3>. QED
        BY <1>12, <3>1, <3>2
    <2>2. CASE i # num + 1
      <3>1. i \in 1 .. num /\ 0 + i = i /\ i <= Len(data)
        BY <1>8, <2>2
      <3>2. Append(moved, s.data)[i] = moved[i]
        BY <1>18, <3>1
      <3>3. moved[i] = data[i]
        BY <1>18, <3>1
      <3>. QED
        BY <1>19, <3>1, <3>2, <3>3
    <2>. QED
      BY <2>1, <2>2
  <1>21. Ordered(e)'
    <2>1. (num + 1) - 0 = num + 1 /\ \A i \in 1 .. num + 1 : 0 + i = i
      <3>. HIDE DEF num
      <3>. QED
        BY <1>8
    <2>2. \A j \in 1 .. Len(read[e]) : read[e][j] = <<e, j>>
      BY <1>9 DEF Ordered
    <2>3. \A i \in 1 .. (num + 1) - 0 : Append(moved, s.data)[0 + i] = <<e, Len(read[e]) + i>>
      <3>. HIDE DEF num, data
      <3>. QED
        BY <1>20, <2>1
    <2>. HIDE DEF data, num
    <2>. QED
      BY <1>1, <1>2, <1>7, <2>2, <2>3 DEF Ordered
  <1>. QED
    BY <1>17, <1>21

LEMMA PrefixHandler ==
    ASSUME TableInv, OrderInv, AckInv, PrefixInv, NEW c \in Conn, NEW s \in Arriving(c), tcp_ipv4_recv(s)
    PROVE  PrefixInv'
  <1>1. UNCHANGED <<remote, call, read>>
    BY HandlerCases
  <1>. SUFFICES ASSUME NEW e \in Conn
                PROVE  PrefixOK(e)'
    BY DEF PrefixInv
  <1>2. PrefixOK(e) /\ (Exclusive(e)' => Exclusive(e))
    BY <1>1, HandlerOthers, ExclusiveBack DEF PrefixInv
  <1>3. HandlerDoes(e, s)
    BY HandlerOn
  <1>4. ASSUME sock'[e] = sock[e], odd'[e] = odd[e], tcp[e].state \in Open => tcp'[e].state \in Open
        PROVE  PrefixOK(e)'
    <2>1. call' = On("disconnect", e) \/ call # On("disconnect", e)
      BY <1>1
    <2>. QED
      BY <1>1, <1>2, <1>4, <2>1, PrefixKept
  <1>5. CASE Untouched(e)
    BY <1>4, <1>5 DEF Untouched
  <1>6. CASE \/ Turned(e, "CLOSED", tcp[e].est, tcp[e].ack_number)
             \/ tcp[e].state = "SYN_SENT" /\ Turned(e, "ESTABLISHED", TRUE, Next32(Isn))
             \/ /\ tcp[e].state = "ESTABLISHED"
                /\ Turned(e, "CLOSE_WAIT", tcp[e].est, Next32(tcp[e].ack_number))
             \/ /\ tcp[e].state = "FIN_WAIT1"
                /\ Turned(e, "FIN_WAIT2", tcp[e].est, tcp[e].ack_number)
    BY <1>4, <1>6 DEF Turned, Open
  <1>7. CASE /\ Delivered(e, s) /\ tcp[e].mem = "bound" /\ tcp[e].state # "CLOSED"
             /\ Matching(s) # {} /\ e = binds[First(Matching(s))]
    <2>1. Intact(e)' => Count(e)' <= MaxData /\ Ordered(e)'
      BY <1>7, PrefixDelivered
    <2>2. /\ tcp'[e].state = tcp[e].state /\ sock'[e].mem = sock[e].mem
          /\ odd'[e] = odd[e] \cup Spoilt(e, s) /\ ~Held(e)
      BY <1>7 DEF Delivered
    <2>3. ~ (call.op = "move" /\ call.conn = e /\ call.left > 0)
      BY <2>2 DEF Held
    <2>. QED
      BY <1>1, <1>2, <2>1, <2>2, <2>3 DEF PrefixOK
  <1>. QED
    BY <1>3, <1>5, <1>6, <1>7 DEF HandlerDoes

LEMMA PrefixInit == Init => PrefixInv
  <1>. SUFFICES ASSUME Init, NEW c \in Conn
                PROVE  PrefixOK(c)
    BY DEF PrefixInv
  <1>. QED
    BY DEF Init, PrefixOK, Intact, Idle

LEMMA PrefixNext == TableInv /\ OrderInv /\ AckInv /\ PrefixInv /\ [Next]_vars => PrefixInv'
  <1>. SUFFICES ASSUME TableInv, OrderInv, AckInv, PrefixInv, [Next]_vars
                PROVE  PrefixInv'
    OBVIOUS
  <1>1. CASE UNCHANGED vars
    <2>1. UNCHANGED <<tcp, sock, call, remote, odd, read>>
      BY <1>1 DEF vars
    <2>. QED
      BY <2>1, PrefixQuiet
  <1>2. CASE CallStep
    BY <1>2, PrefixCalls, PrefixCopy, PrefixStore, PrefixMove DEF CallStep
  <1>3. CASE Arrive
    BY <1>3, PrefixHandler DEF Arrive
  <1>4. CASE ProgramExits
    BY <1>4, PrefixCalls
  <1>5. ASSUME NEW c \in Conn,
               sys_sock_connect(c) \/ sys_sock_send(c) \/ sys_sock_recv(c) \/ sys_sock_disconnect(c)
        PROVE  PrefixInv'
    BY <1>5, PrefixConnect, PrefixCalls
  <1>. QED
    BY <1>1, <1>2, <1>3, <1>4, <1>5 DEF Next

\* What a program has read and what waits for it is the beginning of what its peer
\* sent, for any amount of data, however it is lost, doubled, reordered and split
\* over reads.
THEOREM SocketsDeliveredIsPrefix == Spec => []DeliveredIsPrefix
  <1>1. TableInv /\ AckInv /\ PrefixInv => DeliveredIsPrefix
    <2>. SUFFICES ASSUME TableInv, AckInv, PrefixInv, NEW c \in Conn, Intact(c)
                  PROVE  \A k \in DOMAIN (read[c] \o Waiting(c)) : (read[c] \o Waiting(c))[k] = <<c, k>>
      BY DEF DeliveredIsPrefix, Intact
    <2>. DEFINE num == sock[c].num_bytes_received
                data == sock[c].received_data
                old == read[c]
                h == Handed(c)
                rest == num - Counted(c)
                wait == Moved(data, h, rest)
    <2>1. Ordered(c) /\ odd[c] = {} /\ TypeOK
      BY DEF PrefixInv, PrefixOK, Intact, TableInv
    <2>2. /\ data \in Seq(Unit) /\ old \in Seq(Unit) /\ Len(old) \in Nat /\ Len(data) \in Nat
          /\ num \in Nat /\ num <= Len(data)
      BY DEF TableInv, TypeOK, Socks, BufferOK
    <2>3. h \in Nat /\ rest \in Nat /\ h + rest <= Len(data)
      <3>1. CASE call.op = "store" /\ call.conn = c
        <4>1. call.n \in Nat /\ call.left \in Nat /\ num = call.left + call.n
          BY <2>1, <3>1, CallIs DEF AckInv, AckOK, Reading
        <4>2. Handed(c) = call.n /\ Counted(c) = call.n
          BY <3>1 DEF Handed, Counted
        <4>. QED
          BY <2>2, <4>1, <4>2
      <3>2. CASE call.op = "move" /\ call.conn = c /\ call.left > 0
        <4>1. call.n \in Nat /\ call.left \in Nat /\ num = call.left /\ call.left + call.n <= Len(data)
          BY <2>1, <3>2, CallIs DEF PrefixInv, PrefixOK, Reading
        <4>2. Handed(c) = call.n /\ Counted(c) = 0
          BY <3>2 DEF Handed, Counted
        <4>. QED
          BY <2>2, <4>1, <4>2
      <3>3. CASE ~ (call.op \in {"store", "move"} /\ call.conn = c /\ (call.op = "move" => call.left > 0))
        <4>1. Handed(c) = 0 /\ Counted(c) = 0
          BY <3>3 DEF Handed, Counted
        <4>. QED
          BY <2>2, <4>1
      <3>. QED
        BY <3>1, <3>2, <3>3
    <2>4. Waiting(c) = wait
      BY DEF Waiting
    <2>5. \A k \in 1 .. Len(old) : old[k] = <<c, k>>
      BY <2>1 DEF Ordered
    <2>6. \A i \in 1 .. rest : data[h + i] = <<c, Len(old) + i>>
      BY <2>1 DEF Ordered
    <2>. HIDE DEF data, h, rest, old, num
    <2>7. /\ wait \in Seq(Unit) /\ Len(wait) = rest
          /\ \A i \in 1 .. rest : h + i <= Len(data) => wait[i] = data[h + i]
      BY <2>2, <2>3, MovedType
    <2>. HIDE DEF wait
    <2>8. ASSUME NEW i \in 1 .. rest
          PROVE  wait[i] = <<c, Len(old) + i>>
      <3>1. h + i <= Len(data)
        BY <2>2, <2>3
      <3>. QED
        BY <2>6, <2>7, <3>1
    <2>9. /\ DOMAIN (old \o wait) = 1 .. Len(old) + rest
          /\ \A k \in 1 .. Len(old) + rest :
                (old \o wait)[k] = IF k <= Len(old) THEN old[k] ELSE wait[k - Len(old)]
      BY <2>2, <2>7, ConcatProperties
    <2>10. ASSUME NEW k \in 1 .. Len(old) + rest
           PROVE  (old \o wait)[k] = <<c, k>>
      <3>1. CASE k <= Len(old)
        <4>1. k \in 1 .. Len(old)
          BY <2>2, <2>3, <3>1
        <4>. QED
          BY <2>5, <2>9, <3>1, <4>1
      <3>2. CASE ~ (k <= Len(old))
        <4>1. k - Len(old) \in 1 .. rest /\ Len(old) + (k - Len(old)) = k
          BY <2>2, <2>3, <3>2
        <4>2. wait[k - Len(old)] = <<c, Len(old) + (k - Len(old))>>
          BY <2>8, <4>1
        <4>. QED
          BY <2>9, <3>2, <4>1, <4>2
      <3>. QED
        BY <3>1, <3>2
    <2>. QED
      BY <2>4, <2>9, <2>10 DEF old
  <1>. QED
    BY <1>1, TableInit, TableNext, OrderInit, OrderNext, AckInit, AckNext, PrefixInit, PrefixNext, PTL DEF Spec
=============================================================================
