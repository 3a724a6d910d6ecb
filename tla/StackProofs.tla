----------------------------- MODULE StackProofs -----------------------------
(***************************************************************************)
(* Proofs about the start-up of the network stack and ping, for every set  *)
(* of leases, every length of the waits, every size of the ARP cache and   *)
(* any number of packets: they may be lost, late and doubled.              *)
(*                                                                         *)
(* The configuration is copied value by value while interrupts store into  *)
(* the fields it is copied from.  The invariant says, for each place of    *)
(* the flow, which values are copies of what the fields hold now.          *)
(*                                                                         *)
(* The last part is about the resolver (Dns), for every zone, every number *)
(* of names and every MAX_LOOP_COUNT.                                      *)
(***************************************************************************)
EXTENDS Stack, Dns, WellFoundedInduction, TLAPS

IpAddress == {Bcast, Zero, Near, Far} \cup {Gateway(l) : l \in Lease}

Ready == {"up", "echo", "reply", "yes", "no"}
Starting == {"boot", "lease", "ip", "gateway", "mask", "announce", "dns"}

Leases == Lease \cup {-1, 0}

\* The parts of the state the two properties speak of have their types.
TypeOK ==
    /\ dhcp \in [lease : Lease \cup {0}, completed : BOOLEAN]
    /\ acked \subseteq Lease
    /\ gateway_ip \in Leases
    /\ main \in [pc : Ready \cup Starting \cup {"resolve"}, polls : Int,
                 target : IpAddress, route : IpAddress, next : {"boot", "dns", "echo"}]

\* What DHCP has stored is a lease that a server has confirmed, or nothing.
StoredIsConfirmed == dhcp.lease \in acked \cup {0}

\* Start-up is over, at the latest with the first ping.
Configured == main.pc \in Ready \/ (main.pc = "resolve" /\ main.next # "dns")

\* How far the copying has got.
CopiedSoFar ==
    /\ Copying => ip = dhcp.lease
    /\ Copying /\ main.pc # "gateway" => gateway_ip = dhcp.lease
    /\ Copying /\ main.pc \notin {"gateway", "mask"} => subnet_mask = dhcp.lease

Settled == ip = gateway_ip /\ ip = subnet_mask /\ ip = dns /\ ip \in acked \cup {0}

LeaseInv ==
    /\ TypeOK
    /\ StoredIsConfirmed
    /\ main.pc = "resolve" => main.next \in {"dns", "echo"}
    /\ ~overtaken => CopiedSoFar /\ (Configured => Settled)

----------------------------------------------------------------------------
(* Lemmas about the flow *)

\* A lease has a gateway, which is an address.
LEMMA GatewayIsAddress == \A l \in Leases : Gateway(l) \in IpAddress
  BY StackAssumption DEF Leases, Gateway, IpAddress

\* Where StartResolve leaves the flow.
LEMMA StartResolveGoes ==
    ASSUME NEW a \in IpAddress, NEW target \in IpAddress, NEW next \in {"dns", "echo"},
           StartResolve(a, next, target)
    PROVE  /\ main' \in [pc : {next, "resolve"}, polls : Int,
                         target : IpAddress, route : IpAddress, next : {next}]
           /\ main'.target = target
  <1>1. Polls \in Int
    BY StackAssumption
  <1>. QED
    BY <1>1 DEF StartResolve

\* Where a Goto leaves it: only pc and polls change.
LEMMA GotoGoes ==
    ASSUME TypeOK, NEW pc \in Ready \cup Starting \cup {"resolve"}, Goto(pc)
    PROVE  /\ main' \in [pc : {pc}, polls : Int, target : IpAddress, route : IpAddress,
                         next : {main.next}]
           /\ main'.target = main.target
  <1>1. Polls \in Int
    BY StackAssumption
  <1>. QED
    BY <1>1 DEF Goto, TypeOK

\* A Poll goes on, or stays where it is.
LEMMA PollGoes ==
    ASSUME TypeOK, NEW done, NEW then \in Ready \cup Starting \cup {"resolve"},
           Poll(done, then)
    PROVE  /\ main' \in [pc : {then, main.pc}, polls : Int, target : IpAddress,
                         route : IpAddress, next : {main.next}]
           /\ main'.target = main.target
           /\ main'.pc = main.pc \/ (main'.pc = then /\ (done \/ main.polls = 1))
  <1>1. CASE done \/ main.polls = 1
    <2>1. Goto(then)
      BY <1>1 DEF Poll
    <2>. QED
      BY <1>1, <2>1, GotoGoes
  <1>2. CASE ~(done \/ main.polls = 1)
    <2>1. main' = [main EXCEPT !.polls = @ - 1]
      BY <1>2 DEF Poll
    <2>. QED
      BY <2>1 DEF TypeOK
  <1>. QED
    BY <1>1, <1>2

----------------------------------------------------------------------------
(* One confirmed lease *)

LEMMA LeaseInit == Init => LeaseInv
  <1>. SUFFICES ASSUME Init PROVE LeaseInv
    OBVIOUS
  <1>1. Polls \in Int
    BY StackAssumption
  <1>2. TypeOK
    BY <1>1 DEF Init, TypeOK, Leases, IpAddress, Ready, Starting
  <1>. QED
    BY <1>2 DEF Init, LeaseInv, StoredIsConfirmed, CopiedSoFar, Copying, Configured, Ready

\* The flow keeps the invariant: each copy adds a value, the waits add nothing.
LEMMA LeaseFlow == LeaseInv /\ Flow => LeaseInv'
  <1>. SUFFICES ASSUME LeaseInv, Flow PROVE LeaseInv'
    OBVIOUS
  <1>. USE DEF LeaseInv, StoredIsConfirmed, CopiedSoFar, Copying, Configured, Settled, config
  <1>0. TypeOK /\ UNCHANGED <<acked, overtaken>>
    BY DEF Flow
  <1>1. CASE dhcp_request
    <2>1. main' \in [pc : {"lease"}, polls : Int, target : IpAddress, route : IpAddress,
                     next : {main.next}]
      BY <1>0, <1>1, GotoGoes DEF dhcp_request, Starting
    <2>. QED
      BY <1>0, <1>1, <2>1 DEF dhcp_request, TypeOK, Starting, Ready
  <1>2. CASE WaitForLease
    <2>1. main' \in [pc : {"ip", "lease"}, polls : Int, target : IpAddress, route : IpAddress,
                     next : {main.next}]
      BY <1>0, <1>2, PollGoes DEF WaitForLease, Starting
    <2>. QED
      BY <1>0, <1>2, <2>1 DEF WaitForLease, TypeOK, Starting, Ready
  <1>3. CASE CopyIp
    <2>1. main' \in [pc : {"gateway"}, polls : Int, target : IpAddress, route : IpAddress,
                     next : {main.next}]
      BY <1>0, <1>3, GotoGoes DEF CopyIp, Starting
    <2>. QED
      BY <1>0, <1>3, <2>1 DEF CopyIp, TypeOK, Starting, Ready
  <1>4. CASE CopyGateway
    <2>1. main' \in [pc : {"mask"}, polls : Int, target : IpAddress, route : IpAddress,
                     next : {main.next}]
      BY <1>0, <1>4, GotoGoes DEF CopyGateway, Starting
    <2>. QED
      BY <1>0, <1>4, <2>1 DEF CopyGateway, TypeOK, Starting, Ready, Leases
  <1>5. CASE CopyMask
    <2>1. main' \in [pc : {"announce"}, polls : Int, target : IpAddress, route : IpAddress,
                     next : {main.next}]
      BY <1>0, <1>5, GotoGoes DEF CopyMask, Starting
    <2>. QED
      BY <1>0, <1>5, <2>1 DEF CopyMask, TypeOK, Starting, Ready
  <1>6. CASE arp_broadcast_mac
    <2>1. Gateway(dhcp.lease) \in IpAddress /\ Bcast \in IpAddress
      BY <1>0, GatewayIsAddress DEF TypeOK, Leases, IpAddress
    <2>2. main' \in [pc : {"dns", "resolve"}, polls : Int, target : IpAddress,
                     route : IpAddress, next : {"dns"}]
      BY <1>6, <2>1, StartResolveGoes DEF arp_broadcast_mac
    <2>. QED
      BY <1>0, <1>6, <2>2 DEF arp_broadcast_mac, TypeOK, Starting, Ready
  <1>7. CASE arp_resolve
    <2>1. main.next \in {"dns", "echo"} /\ main.pc = "resolve"
      BY <1>7 DEF arp_resolve
    <2>2. main' \in [pc : {main.next, "resolve"}, polls : Int, target : IpAddress,
                     route : IpAddress, next : {main.next}]
      BY <1>0, <1>7, <2>1, PollGoes DEF arp_resolve, Starting, Ready
    <2>. QED
      BY <1>0, <1>7, <2>1, <2>2 DEF arp_resolve, TypeOK, Starting, Ready
  <1>8. CASE dns_init
    <2>1. main' \in [pc : {"up"}, polls : Int, target : IpAddress, route : IpAddress,
                     next : {main.next}]
      BY <1>0, <1>8, GotoGoes DEF dns_init, Ready
    <2>. QED
      BY <1>0, <1>8, <2>1 DEF dns_init, TypeOK, Starting, Ready
  <1>9. CASE SendEcho
    <2>1. main' \in [pc : {"reply"}, polls : Int, target : IpAddress, route : IpAddress,
                     next : {main.next}]
      BY <1>0, <1>9, GotoGoes DEF SendEcho, Ready
    <2>. QED
      BY <1>0, <1>9, <2>1 DEF SendEcho, TypeOK, Starting, Ready
  <1>10. CASE WaitForReply
    <2>1. main' \in [pc : {"yes", "no", "reply"}, polls : Int, target : IpAddress,
                     route : IpAddress, next : {main.next}]
      BY <1>0, <1>10, PollGoes DEF WaitForReply, Ready
    <2>. QED
      BY <1>0, <1>10, <2>1 DEF WaitForReply, TypeOK, Starting, Ready
  <1>11. CASE ReturnPing
    <2>1. main' \in [pc : {"up"}, polls : Int, target : IpAddress, route : IpAddress,
                     next : {main.next}]
      BY <1>0, <1>11, GotoGoes DEF ReturnPing, Ready
    <2>. QED
      BY <1>0, <1>11, <2>1 DEF ReturnPing, TypeOK, Starting, Ready
  <1>. QED
    BY <1>1, <1>2, <1>3, <1>4, <1>5, <1>6, <1>7, <1>8, <1>9, <1>10, <1>11 DEF Flow

\* The icmp system call starts from a configured stack and changes no value.
LEMMA LeasePing == LeaseInv /\ Ping => LeaseInv'
  <1>. SUFFICES ASSUME LeaseInv, Ping PROVE LeaseInv'
    OBVIOUS
  <1>. USE DEF LeaseInv, StoredIsConfirmed, CopiedSoFar, Copying, Configured, Settled, config
  <1>1. PICK a \in Target : icmp_send_echo_reqest_and_wait(a)
    BY DEF Ping
  <1>2. a \in IpAddress /\ Route(a) \in IpAddress
    BY GatewayIsAddress DEF Route, IpAddress, TypeOK, Target, Host, Local
  <1>3. main' \in [pc : {"echo", "resolve"}, polls : Int, target : IpAddress,
                   route : IpAddress, next : {"echo"}]
    BY <1>1, <1>2, StartResolveGoes DEF icmp_send_echo_reqest_and_wait
  <1>. QED
    BY <1>1, <1>3 DEF icmp_send_echo_reqest_and_wait, Ping, TypeOK, Starting, Ready

\* Of the packets only an acknowledgement touches what the invariant is about:
\* it stores a confirmed lease, and one that differs while values are being
\* copied is the case the property excepts.
LEMMA LeaseInterrupt == LeaseInv /\ Interrupt => LeaseInv'
  <1>. SUFFICES ASSUME LeaseInv, Interrupt PROVE LeaseInv'
    OBVIOUS
  <1>. USE DEF LeaseInv, StoredIsConfirmed, CopiedSoFar, Copying, Configured, Settled, config
  <1>1. ASSUME UNCHANGED <<dhcp, ip, gateway_ip, subnet_mask, dns, main, acked, overtaken>>
        PROVE  LeaseInv'
    BY <1>1 DEF TypeOK
  <1>2. ASSUME NEW l \in Lease, ReceiveOffer(l) PROVE LeaseInv'
    BY <1>1, <1>2 DEF ReceiveOffer
  <1>3. ASSUME NEW l \in Lease, ReceiveAck(l) PROVE LeaseInv'
    <2>1. /\ dhcp' = [lease |-> l, completed |-> TRUE]
          /\ acked' = acked \cup {l}
          /\ UNCHANGED <<ip, gateway_ip, subnet_mask, dns, main>>
      BY <1>3 DEF ReceiveAck
    <2>2. TypeOK' /\ StoredIsConfirmed'
      BY <2>1 DEF TypeOK
    <2>3. ASSUME ~overtaken'
          PROVE  CopiedSoFar' /\ (Configured' => Settled')
      <3>1. ~overtaken /\ ~(Copying /\ dhcp.lease # l)
        BY <1>3, <2>3 DEF ReceiveAck
      <3>. QED
        BY <2>1, <3>1 DEF TypeOK
    <2>. QED
      BY <2>1, <2>2, <2>3
  <1>4. ASSUME NEW p \in sent, NEW h \in Host, ReceiveArp(p) \/ ReceiveEchoReply(p, h)
        PROVE  LeaseInv'
    BY <1>1, <1>4 DEF ReceiveArp, ReceiveEchoReply
  <1>5. CASE ReceiveIcmp
    BY <1>1, <1>5 DEF ReceiveIcmp
  <1>. QED
    BY <1>2, <1>3, <1>4, <1>5 DEF Interrupt, Host, Local

LEMMA LeaseNext == LeaseInv /\ [Next]_vars => LeaseInv'
  <1>. SUFFICES ASSUME LeaseInv, [Next]_vars PROVE LeaseInv'
    OBVIOUS
  <1>1. ASSUME UNCHANGED <<dhcp, ip, gateway_ip, subnet_mask, dns, main, acked, overtaken>>
        PROVE  LeaseInv'
    BY <1>1 DEF LeaseInv, TypeOK, StoredIsConfirmed, CopiedSoFar, Copying, Configured, Settled
  <1>2. CASE IrqSleeps
    BY <1>1, <1>2 DEF IrqSleeps, config
  <1>3. CASE UNCHANGED vars
    BY <1>1, <1>3 DEF vars
  <1>. QED
    BY <1>2, <1>3, LeaseFlow, LeasePing, LeaseInterrupt DEF Next

\* The four values that start-up copies while acknowledgements arrive are of one
\* confirmed lease, or all empty, unless another lease was confirmed between the
\* first copy and the last.
THEOREM StackOneConfirmedLease == Spec => []OneConfirmedLease
  <1>1. LeaseInv => OneConfirmedLease
    BY DEF LeaseInv, OneConfirmedLease, Configured, Settled, Ready
  <1>2. Spec => []LeaseInv
    BY LeaseInit, LeaseNext, PTL DEF Spec
  <1>. QED
    BY <1>1, <1>2, PTL

----------------------------------------------------------------------------
(* Ping tells the truth *)

\* The reply field holds the last host that has answered since the ping began,
\* and a ping that has said yes had its answer in the field.
PingInv ==
    /\ TypeOK
    /\ main.pc = "resolve" => main.next \in {"dns", "echo"}
    /\ last_echo_reply_ip \in replied \cup {Zero}
    /\ YesMeansAnswered

LEMMA PingInit == Init => PingInv
  <1>1. LeaseInv /\ Init => PingInv
    BY DEF Init, LeaseInv, PingInv, YesMeansAnswered
  <1>. QED
    BY <1>1, LeaseInit

\* Answers arrive: what the field holds is replaced by a host that has replied,
\* and the set of those grows.  A new ping clears both together.
LEMMA PingNext == LeaseInv /\ LeaseInv' /\ PingInv /\ [Next]_vars => PingInv'
  <1>. SUFFICES ASSUME LeaseInv, LeaseInv', PingInv, [Next]_vars PROVE PingInv'
    OBVIOUS
  <1>0. TypeOK /\ TypeOK' /\ (main'.pc = "resolve" => main'.next \in {"dns", "echo"})
    BY DEF LeaseInv
  <1>1. ASSUME UNCHANGED <<main, last_echo_reply_ip, replied>> PROVE PingInv'
    BY <1>0, <1>1 DEF PingInv, YesMeansAnswered
  <1>2. ASSUME UNCHANGED <<last_echo_reply_ip, replied>>, main'.pc # "yes" PROVE PingInv'
    BY <1>0, <1>2 DEF PingInv, YesMeansAnswered
  <1>3. CASE Flow
    <2>1. CASE WaitForReply
      <3>1. /\ main'.pc = "yes" => last_echo_reply_ip = main.target
            /\ main'.target = main.target
        BY <1>0, <2>1, PollGoes DEF WaitForReply, Ready
      <3>. QED
        BY <1>0, <2>1, <3>1 DEF WaitForReply, PingInv, YesMeansAnswered
    <2>2. CASE arp_resolve
      <3>1. main'.pc \in {"dns", "echo", "resolve"}
        BY <1>0, <2>2, PollGoes DEF arp_resolve, PingInv, Ready, Starting
      <3>. QED
        BY <1>2, <2>2, <3>1 DEF arp_resolve
    <2>3. CASE WaitForLease
      <3>1. main'.pc \in {"ip", "lease"}
        BY <1>0, <2>3, PollGoes DEF WaitForLease, Starting
      <3>. QED
        BY <1>2, <2>3, <3>1 DEF WaitForLease
    <2>4. CASE arp_broadcast_mac
      <3>1. Gateway(dhcp.lease) \in IpAddress /\ Bcast \in IpAddress
        BY <1>0, GatewayIsAddress DEF TypeOK, Leases, IpAddress
      <3>2. main'.pc \in {"dns", "resolve"}
        BY <2>4, <3>1, StartResolveGoes DEF arp_broadcast_mac
      <3>. QED
        BY <1>2, <2>4, <3>2 DEF arp_broadcast_mac
    <2>5. CASE dhcp_request \/ CopyIp \/ CopyGateway \/ CopyMask \/ dns_init
                 \/ SendEcho \/ ReturnPing
      <3>1. main'.pc # "yes"
        BY <1>0, <2>5, GotoGoes
           DEF dhcp_request, CopyIp, CopyGateway, CopyMask, dns_init, SendEcho, ReturnPing,
               Ready, Starting
      <3>. QED
        BY <1>2, <2>5, <3>1
           DEF dhcp_request, CopyIp, CopyGateway, CopyMask, dns_init, SendEcho, ReturnPing
    <2>. QED
      BY <1>3, <2>1, <2>2, <2>3, <2>4, <2>5 DEF Flow
  <1>4. CASE Ping
    <2>1. PICK a \in Target : icmp_send_echo_reqest_and_wait(a)
      BY <1>4 DEF Ping
    <2>2. a \in IpAddress /\ Route(a) \in IpAddress
      BY <1>0, GatewayIsAddress DEF Route, IpAddress, TypeOK, Target, Host, Local
    <2>3. main'.pc \in {"echo", "resolve"}
      BY <2>1, <2>2, StartResolveGoes DEF icmp_send_echo_reqest_and_wait
    <2>. QED
      BY <1>0, <2>1, <2>3 DEF icmp_send_echo_reqest_and_wait, PingInv, YesMeansAnswered
  <1>5. CASE Interrupt
    <2>1. ASSUME NEW p \in sent, NEW h \in Host, ReceiveEchoReply(p, h) PROVE PingInv'
      BY <1>0, <2>1 DEF ReceiveEchoReply, PingInv, YesMeansAnswered
    <2>2. ASSUME NEW p \in sent, ReceiveArp(p) PROVE PingInv'
      BY <1>1, <2>2 DEF ReceiveArp
    <2>3. ASSUME NEW l \in Lease, ReceiveOffer(l) \/ ReceiveAck(l) PROVE PingInv'
      BY <1>1, <2>3 DEF ReceiveOffer, ReceiveAck
    <2>4. CASE ReceiveIcmp
      BY <1>1, <2>4 DEF ReceiveIcmp
    <2>. QED
      BY <1>5, <2>1, <2>2, <2>3, <2>4 DEF Interrupt
  <1>6. CASE IrqSleeps
    BY <1>1, <1>6 DEF IrqSleeps
  <1>7. CASE UNCHANGED vars
    BY <1>1, <1>7 DEF vars
  <1>. QED
    BY <1>3, <1>4, <1>5, <1>6, <1>7 DEF Next

\* ping says yes only for a host that has answered since the call began, whatever
\* arrives late from earlier calls or from other hosts; or for 0.0.0.0.
THEOREM StackYesMeansAnswered == Spec => []YesMeansAnswered
  <1>1. Spec => []LeaseInv
    BY LeaseInit, LeaseNext, PTL DEF Spec
  <1>2. Spec => []PingInv
    BY <1>1, PingInit, PingNext, PTL DEF Spec
  <1>3. PingInv => YesMeansAnswered
    BY DEF PingInv
  <1>. QED
    BY <1>2, <1>3, PTL

----------------------------------------------------------------------------
(* The resolver *)

\* The name with an alias has the address of the alias, and the chain of a name
\* with an address ends there.
LEMMA ChainIs ==
    ASSUME zone \in [Name -> Record], NEW n \in Name
    PROVE  /\ n \in Chain(n) /\ Chain(n) \subseteq Name
           /\ Closed(Chain(n))
           /\ \A S \in SUBSET Name : n \in S /\ Closed(S) => Chain(n) \subseteq S
  <1>1. n \in Chain(n) /\ Chain(n) \subseteq Name
    BY DEF Chain
  <1>2. \A S \in SUBSET Name : n \in S /\ Closed(S) => Chain(n) \subseteq S
    BY DEF Chain
  <1>3. ASSUME NEW m \in Chain(n)
        PROVE  Alias(m) \in Chain(n)
    <2>1. m \in Name
      BY <1>1
    <2>2. Alias(m) \in Name
      BY <2>1 DEF Alias, Record
    <2>3. ASSUME NEW S \in SUBSET Name, n \in S, Closed(S)
          PROVE  Alias(m) \in S
      <3>1. m \in S
        BY <1>2, <2>3
      <3>. QED
        BY <2>3, <3>1 DEF Closed
    <2>. QED
      BY <2>2, <2>3 DEF Chain
  <1>4. Closed(Chain(n))
    BY <1>3 DEF Closed
  <1>. QED
    BY <1>1, <1>2, <1>4

LEMMA AddressIs ==
    ASSUME zone \in [Name -> Record], NEW n \in Name
    PROVE  /\ Address(n) \in Name \cup {Nothing}
           /\ zone[n].kind = "A" => Address(n) = n
           /\ zone[n].kind = "CNAME" => /\ zone[n].of \in Name
                                        /\ Address(n) = Address(zone[n].of)
  <1>1. Address(n) \in Name \cup {Nothing}
    BY ChainIs DEF Address, Ends
  <1>2. ASSUME zone[n].kind = "A"
        PROVE  Address(n) = n
    <2>1. Alias(n) = n
      BY <1>2 DEF Alias
    <2>2. Closed({n})
      BY <2>1 DEF Closed
    <2>3. Chain(n) \subseteq {n}
      BY <2>2, ChainIs
    <2>4. Ends(n) = {n}
      BY <1>2, <2>3, ChainIs DEF Ends
    <2>. QED
      BY <2>4 DEF Address
  <1>3. ASSUME zone[n].kind = "CNAME"
        PROVE  zone[n].of \in Name /\ Address(n) = Address(zone[n].of)
    <2>. DEFINE b == zone[n].of
    <2>1. b \in Name /\ Alias(n) = b
      <3>1. zone[n] \in Record
        OBVIOUS
      <3>2. zone[n] \in [kind : {"CNAME"}, of : Name]
        BY <1>3, <3>1 DEF Record
      <3>. QED
        BY <1>3, <3>2 DEF Alias
    <2>. HIDE DEF b
    <2>. DEFINE S == Chain(b) \cup {n}
    <2>2. Closed(S) /\ S \subseteq Name
      BY <2>1, ChainIs DEF Closed
    <2>3. Chain(n) \subseteq S
      BY <2>2, ChainIs
    <2>4. Chain(b) \subseteq Chain(n)
      <3>1. b \in Chain(n)
        BY <2>1, ChainIs DEF Closed
      <3>. QED
        BY <2>1, <3>1, ChainIs
    <2>5. Ends(n) = Ends(b)
      BY <1>3, <2>3, <2>4 DEF Ends
    <2>6. Address(n) = Address(b)
      BY <2>5 DEF Address
    <2>. QED
      BY <2>1, <2>6 DEF b
  <1>. QED
    BY <1>1, <1>2, <1>3

\* The server's addresses, and the results that agree with it.
AddressOf == [n \in Name |-> Address(n)]

Result == [name : Name, ipv4 : Name \cup {Nothing}, cname : Name \cup {Nothing}]

FromServer == {r \in Result :
    /\ r.ipv4 \in {Nothing, Address(r.name)}
    /\ zone[r.name].kind = "A" => r.ipv4 = r.name
    /\ r.ipv4 = Nothing => zone[r.name].kind = "CNAME" /\ r.cname = zone[r.name].of}

LEMMA ServerStays ==
    ASSUME zone' = zone
    PROVE  AddressOf' = AddressOf /\ FromServer' = FromServer
  BY DEF AddressOf, FromServer, Address, Ends, Chain, Closed, Alias

\* The name that is looked up, through however many aliases, has the address of
\* the one that was asked.
OnTheWay ==
    /\ AddressOf[lookup.name] = AddressOf[lookup.domain]
    /\ zone[lookup.domain].kind = "A" => lookup.name = lookup.domain

Answered ==
    /\ lookup.answer # Nothing => lookup.answer = AddressOf[lookup.domain]
    /\ zone[lookup.domain].kind = "A" => lookup.answer # Nothing \/ lookup.timeout

Lookup == [pc : {"idle", "resolve", "wait", "done"}, domain : Name, name : Name,
           polls : Nat, answer : Name \cup {Nothing}, timeout : BOOLEAN]

DnsInv ==
    /\ zone \in [Name -> Record]
    /\ results \in Seq(FromServer)
    /\ lookup \in Lookup
    /\ lookup.pc \in {"resolve", "wait"} => OnTheWay
    /\ lookup.pc = "done" => Answered

LEMMA ResponseIs ==
    ASSUME zone \in [Name -> Record], Nothing \notin Name, NEW n \in Name,
           NEW r \in Response(n), r.ipv4 # Nothing \/ r.cname # Nothing
    PROVE  r \in FromServer
  <1>1. Address(n) \in Name \cup {Nothing} /\ zone[n] \in Record
    BY AddressIs
  <1>2. CASE zone[n].kind = "A"
    <2>1. r = [name |-> n, ipv4 |-> n, cname |-> Nothing]
      BY <1>2 DEF Response
    <2>2. Address(n) = n
      BY <1>2, AddressIs
    <2>. QED
      BY <1>2, <2>1, <2>2 DEF Result, FromServer
  <1>3. CASE zone[n].kind = "CNAME"
    <2>1. PICK a \in {Nothing, Address(n)} : r = [name |-> n, ipv4 |-> a, cname |-> zone[n].of]
      BY <1>3 DEF Response
    <2>2. zone[n].of \in Name
      BY <1>3, AddressIs
    <2>3. r \in Result
      BY <1>1, <2>1, <2>2 DEF Result
    <2>. QED
      BY <1>3, <2>1, <2>3 DEF FromServer
  <1>4. CASE zone[n].kind # "A" /\ zone[n].kind # "CNAME"
    BY <1>4 DEF Response
  <1>. QED
    BY <1>2, <1>3, <1>4

\* dns_find_result returns a result for the name.
LEMMA FoundIs ==
    ASSUME DnsInv, NEW n, Matches(n) # {}
    PROVE  dns_find_result(n) \in FromServer /\ dns_find_result(n).name = n
  <1>. DEFINE M == Matches(n)
  <1>1. Len(results) \in Nat
    BY DEF DnsInv
  <1>2. M \subseteq 1 .. Len(results) /\ M \subseteq Nat
    BY <1>1 DEF Matches
  <1>3. PICK i \in M : \A j \in M : ~ (<<j, i>> \in OpToRel(<, Nat))
    BY <1>2, WFMin, NatLessThanWellFounded
  <1>4. \A j \in M : i <= j
    <2>. TAKE j \in M
    <2>1. i \in Nat /\ j \in Nat /\ ~ (<<j, i>> \in OpToRel(<, Nat))
      BY <1>2, <1>3
    <2>. QED
      BY <2>1 DEF OpToRel
  <1>5. PICK k \in M : dns_find_result(n) = results[k]
    BY <1>3, <1>4 DEF dns_find_result
  <1>6. k \in 1 .. Len(results) /\ results[k].name = n
    BY <1>1, <1>5 DEF Matches
  <1>. QED
    BY <1>5, <1>6 DEF DnsInv

\* What dns_resolve_A makes of a result for the name it looks up.
LEMMA UseKeeps ==
    ASSUME DnsInv, lookup.pc \in {"resolve", "wait"},
           NEW r \in FromServer, r.name = lookup.name, UseResult(r),
           UNCHANGED <<zone, results>>
    PROVE  DnsInv'
  <1>1. lookup \in Lookup /\ OnTheWay /\ zone \in [Name -> Record] /\ Nothing \notin Name
    BY DnsAssumption DEF DnsInv
  <1>2. lookup.name \in Name /\ lookup.domain \in Name
    BY <1>1 DEF Lookup
  <1>3. AddressOf' = AddressOf /\ FromServer' = FromServer
    BY ServerStays
  <1>4. SUFFICES /\ lookup' \in Lookup
                 /\ lookup'.pc \in {"resolve", "wait"} => OnTheWay'
                 /\ lookup'.pc = "done" => Answered'
    BY <1>1, <1>3 DEF DnsInv
  <1>5. CASE r.ipv4 # Nothing /\ Done(r.ipv4, FALSE)
    <2>1. r.ipv4 = AddressOf[lookup.domain] /\ r.ipv4 \in Name
      BY <1>1, <1>2, <1>5 DEF FromServer, Result, OnTheWay, AddressOf
    <2>2. /\ lookup' \in Lookup /\ lookup'.pc = "done" /\ lookup'.answer = r.ipv4
          /\ lookup'.domain = lookup.domain
      BY <1>1, <1>5, <2>1 DEF Done, Lookup
    <2>. QED
      BY <1>3, <1>5, <2>1, <2>2 DEF Answered
  <1>6. CASE r.ipv4 = Nothing /\ Done(Nothing, FALSE)
    <2>1. /\ lookup' \in Lookup /\ lookup'.pc = "done" /\ lookup'.answer = Nothing
          /\ lookup'.domain = lookup.domain
      BY <1>1, <1>6 DEF Done, Lookup
    <2>2. zone[lookup.domain].kind # "A"
      BY <1>1, <1>6 DEF FromServer, OnTheWay
    <2>. QED
      BY <2>1, <2>2 DEF Answered
  <1>7. CASE /\ r.ipv4 = Nothing
             /\ lookup' = [lookup EXCEPT !.pc = "resolve", !.name = r.cname]
    <2>1. zone[lookup.name].kind = "CNAME" /\ r.cname = zone[lookup.name].of
      BY <1>7 DEF FromServer
    <2>2. r.cname \in Name /\ AddressOf[lookup.name] = AddressOf[r.cname]
      BY <1>1, <1>2, <2>1, AddressIs DEF AddressOf
    <2>3. /\ lookup' \in Lookup /\ lookup'.pc = "resolve" /\ lookup'.name = r.cname
          /\ lookup'.domain = lookup.domain
      BY <1>1, <1>7, <2>2 DEF Lookup
    <2>4. zone[lookup.domain].kind # "A"
      BY <1>1, <2>1 DEF OnTheWay
    <2>. QED
      BY <1>1, <1>3, <2>2, <2>3, <2>4 DEF OnTheWay
  <1>. QED
    BY <1>5, <1>6, <1>7 DEF UseResult

LEMMA DnsInvInit ==
    ASSUME DnsInit
    PROVE  DnsInv
  <1>1. PICK n \in Name : lookup = [pc |-> "idle", domain |-> n, name |-> n, polls |-> 0,
                                    answer |-> Nothing, timeout |-> FALSE]
    BY DEF DnsInit
  <1>2. zone \in [Name -> Record] /\ results = <<>>
    BY DEF DnsInit
  <1>. QED
    BY <1>1, <1>2 DEF DnsInv, Lookup

LEMMA DnsInvNext ==
    ASSUME DnsInv, [DnsNext]_dnsVars
    PROVE  DnsInv'
  <1>1. lookup \in Lookup /\ zone \in [Name -> Record] /\ results \in Seq(FromServer)
    BY DEF DnsInv
  <1>2. zone' = zone
    BY DEF DnsNext, sys_dns_a, dns_resolve_A, ResolveCached, Request, Await, Return,
       dns_udp_recv, dnsVars
  <1>3. AddressOf' = AddressOf /\ FromServer' = FromServer
    BY <1>2, ServerStays
  <1>4. ASSUME NEW d \in Name, sys_dns_a(d)
        PROVE  DnsInv'
    BY <1>1, <1>2, <1>3, <1>4 DEF sys_dns_a, DnsInv, Lookup, OnTheWay
  <1>5. CASE ResolveCached
    BY <1>5, FoundIs, UseKeeps DEF ResolveCached
  <1>6. CASE Request
    BY <1>1, <1>2, <1>3, <1>6 DEF Request, DnsInv, Lookup, OnTheWay
  <1>7. CASE Await
    <2>1. CASE Arrived /\ UseResult(dns_find_result(lookup.name))
      BY <1>7, <2>1, FoundIs, UseKeeps DEF Await, Arrived
    <2>2. CASE lookup' = [lookup EXCEPT !.polls = @ + 1]
      BY <1>1, <1>2, <1>3, <1>7, <2>2 DEF Await, DnsInv, Lookup, OnTheWay
    <2>3. CASE Done(Nothing, TRUE)
      BY <1>1, <1>2, <1>3, <1>7, <2>3 DEF Await, Done, DnsInv, Lookup, Answered
    <2>. QED
      BY <1>7, <2>1, <2>2, <2>3 DEF Await
  <1>8. CASE Return
    BY <1>1, <1>2, <1>3, <1>8 DEF Return, DnsInv, Lookup
  <1>9. ASSUME NEW n \in Name, dns_udp_recv(n)
        PROVE  DnsInv'
    <2>1. lookup' = lookup
      BY <1>9 DEF dns_udp_recv
    <2>2. PICK r \in Response(n) : IF r.ipv4 # Nothing \/ r.cname # Nothing
                                     THEN results' = Append(results, r) ELSE results' = results
      BY <1>9 DEF dns_udp_recv
    <2>3. results' \in Seq(FromServer)
      BY <1>1, <2>2, ResponseIs, DnsAssumption
    <2>. QED
      BY <1>1, <1>2, <1>3, <2>1, <2>3 DEF DnsInv, OnTheWay, Answered
  <1>10. CASE UNCHANGED dnsVars
    BY <1>3, <1>10 DEF dnsVars, DnsInv, OnTheWay, Answered
  <1>. QED
    BY <1>4, <1>5, <1>6, <1>7, <1>8, <1>9, <1>10 DEF DnsNext, dns_resolve_A

LEMMA DnsInvariant == DnsSpec => []DnsInv
  <1>1. DnsInit => DnsInv
    BY DnsInvInit
  <1>2. DnsInv /\ [DnsNext]_dnsVars => DnsInv'
    BY DnsInvNext
  <1>. QED
    BY <1>1, <1>2, PTL DEF DnsSpec

LEMMA InvAnswer ==
    ASSUME DnsInv
    PROVE  AnswerIsForTheQuestion /\ AddressNotRefused
  BY DEF DnsInv, Lookup, Answered, AddressOf, AnswerIsForTheQuestion, AddressNotRefused

\* What dns_resolve_A returns is the address the server has for the name asked,
\* through any chain of aliases, with any responses from this and from earlier
\* lookups in the cache, in any order and number.
THEOREM DnsAnswerIsForTheQuestion == DnsSpec => []AnswerIsForTheQuestion
  BY DnsInvariant, InvAnswer, PTL

\* A name that has an address is never refused because of the counter that
\* earlier lookups left in dns_provider_t.
THEOREM DnsAddressNotRefused == DnsSpec => []AddressNotRefused
  BY DnsInvariant, InvAnswer, PTL

=============================================================================
