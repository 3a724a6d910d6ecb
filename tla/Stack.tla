------------------------------- MODULE Stack -------------------------------
(***************************************************************************)
(* The network stack from start-up on: load_network_stack (net/stack.c),   *)
(* DHCP (dhcp.c), ARP (arp.c), echo requests (icmp.c) and the routing and  *)
(* the receive filters of ipv4.c and etherframe.c between them.            *)
(*                                                                         *)
(* The kernel's own flow - start-up, later the icmp system call - waits by *)
(* sleeping and testing what the interrupt handlers store.  A handler that *)
(* sends (an answer to an offer or to an echo request) goes through        *)
(* arp_resolve, which sleeps inside the interrupt: nothing else is         *)
(* received meanwhile, and with the PIT as timer the sleep never ends.     *)
(*                                                                         *)
(* The network is external: what answers something that was sent may       *)
(* arrive late, several times or never.  Servers offer leases; a request   *)
(* names no server, and every server confirms its own offer.               *)
(*                                                                         *)
(* Abstraction.  A lease is a number; 0 stands for the cleared fields of a *)
(* stack without one, -1 for the 255.255.255.255 of ipv4_init.  A MAC      *)
(* address is named by its owner's address.  Near is a host in the subnet, *)
(* Far one outside it.                                                     *)
(***************************************************************************)
EXTENDS Integers, Sequences, FiniteSets

CONSTANTS
    Lease,       \* the leases on offer, a set of positive numbers
    Polls,       \* tests in a NET_TIMEOUT (1999)
    CacheSize,   \* CACHE_SIZE
    MaxArrivals, \* bound: packets received
    MaxPings     \* bound: calls of icmp

ASSUME StackAssumption ==
    /\ Lease \subseteq Nat \ {0}
    /\ Polls \in Nat \ {0} /\ CacheSize \in Nat

Bcast == <<"broadcast", 0>>
Zero == <<"0.0.0.0", 0>>
Near == <<"near", 0>>
Far == <<"far", 0>>
Gateway(l) == CASE l = -1 -> Bcast [] l = 0 -> Zero [] OTHER -> <<"gateway", l>>
Local == {Near} \cup {Gateway(l) : l \in Lease}
Host == Local \cup {Far}

VARIABLES
    timer,       \* global_timer_driver: "hpet" or "pit"
    dhcp,        \* dhpc_provider_t: the lease of its fields, and completed
    ip,          \* nic->ip, as the lease it is from
    gateway_ip, subnet_mask,  \* stack->ipv4
    dns,         \* the server's address dns_init was given
    cache,       \* ARP: the addresses in ip_cache, in order
    last_echo_reply_ip,
    main,        \* the kernel's flow: where it is, and what it waits for
    irq,         \* the interrupt handler, if it sleeps
    sent,        \* history: what was sent that can be answered
    acked,       \* history: the leases confirmed
    overtaken,   \* history: another lease was confirmed while one was copied
    replied,     \* history: who answered since the last icmp call began
    pings, arrivals,
    halted       \* abortf

vars == <<timer, dhcp, ip, gateway_ip, subnet_mask, dns, cache, last_echo_reply_ip, main, irq,
          sent, acked, overtaken, replied, pings, arrivals, halted>>

config == <<ip, gateway_ip, subnet_mask, dns>>

Free == [route |-> Bcast, polls |-> 0, sends |-> {}]    \* no handler sleeps

----------------------------------------------------------------------------
(* Routing and address resolution *)

\* An address under the mask of a lease: all leases are in one subnet.
Net(a) == CASE a = Zero -> 0 [] a = Bcast -> 2 [] a = Far -> 3 [] OTHER -> 1

\* ipv4_send: by way of the gateway unless both ends are equal under the mask;
\* a mask of 0 hides every difference and one of -1 none.
SameSubnet(dest) ==
    \/ subnet_mask = 0
    \/ Net(dest) = (IF ip = 0 THEN 0 ELSE 1) /\ (subnet_mask # -1 \/ dest = Zero)

Route(dest) == IF SameSubnet(dest) THEN dest ELSE Gateway(gateway_ip)

Cached(a) == \E i \in 1 .. Len(cache) : cache[i] = a

\* arp_resolve asks once, before it waits.
Asked(a) == IF Cached(a) \/ a = Bcast THEN {} ELSE {[what |-> "arp", about |-> a, from |-> ip]}

\* The flow begins to resolve a and goes on at `next`, at once for a broadcast.
StartResolve(a, next, target) ==
    /\ main' = [pc |-> IF a = Bcast THEN next ELSE "resolve", polls |-> Polls,
                target |-> target, route |-> a, next |-> next]
    /\ sent' = sent \cup Asked(a)

Goto(pc) == main' = [main EXCEPT !.pc = pc, !.polls = Polls]

----------------------------------------------------------------------------
(* load_network_stack *)

Idle == irq = Free /\ ~halted

dhcp_request ==
    /\ main.pc = "boot"
    /\ sent' = sent \cup {[what |-> "discover", about |-> Bcast, from |-> 0]}
    /\ Goto("lease")
    /\ UNCHANGED <<dhcp, config, cache, last_echo_reply_ip, pings, replied>>

Wrong_Poll(done, then) ==
    IF done THEN Goto(then) ELSE main' = [main EXCEPT !.polls = Polls]

\* One turn of a NET_TIMEOUT: goes on when the test holds or the turns are up.
Poll(done, then) ==
    IF done \/ main.polls = 1 THEN Goto(then) ELSE main' = [main EXCEPT !.polls = @ - 1]

WaitForLease ==
    /\ main.pc = "lease"
    /\ Poll(dhcp.completed, "ip")
    /\ UNCHANGED <<dhcp, config, cache, last_echo_reply_ip, sent, pings, replied>>

CopyIp ==
    /\ main.pc = "ip" /\ ip' = dhcp.lease
    /\ Goto("gateway")
    /\ UNCHANGED <<dhcp, gateway_ip, subnet_mask, dns, cache, last_echo_reply_ip, sent, pings, replied>>

CopyGateway ==
    /\ main.pc = "gateway" /\ gateway_ip' = dhcp.lease
    /\ Goto("mask")
    /\ UNCHANGED <<dhcp, ip, subnet_mask, dns, cache, last_echo_reply_ip, sent, pings, replied>>

CopyMask ==
    /\ main.pc = "mask" /\ subnet_mask' = dhcp.lease
    /\ Goto("announce")
    /\ UNCHANGED <<dhcp, ip, gateway_ip, dns, cache, last_echo_reply_ip, sent, pings, replied>>

arp_broadcast_mac ==
    /\ main.pc = "announce"
    /\ StartResolve(Gateway(dhcp.lease), "dns", Bcast)
    /\ UNCHANGED <<dhcp, config, cache, last_echo_reply_ip, pings, replied>>

\* The wait of arp_resolve in the flow; it gives up with the broadcast address.
arp_resolve ==
    /\ main.pc = "resolve"
    /\ Poll(Cached(main.route), main.next)
    /\ UNCHANGED <<dhcp, config, cache, last_echo_reply_ip, sent, pings, replied>>

dns_init ==
    /\ main.pc = "dns" /\ dns' = dhcp.lease
    /\ Goto("up")
    /\ UNCHANGED <<dhcp, ip, gateway_ip, subnet_mask, cache, last_echo_reply_ip, sent, pings, replied>>

----------------------------------------------------------------------------
(* The icmp system call *)

Wrong_icmp_send_echo_reqest_and_wait(a) ==
    /\ main.pc = "up" /\ pings < MaxPings
    /\ pings' = pings + 1
    /\ replied' = {}
    /\ UNCHANGED last_echo_reply_ip
    /\ StartResolve(Route(a), "echo", a)
    /\ UNCHANGED <<dhcp, config, cache>>

icmp_send_echo_reqest_and_wait(a) ==
    /\ main.pc = "up" /\ pings < MaxPings
    /\ pings' = pings + 1
    /\ replied' = {}
    /\ last_echo_reply_ip' = Zero
    /\ StartResolve(Route(a), "echo", a)
    /\ UNCHANGED <<dhcp, config, cache>>

SendEcho ==
    /\ main.pc = "echo"
    /\ sent' = sent \cup {[what |-> "echo", about |-> main.target, from |-> ip]}
    /\ Goto("reply")
    /\ UNCHANGED <<dhcp, config, cache, last_echo_reply_ip, pings, replied>>

Wrong_WaitForReply ==                   \* any reply will do
    /\ main.pc = "reply"
    /\ Poll(last_echo_reply_ip # Zero, IF last_echo_reply_ip # Zero THEN "yes" ELSE "no")
    /\ UNCHANGED <<dhcp, config, cache, last_echo_reply_ip, sent, pings, replied>>

\* The call returns true in "yes", false in "no".
WaitForReply ==
    /\ main.pc = "reply"
    /\ Poll(last_echo_reply_ip = main.target, IF last_echo_reply_ip = main.target THEN "yes" ELSE "no")
    /\ UNCHANGED <<dhcp, config, cache, last_echo_reply_ip, sent, pings, replied>>

ReturnPing ==
    /\ main.pc \in {"yes", "no"}
    /\ Goto("up")
    /\ UNCHANGED <<dhcp, config, cache, last_echo_reply_ip, sent, pings, replied>>

Flow ==
    /\ Idle
    /\ \/ dhcp_request \/ WaitForLease \/ CopyIp \/ CopyGateway \/ CopyMask
       \/ arp_broadcast_mac \/ arp_resolve \/ dns_init
       \/ SendEcho \/ WaitForReply \/ ReturnPing
    /\ UNCHANGED <<timer, irq, acked, overtaken, arrivals, halted>>

\* Programs may name any address: a host, 0.0.0.0 or 255.255.255.255.
Target == Host \cup {Zero, Bcast}

Ping ==
    /\ Idle
    /\ \E a \in Target : icmp_send_echo_reqest_and_wait(a)
    /\ UNCHANGED <<timer, irq, acked, overtaken, arrivals, halted>>

----------------------------------------------------------------------------
(* Interrupts *)

Arrives == Idle /\ arrivals < MaxArrivals /\ arrivals' = arrivals + 1

\* The handler sends to dest, or sleeps in arp_resolve before it does.
SendFromIrq(dest, packets) ==
    IF Route(dest) = Bcast
    THEN sent' = sent \cup packets /\ UNCHANGED irq
    ELSE /\ sent' = sent \cup Asked(Route(dest))
         /\ irq' = [route |-> Route(dest), polls |-> Polls, sends |-> packets]

Wrong_ReceiveOffer(l) ==
    /\ Arrives
    /\ \E p \in sent : p.what = "discover"
    /\ dhcp' = [lease |-> l, completed |-> TRUE]
    /\ UNCHANGED <<timer, config, cache, last_echo_reply_ip, main, irq, sent, acked, overtaken,
                   replied, pings, halted>>

\* dhcp_udp_recv, type 2: every offer is answered with a request.
ReceiveOffer(l) ==
    /\ Arrives
    /\ \E p \in sent : p.what = "discover"
    /\ SendFromIrq(Bcast, {[what |-> "request", about |-> Gateway(l), from |-> 0]})
    /\ UNCHANGED <<timer, dhcp, config, cache, last_echo_reply_ip, main, acked, overtaken,
                   replied, pings, halted>>

\* Start-up has copied a first value of the lease, and not yet the last.
Copying ==
    \/ main.pc \in {"gateway", "mask", "announce", "dns"}
    \/ main.pc = "resolve" /\ main.next = "dns"

\* Type 5: the fields are stored in one interrupt, also after start-up.
ReceiveAck(l) ==
    /\ Arrives
    /\ \E p \in sent : p.what = "request" /\ p.about = Gateway(l)
    /\ dhcp' = [lease |-> l, completed |-> TRUE]
    /\ acked' = acked \cup {l}
    /\ overtaken' = (overtaken \/ (Copying /\ dhcp.lease # l))
    /\ UNCHANGED <<timer, config, cache, last_echo_reply_ip, main, irq, sent, replied, pings, halted>>

\* arp_etherframe_recv: a response counts if it is addressed to this ip, and
\* is appended even if the address is in the cache, until that is full.
ReceiveArp(p) ==
    /\ Arrives
    /\ p.what = "arp" /\ p.about \in Local /\ p.from = ip
    /\ cache' = IF Len(cache) < CacheSize THEN Append(cache, p.about) ELSE cache
    /\ UNCHANGED <<timer, dhcp, config, last_echo_reply_ip, main, irq, sent, acked, overtaken,
                   replied, pings, halted>>

\* ipv4_etherframe_recv accepts what is addressed to this ip, and anything
\* while it is 0.
Accepted(p) == p.from = ip \/ ip = 0

\* Host h answers an echo request to it or to everybody.
ReceiveEchoReply(p, h) ==
    /\ Arrives
    /\ p.what = "echo" /\ p.about \in {h, Bcast} /\ Accepted(p)
    /\ last_echo_reply_ip' = h
    /\ replied' = replied \cup {h}
    /\ UNCHANGED <<timer, dhcp, config, cache, main, irq, sent, acked, overtaken, pings, halted>>

\* The answer to an echo request is sent in the interrupt; a message of a type
\* icmp_ipv4_recv does not know stops the kernel.
ReceiveIcmp ==
    /\ Arrives
    /\ \/ SendFromIrq(Near, {}) /\ UNCHANGED halted
       \/ halted' = TRUE /\ UNCHANGED <<sent, irq>>
    /\ UNCHANGED <<timer, dhcp, config, cache, last_echo_reply_ip, main, acked, overtaken,
                   replied, pings>>

\* arp_resolve in the handler: the cache cannot change meanwhile, so it takes
\* one turn or all of them, and none with the PIT, whose ticks are interrupts.
IrqSleeps ==
    /\ irq # Free /\ timer = "hpet"
    /\ IF Cached(irq.route) \/ irq.polls = 1
       THEN irq' = Free /\ sent' = sent \cup irq.sends
       ELSE irq' = [irq EXCEPT !.polls = @ - 1] /\ UNCHANGED sent
    /\ UNCHANGED <<timer, dhcp, config, cache, last_echo_reply_ip, main, acked, overtaken,
                   replied, pings, arrivals, halted>>

Interrupt ==
    \/ \E l \in Lease : ReceiveOffer(l) \/ ReceiveAck(l)
    \/ \E p \in sent : ReceiveArp(p) \/ \E h \in Host : ReceiveEchoReply(p, h)
    \/ ReceiveIcmp

----------------------------------------------------------------------------
Init ==
    /\ timer \in {"hpet", "pit"}
    /\ dhcp = [lease |-> 0, completed |-> FALSE]
    /\ ip = 0 /\ gateway_ip = -1 /\ subnet_mask = -1 /\ dns = 0
    /\ cache = <<>> /\ last_echo_reply_ip = Zero
    /\ main = [pc |-> "boot", polls |-> Polls, target |-> Bcast, route |-> Bcast, next |-> "boot"]
    /\ irq = Free
    /\ sent = {} /\ acked = {} /\ overtaken = FALSE /\ replied = {}
    /\ pings = 0 /\ arrivals = 0 /\ halted = FALSE

Next == Flow \/ Ping \/ Interrupt \/ IrqSleeps

\* Kernel code and the HPET run on; the network and the programs owe nothing.
Spec == Init /\ [][Next]_vars /\ WF_vars(Flow) /\ WF_vars(IrqSleeps)

----------------------------------------------------------------------------
(* Properties *)

\* The four values that start-up copies one by one, the last after a wait of
\* up to 20 s, are of one lease, and that lease was confirmed; or all are empty
\* after a timeout.  The exception (`overtaken`): another confirmation, of a
\* second server or after the timeout, arrived between the first copy and the
\* last.
OneConfirmedLease ==
    main.pc = "up" /\ ~overtaken =>
        /\ ip = gateway_ip /\ ip = subnet_mask /\ ip = dns
        /\ ip \in acked \cup {0}

\* ping says yes only if the host itself has answered since the call began, not
\* because of an earlier answer or another host's; only 0.0.0.0, the value
\* last_echo_reply_ip is cleared with, "answers" without a packet.
YesMeansAnswered ==
    main.pc = "yes" => main.target \in replied \cup {Zero}

\* With the PIT a handler that has to resolve an address never returns.
Stuck == timer = "pit" /\ irq # Free

\* Start-up and every ping end, whatever is lost, late or doubled, and a
\* handler that sleeps returns, unless the PIT is the timer (`Stuck`) or an
\* ICMP message of an unknown type has stopped the kernel.
WaitsEnd == (main.pc # "up" \/ irq # Free) ~> ((main.pc = "up" /\ irq = Free) \/ Stuck \/ halted)

=============================================================================
