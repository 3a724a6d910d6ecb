--------------------------------- MODULE Dns ---------------------------------
(***************************************************************************)
(* The kernel's resolver (mckrnl/net/dns.c): dns_resolve_A runs in a       *)
(* system call with the scheduler off, dns_udp_recv in the interrupt that  *)
(* brings a response.  The cache is only ever appended to.                 *)
(*                                                                         *)
(* Names stand for themselves and an address for the name it belongs to.   *)
(* The server answers from a fixed zone; responses may be lost, late or    *)
(* duplicated.  A response is about the name in its question section.      *)
(*                                                                         *)
(* The operators named Wrong_... are faulty variants of the definitions    *)
(* that follow them; no action uses them.                                  *)
(***************************************************************************)
EXTENDS Naturals, Sequences

CONSTANTS
    Name,
    Nothing,       \* no address, no alias: ipv4 0, the empty string
    MAX_LOOP_COUNT,
    Waits,         \* passes through NET_TIMEOUT (1999)
    MaxResults     \* bound: responses that bring a result

ASSUME DnsAssumption ==
    /\ Nothing \notin Name
    /\ MAX_LOOP_COUNT \in Nat /\ Waits \in Nat \ {0} /\ MaxResults \in Nat

VARIABLES
    zone,                \* what the server knows: an address, an alias, nothing
    results, loop, wait_for_response,     \* dns_provider_t
    requested,           \* names a request has been sent for
    lookup               \* the running dns_resolve_A

dnsVars == <<zone, results, loop, wait_for_response, requested, lookup>>

Record == [kind : {"A"}] \cup [kind : {"none"}] \cup [kind : {"CNAME"}, of : Name]

-----------------------------------------------------------------------------
(* The server.                                                             *)

\* Where an alias leads; a name without alias stays where it is.
Alias(n) == IF zone[n].kind = "CNAME" THEN zone[n].of ELSE n

\* The names on the chain, or on the loop, that begins with n.
Closed(S) == \A m \in S : Alias(m) \in S
Chain(n) == {m \in Name : \A S \in SUBSET Name : n \in S /\ Closed(S) => m \in S}

Ends(n) == {m \in Chain(n) : zone[m].kind = "A"}

Loops(n) == \A m \in Chain(n) : zone[m].kind = "CNAME"

Address(n) == IF Ends(n) # {} THEN CHOOSE a \in Ends(n) : TRUE ELSE Nothing

\* The server's answers about n: the alias alone, or the address as well.
Response(n) ==
    CASE zone[n].kind = "A" -> {[name |-> n, ipv4 |-> n, cname |-> Nothing]}
      [] zone[n].kind = "CNAME" ->
            {[name |-> n, ipv4 |-> a, cname |-> zone[n].of] : a \in {Nothing, Address(n)}}
      [] OTHER -> {[name |-> n, ipv4 |-> Nothing, cname |-> Nothing]}

-----------------------------------------------------------------------------
(* The resolver.                                                           *)

Wrong_Matches(n) == 1 .. Len(results)    \* any cached result will do
Matches(n) == {i \in 1 .. Len(results) : results[i].name = n}

\* dns_find_result: the oldest result for the name.
dns_find_result(n) == results[CHOOSE i \in Matches(n) : \A j \in Matches(n) : i <= j]

Done(ip, t) == lookup' = [lookup EXCEPT !.pc = "done", !.answer = ip, !.timeout = t]

\* What dns_resolve_A does with a result: an address is the answer and resets
\* the counter, an alias is followed unless too many responses have come in
\* since the last address.
Wrong_UseResult(r) ==                    \* looks at the counter first
    \/ /\ loop >= MAX_LOOP_COUNT
       /\ Done(Nothing, FALSE)
       /\ UNCHANGED loop
    \/ /\ loop < MAX_LOOP_COUNT
       /\ r.ipv4 # Nothing
       /\ loop' = 0
       /\ Done(r.ipv4, FALSE)
    \/ /\ loop < MAX_LOOP_COUNT
       /\ r.ipv4 = Nothing
       /\ lookup' = [lookup EXCEPT !.pc = "resolve", !.name = r.cname]
       /\ UNCHANGED loop

UseResult(r) ==
    \/ /\ r.ipv4 # Nothing
       /\ loop' = 0
       /\ Done(r.ipv4, FALSE)
    \/ /\ r.ipv4 = Nothing
       /\ loop >= MAX_LOOP_COUNT
       /\ Done(Nothing, FALSE)
       /\ UNCHANGED loop
    \/ /\ r.ipv4 = Nothing
       /\ loop < MAX_LOOP_COUNT
       /\ lookup' = [lookup EXCEPT !.pc = "resolve", !.name = r.cname]
       /\ UNCHANGED loop

sys_dns_a(d) ==
    /\ lookup.pc = "idle"
    /\ lookup' = [lookup EXCEPT !.pc = "resolve", !.domain = d, !.name = d]
    /\ UNCHANGED <<zone, results, loop, wait_for_response, requested>>

\* dns_resolve_A, cached part: every alias followed is a recursive call.
ResolveCached ==
    /\ lookup.pc = "resolve"
    /\ Matches(lookup.name) # {}
    /\ UseResult(dns_find_result(lookup.name))
    /\ UNCHANGED <<zone, results, wait_for_response, requested>>

\* dns_resolve_A, not cached: dns_request sends the question.
Request ==
    /\ lookup.pc = "resolve"
    /\ Matches(lookup.name) = {}
    /\ wait_for_response' = TRUE
    /\ requested' = requested \cup {lookup.name}
    /\ lookup' = [lookup EXCEPT !.pc = "wait", !.polls = 0]
    /\ UNCHANGED <<zone, results, loop>>

\* One pass through NET_TIMEOUT.  A response about another name ends the wait
\* but not the loop.
Arrived == ~wait_for_response /\ Matches(lookup.name) # {}

Wrong_Await ==                           \* starts the timeout again with every pass
    /\ lookup.pc = "wait"
    /\ IF Arrived
       THEN UseResult(dns_find_result(lookup.name))
       ELSE UNCHANGED <<lookup, loop>>
    /\ UNCHANGED <<zone, results, wait_for_response, requested>>

Await ==
    /\ lookup.pc = "wait"
    /\ \/ Arrived /\ UseResult(dns_find_result(lookup.name))
       \/ /\ ~Arrived
          /\ IF lookup.polls + 1 < Waits
             THEN lookup' = [lookup EXCEPT !.polls = @ + 1]
             ELSE Done(Nothing, TRUE)
          /\ UNCHANGED loop
    /\ UNCHANGED <<zone, results, wait_for_response, requested>>

\* The system call returns.
Return ==
    /\ lookup.pc = "done"
    /\ lookup' = [lookup EXCEPT !.pc = "idle", !.answer = Nothing, !.timeout = FALSE,
                                !.polls = 0]
    /\ UNCHANGED <<zone, results, loop, wait_for_response, requested>>

\* The interrupt: a response to any request ever sent, once, again, or never.
dns_udp_recv(n) ==
    /\ n \in requested
    /\ \E r \in Response(n) :
          IF r.ipv4 # Nothing \/ r.cname # Nothing
          THEN /\ Len(results) < MaxResults
               /\ results' = Append(results, r)
               /\ loop' = loop + 1
          ELSE UNCHANGED <<results, loop>>
    /\ wait_for_response' = FALSE
    /\ UNCHANGED <<zone, requested, lookup>>

-----------------------------------------------------------------------------
DnsInit ==
    /\ zone \in [Name -> Record]
    /\ results = <<>>
    /\ loop = 0
    /\ wait_for_response = FALSE
    /\ requested = {}
    /\ \E n \in Name :
          lookup = [pc |-> "idle", domain |-> n, name |-> n, polls |-> 0,
                    answer |-> Nothing, timeout |-> FALSE]

dns_resolve_A == ResolveCached \/ Request \/ Await

DnsNext ==
    \/ \E d \in Name : sys_dns_a(d)
    \/ dns_resolve_A
    \/ Return
    \/ \E n \in Name : dns_udp_recv(n)

\* Kernel code keeps running; nothing is assumed about the network.
DnsSpec == DnsInit /\ [][DnsNext]_dnsVars /\ WF_dnsVars(dns_resolve_A)

-----------------------------------------------------------------------------
\* The address returned is the one the server has for the name asked, however
\* late and however often the responses to this and to earlier lookups come.
AnswerIsForTheQuestion ==
    lookup.pc = "done" /\ lookup.answer # Nothing => lookup.answer = Address(lookup.domain)

\* A name with an address of its own is refused only by the timeout: the loop
\* counter that failed lookups leave behind does not matter to it.
AddressNotRefused ==
    lookup.pc = "done" /\ zone[lookup.domain].kind = "A" =>
        lookup.answer # Nothing \/ lookup.timeout

\* A lookup whose aliases do not form a loop ends.
LookupEnds ==
    (lookup.pc \in {"resolve", "wait"} /\ ~Loops(lookup.domain)) ~> (lookup.pc = "done")

\* "DNS: CACHE: looping CNAME" (dns_resolve_A): a loop in the cache is noticed
\* and the lookup ends.
LoopingLookupEnds == (lookup.pc \in {"resolve", "wait"}) ~> (lookup.pc = "done")

=============================================================================
