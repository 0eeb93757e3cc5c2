-------------------------------- MODULE Arp --------------------------------
(***************************************************************************)
(* The address resolution of one node (arp.cc): the cache, and the request *)
(* that is outstanding for an address.  A thread that asks for an address  *)
(* leaves its condition variable in outstanding_requests_, and others that *)
(* need the same address wait for it; a variable is the thread that made   *)
(* it here.  The big lock makes each operator one step.                    *)
(***************************************************************************)
CONSTANTS
    Address,        \* IP addresses
    Device,         \* devices, which stand for their MAC addresses
    Thread,         \* the threads that call ARPQuery
    None

VARIABLE arp        \* cache_ and outstanding_requests_ of each node

ArpState == [cache : [Address -> Device \cup {None}],
             outstanding : [Address -> Thread \cup {None}]]

ArpInit == [cache |-> [ip \in Address |-> None],
            outstanding |-> [ip \in Address |-> None]]

\* arp_header, arp_spa and arp_sha, arp_tpa
Request(d, spa, target) ==
    [op |-> "request", spa |-> spa, sha |-> d, tpa |-> target]

\* Mutant: the address that was asked for is told, whose it may be.
ReplyAsAsked(d, spa, request) ==
    [op |-> "reply", spa |-> request.tpa, sha |-> d, tpa |-> request.spa]

Reply(d, spa, request) ==
    [op |-> "reply", spa |-> spa, sha |-> d, tpa |-> request.spa]

Cached(n, ip) == arp[n].cache[ip] # None

\* Whether ARPQuery waits for an answer to another thread's request.
Joins(n, ip) == ~Cached(n, ip) /\ arp[n].outstanding[ip] # None

\* Whether it asks itself.
Asks(n, ip) == ~Cached(n, ip) /\ arp[n].outstanding[ip] = None

Asked(n, ip, th) == [arp EXCEPT ![n].outstanding[ip] = th]

\* Mutant: the condition variable of a query that failed stays in the map.
NotWithdrawn(n, ip) == arp

\* outstanding_requests_.extract
Withdrawn(n, ip) == [arp EXCEPT ![n].outstanding[ip] = None]

\* cache_.emplace keeps what is there.
Emplaced(n, reply) ==
    IF Cached(n, reply.spa) THEN arp[n].cache[reply.spa] ELSE reply.sha

\* The address is known, and the request extracted, if there is one.
Replied(n, reply) ==
    [arp EXCEPT ![n] =
        [cache |-> [arp[n].cache EXCEPT ![reply.spa] = Emplaced(n, reply)],
         outstanding |-> [arp[n].outstanding EXCEPT ![reply.spa] = None]]]

=============================================================================
