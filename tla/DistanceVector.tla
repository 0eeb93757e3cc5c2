--------------------------- MODULE DistanceVector ---------------------------
(***************************************************************************)
(* Dynamic routing (routing.cc) and the table of devices it reads          *)
(* (device.cc).  Every node broadcasts the distances it knows on each of   *)
(* its devices; a thread per device receives those of the neighbours,      *)
(* keeps what is nearer, and rebuilds the table that get_next_hop reads.   *)
(*                                                                         *)
(* A subnet stands for its number and mask.  The address of a node on one  *)
(* of its subnets is the pair of both.                                     *)
(***************************************************************************)
EXTENDS Naturals

CONSTANTS
    Nodes,
    Subnets,
    Attached,       \* Attached[n]: the subnets that n has a device on
    Unaddressed,    \* those that n has a device on without an IPv4 address
    Mask,           \* Mask[s]: the length of the mask of subnet s
    Covers,         \* Covers[s]: the subnets whose number and mask match in s
    Started,        \* the nodes that have all their devices from the beginning
    Dests,          \* the subnets whose distances are followed
    Default,        \* 0.0.0.0 with mask 0.0.0.0: no subnet of the network
    Nobody,         \* the address 0.0.0.0
    None,           \* no device, no frame
    SetupRace,      \* whether a node with a device not filled in broadcasts
    Prompt          \* whether frames are taken before others follow them

ASSUME RoutingAssumption ==
    /\ Attached \in [Nodes -> SUBSET Subnets]
    /\ Unaddressed \in [Nodes -> SUBSET Subnets]
    /\ \A n \in Nodes : Attached[n] \cap Unaddressed[n] = {}
    /\ Dests \subseteq Subnets
    /\ Mask \in [Subnets \cup {Default} -> Nat]
    /\ Covers \in [Subnets -> SUBSET (Subnets \cup {Default})]
    /\ \A s \in Subnets : s \in Covers[s]
    \* Of the same length as its own mask, only its own number matches in s.
    /\ \A s \in Subnets : \A t \in Covers[s] : Mask[t] = Mask[s] => t = s
    /\ Started \subseteq Nodes
    /\ Default \notin Subnets
    /\ None \notin Subnets \cup {Default}
    /\ Nobody \notin Nodes \X Subnets
    /\ SetupRace \in BOOLEAN /\ Prompt \in BOOLEAN

VARIABLES
    up,         \* the devices of a node that are complete
    unfilled,   \* those whose id is already counted and that are not
    dv,         \* distance_vec_: hops and next hop, by destination
    table,      \* dynamic_routing_table_: next hop and device
    behind,     \* the receiving threads that have still to rebuild the table
    daemon,     \* what the daemon is sending, and on which devices it still must
    inbox       \* the frame that waits at each device

vars == <<up, unfilled, dv, table, behind, daemon, inbox>>

Known == Dests \cup {Default}
Address == (Nodes \X Subnets) \cup {Nobody}

\* An entry of hops 0 is one that is not there: those received count 1 or more.
Absent == [hops |-> 0, via |-> Nobody]
NoRoute == [via |-> Nobody, dev |-> None]

Entry == [hops : Nat, via : Address]
Route == [via : Address, dev : Subnets \cup {None}]
Frame == [src : Address, far : [Known -> Nat], links : SUBSET Known]

TypeOK ==
    /\ up \in [Nodes -> SUBSET Subnets]
    /\ unfilled \in [Nodes -> SUBSET Subnets]
    /\ dv \in [Nodes -> [Known -> Entry]]
    /\ table \in [Nodes -> [Known -> Route]]
    /\ behind \in [Nodes -> SUBSET Subnets]
    /\ daemon \in [Nodes -> [frame : Frame, todo : SUBSET Subnets]]
    /\ inbox \in [Nodes -> [Subnets -> Frame \cup {None}]]

Quiet == [frame |-> [src |-> Nobody, far |-> [d \in Known |-> 0], links |-> {}],
          todo |-> {}]

Init ==
    /\ up = [n \in Nodes |-> IF n \in Started THEN Attached[n] ELSE {}]
    /\ unfilled = [n \in Nodes |-> {}]
    /\ dv = [n \in Nodes |-> [d \in Known |-> Absent]]
    /\ table = [n \in Nodes |-> [d \in Known |-> NoRoute]]
    /\ behind = [n \in Nodes |-> {}]
    /\ daemon = [n \in Nodes |-> Quiet]
    /\ inbox = [n \in Nodes |-> [s \in Subnets |-> None]]

-----------------------------------------------------------------------------
(* Adding a device.                                                        *)

\* Mutant: counting goes one too far.
CountedThrough(n) == up[n] \cup unfilled[n] \cup {None}

\* The devices that device_count covers.
Counted(n) == up[n] \cup unfilled[n]

\* device_count is raised, under a lock that the call before has given back.  A
\* call for a device without an address then returns -1 and leaves it at that.
Reserve(n, s) ==
    /\ unfilled[n] \subseteq Unaddressed[n]
    /\ s \in (Attached[n] \cup Unaddressed[n]) \ Counted(n)
    /\ unfilled' = [unfilled EXCEPT ![n] = @ \cup {s}]
    /\ UNCHANGED <<up, dv, table, behind, daemon, inbox>>

\* The address and mask are filled in, which were 0 until now, the receiving
\* thread starts, and the static table gets the device's subnet.
Complete(n) ==
    \E s \in unfilled[n] \ Unaddressed[n] :
        /\ up' = [up EXCEPT ![n] = @ \cup {s}]
        /\ unfilled' = [unfilled EXCEPT ![n] = @ \ {s}]
        /\ UNCHANGED <<dv, table, behind, daemon, inbox>>

\* get_dev_from_subnet: whether n has a device on d, with d's mask.
ScopeLink(n, d) == d \in up[n] \/ (d = Default /\ unfilled[n] # {})

-----------------------------------------------------------------------------
(* The daemon.                                                             *)

MayBroadcast(n) == SetupRace \/ unfilled[n] = {}

\* distance_vec_to_bytes
Bytes(n) ==
    [src |-> Nobody,
     far |-> [d \in Known |-> dv[n][d].hops],
     links |-> {d \in Known : ScopeLink(n, d)}]

Snapshot(n) ==
    /\ MayBroadcast(n)
    /\ daemon[n].todo = {}
    /\ daemon' = [daemon EXCEPT ![n] = [frame |-> Bytes(n), todo |-> Counted(n)]]
    /\ UNCHANGED <<up, unfilled, dv, table, behind, inbox>>

\* Its source is the address of the device, 0 if that is not known yet.  libpcap
\* keeps the frame at every other device on s, unless one waits there already.
SendOn(n, s) ==
    /\ MayBroadcast(n)
    /\ s \in daemon[n].todo
    /\ Prompt => \A m \in Nodes : s \in Unaddressed[m] \/ inbox[m][s] = None
    /\ \E src \in {<<n, s>>} \cup (IF s \in up[n] THEN {} ELSE {Nobody}) :
          LET frame == [daemon[n].frame EXCEPT !.src = src]
          IN  inbox' = [m \in Nodes |-> [t \in Subnets |->
                           IF /\ m # n /\ t = s
                              /\ s \in Counted(m) /\ inbox[m][s] = None
                           THEN frame ELSE inbox[m][t]]]
    /\ daemon' = [daemon EXCEPT ![n].todo = @ \ {s}]
    /\ UNCHANGED <<up, unfilled, dv, table, behind>>

-----------------------------------------------------------------------------
(* Receiving.                                                              *)

HeardUncounted(entry, hops, src) ==
    IF entry.hops = 0 \/ entry.hops > hops
    THEN [hops |-> IF hops = 0 THEN 1 ELSE hops, via |-> src]
    ELSE entry
HeardFirst(entry, hops, src) ==
    IF entry.hops = 0 THEN [hops |-> hops + 1, via |-> src] ELSE entry

\* One entry of the frame: what is not nearer is ignored.
Heard(entry, hops, src) ==
    IF entry.hops = 0 \/ entry.hops > hops + 1
    THEN [hops |-> hops + 1, via |-> src]
    ELSE entry

\* All entries for d: first that of the sender's vector, then its own subnet.
Merge(entry, frame, d) ==
    LET known == IF frame.far[d] # 0
                 THEN Heard(entry, frame.far[d], frame.src)
                 ELSE entry
    IN  IF d \in frame.links THEN Heard(known, 0, frame.src) ELSE known

\* resolve_distance_upd
Resolved(n, frame) ==
    [d \in Known |-> IF ScopeLink(n, d) THEN dv[n][d]
                     ELSE Merge(dv[n][d], frame, d)]

UpdatedByVector(n, frame) ==
    \E d \in Known : frame.far[d] # 0 /\ Resolved(n, frame)[d] # dv[n][d]

\* updated: an entry was added or replaced.
Updated(n, frame) == Resolved(n, frame) # dv[n]

Resolve(n, s) ==
    /\ s \in up[n] \ behind[n]
    /\ inbox[n][s] # None
    /\ dv' = [dv EXCEPT ![n] = Resolved(n, inbox[n][s])]
    /\ behind' = [behind EXCEPT ![n] = IF Updated(n, inbox[n][s])
                                       THEN @ \cup {s} ELSE @]
    /\ inbox' = [inbox EXCEPT ![n][s] = None]
    /\ UNCHANGED <<up, unfilled, table, daemon>>

DeviceForDest(n, via, d) == IF d \in up[n] THEN d ELSE None

\* The device of the next hop: sought with the mask of the destination.
DeviceFor(n, via, d) ==
    LET found == {s \in up[n] : /\ Mask[s] = Mask[d]
                                /\ via # Nobody /\ s \in Covers[via[2]]}
        matching == IF d = Default THEN unfilled[n] ELSE found
    IN  IF matching = {} THEN None ELSE CHOOSE s \in matching : TRUE

RouteOf(n, d) ==
    IF dv[n][d].hops = 0 THEN NoRoute
    ELSE [via |-> dv[n][d].via, dev |-> DeviceFor(n, dv[n][d].via, d)]

\* generate_dynamic_routing_table_from_dv, under both locks
Rebuild(n, s) ==
    /\ s \in behind[n]
    /\ table' = [table EXCEPT ![n] = [d \in Known |-> RouteOf(n, d)]]
    /\ behind' = [behind EXCEPT ![n] = @ \ {s}]
    /\ UNCHANGED <<up, unfilled, dv, daemon, inbox>>

Setup(n) == Complete(n) \/ \E s \in Subnets : Reserve(n, s)
Broadcast(n) == Snapshot(n) \/ \E s \in Subnets : SendOn(n, s)
Handle(n, s) == Resolve(n, s) \/ Rebuild(n, s)

Next == \E n \in Nodes :
           Setup(n) \/ Broadcast(n) \/ \E s \in Subnets : Handle(n, s)

Spec == Init /\ [][Next]_vars

\* Devices are added, the daemon sends every second and the receiving threads
\* run.  The daemon waits for nobody: its fairness is strong because the guard
\* Prompt, which only says that a second is long, closes now and then.
Fairness ==
    \A n \in Nodes :
        /\ WF_vars(Setup(n))
        /\ SF_vars(Broadcast(n))
        /\ \A s \in Subnets : WF_vars(Handle(n, s))

FairSpec == Spec /\ Fairness

-----------------------------------------------------------------------------
(* get_next_hop.                                                           *)

\* What it may answer for an address of subnet d, with the subnet of the entry
\* it took.  Its sort compares the addresses of the entries, not their masks, so
\* any entry that matches can come first.
Direct(d) == [via |-> Nobody, dev |-> d]
NextHops(n, d) ==
    {<<x, Direct(x)>> : x \in up[n] \cap Covers[d]}
    \cup {<<x, table[n][x]>> :
             x \in {y \in Known \cap Covers[d] : table[n][y] # NoRoute}}

=============================================================================
