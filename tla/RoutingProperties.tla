------------------------- MODULE RoutingProperties -------------------------
(***************************************************************************)
(* What dynamic routing promises.                                          *)
(***************************************************************************)
EXTENDS DistanceVector, FiniteSets

\* The nodes from which an address of d is at most k hops away.
Within(d) ==
    LET near[k \in Nat] ==
            IF k = 0 THEN {n \in Nodes : d \in Attached[n]}
            ELSE near[k - 1] \cup
                 {n \in Nodes : \E m \in near[k - 1] :
                                   Attached[n] \cap Attached[m] # {}}
    IN  near

\* The right number of hops, in a vector or for a node on d itself.
Nearest(n, d) ==
    \/ d \in Attached[n]
    \/ LET h == dv[n][d].hops
       IN  h # 0 /\ n \in Within(d)[h] /\ n \notin Within(d)[h - 1]

-----------------------------------------------------------------------------
(* Safety.                                                                 *)

\* What a node knows leads on: the next hop of every entry is on the subnet or
\* knows a shorter way, although both change their minds at any time and the
\* frames that told of it are old (resolve_distance_upd takes only what is
\* nearer and never gives an entry up).  So the next hops of nodes that are not
\* on the subnet never form a cycle.
NextHopsAdvance ==
    \A n \in Nodes, d \in Dests :
        LET entry == dv[n][d] IN
        entry.hops # 0 =>
            /\ entry.via \in Nodes \X Subnets
            /\ \/ d \in up[entry.via[1]]
               \/ /\ dv[entry.via[1]][d].hops # 0
                  /\ dv[entry.via[1]][d].hops < entry.hops

\* A network of one mask length; elsewhere the device of a next hop can be another
\* one, or none, after a device has been added (routing.cc:419).
SameMasks == \A s, t \in Subnets : Mask[s] = Mask[t]

\* When no receiving thread of a node is between its update of the vector and the
\* rebuilding of the table, the table says what the vector says, whichever
\* threads updated and rebuilt in which order (all masks have the same length).
TableIsCurrent ==
    \A n \in Nodes : behind[n] = {} =>
        \A d \in Dests : table[n][d] = RouteOf(n, d)

\* get_next_hop answers -1 only for a destination of which nothing is known
\* (routing.h:18, "(-1, _) if not found"), if all masks have the same length:
\* routing.cc:419 looks for the next hop's device with the destination's mask.
FoundMeansDevice ==
    \A n \in Nodes, d \in Dests :
        \A answer \in NextHops(n, d) : answer[2].dev # None

-----------------------------------------------------------------------------
(* The invariant behind NextHopsAdvance.                                   *)

\* Node m is on d or knows a way of at most k hops.
Knows(m, d, k) ==
    \/ d \in up[m]
    \/ dv[m][d].hops # 0 /\ dv[m][d].hops <= k

\* What a frame says is true of m, which it comes from.
TrueOf(m, frame) ==
    \A d \in Dests :
        /\ frame.far[d] # 0 => Knows(m, d, frame.far[d])
        /\ d \in frame.links => d \in up[m]

EntryOK(entry, d) ==
    entry.hops # 0 =>
        /\ entry.via \in Nodes \X Subnets
        /\ Knows(entry.via[1], d, entry.hops - 1)

VectorsOK == \A n \in Nodes, d \in Dests : EntryOK(dv[n][d], d)
DaemonsOK == \A n \in Nodes : /\ TrueOf(n, daemon[n].frame)
                              /\ daemon[n].todo \subseteq up[n]
InboxesOK ==
    \A n \in Nodes, s \in Subnets :
        inbox[n][s] # None =>
            /\ inbox[n][s].src \in Nodes \X Subnets
            /\ TrueOf(inbox[n][s].src[1], inbox[n][s])

\* Whatever was said of a node is still true of it: no frame, however old, and no
\* entry, however replaced since, misleads (routing.cc:387 never takes a longer
\* way and nothing removes an entry).
WaysOK == TypeOK /\ VectorsOK /\ DaemonsOK /\ InboxesOK

-----------------------------------------------------------------------------
(* The invariants behind TableIsCurrent and FoundMeansDevice.              *)

\* A next hop is an address on a subnet that the node has a device on, because
\* a frame comes from an address on the subnet it arrives on.
HopsOK == \A n \in Nodes, d \in Known :
             \/ dv[n][d].via = Nobody
             \/ dv[n][d].via[2] \in up[n]
SourcesOK == \A n \in Nodes, s \in Subnets :
                inbox[n][s] # None => \/ inbox[n][s].src = Nobody
                                      \/ inbox[n][s].src[2] = s

TablesOK == TypeOK /\ HopsOK /\ SourcesOK /\ TableIsCurrent

\* Nothing is said of 0.0.0.0 with mask 0.0.0.0.
Silent(frame) == frame.far[Default] = 0 /\ Default \notin frame.links
DefaultOK == \A n \in Nodes :
                /\ dv[n][Default].hops = 0
                /\ Silent(daemon[n].frame)
                /\ \A s \in Subnets : inbox[n][s] # None => Silent(inbox[n][s])

RoutesOK == \A n \in Nodes, d \in Known :
               table[n][d] # NoRoute => table[n][d].dev # None

DevicesOK == WaysOK /\ TablesOK /\ DefaultOK /\ RoutesOK

-----------------------------------------------------------------------------
(* Liveness.                                                               *)

\* Every node that can reach a subnet comes to know the nearest way and has it
\* in its table for good.
Converges ==
    \A n \in Nodes, d \in Dests :
        (\E k \in 1..Cardinality(Nodes) : n \in Within(d)[k]) =>
            <>[](Nearest(n, d) /\ (d \in Attached[n] \/ table[n][d] = RouteOf(n, d)))

=============================================================================
