--------------------------- MODULE RoutingProofs ---------------------------
(***************************************************************************)
(* Proofs about dynamic routing: types, that the next hops that nodes      *)
(* learn from each other lead on, that tables follow vectors, and that     *)
(* every route has a device.                                               *)
(***************************************************************************)
EXTENDS RoutingProperties, TLAPS

USE RoutingAssumption

-----------------------------------------------------------------------------
(* Types.                                                                  *)

\* The initial vectors, tables and frames have their types.
LEMMA InitTypes == Init => TypeOK
  BY DEF Init, TypeOK, Quiet, Absent, NoRoute, Entry, Route, Frame, Address

\* A broadcast of what a node knows is a frame (distance_vec_to_bytes).
LEMMA BytesType ==
    ASSUME TypeOK, NEW n \in Nodes
    PROVE  Bytes(n) \in Frame
  BY DEF TypeOK, Bytes, Frame, Entry, Address

\* An entry that was heard of is an entry (resolve_distance_upd).
LEMMA HeardType ==
    ASSUME NEW entry \in Entry, NEW hops \in Nat, NEW src \in Address
    PROVE  Heard(entry, hops, src) \in Entry
  BY DEF Heard, Entry

LEMMA MergeType ==
    ASSUME NEW entry \in Entry, NEW frame \in Frame, NEW d \in Known
    PROVE  Merge(entry, frame, d) \in Entry
  <1> DEFINE known == IF frame.far[d] # 0
                      THEN Heard(entry, frame.far[d], frame.src) ELSE entry
  <1>1. frame.far[d] \in Nat /\ frame.src \in Address
    BY DEF Frame
  <1>2. known \in Entry
    BY <1>1, HeardType
  <1>3. Heard(known, 0, frame.src) \in Entry
    BY <1>1, <1>2, HeardType
  <1> QED
    BY <1>2, <1>3 DEF Merge

LEMMA RouteType ==
    ASSUME TypeOK, NEW n \in Nodes, NEW d \in Known
    PROVE  RouteOf(n, d) \in Route
  <1>1. dv[n][d] \in Entry
    BY DEF TypeOK
  <1>2. DeviceFor(n, dv[n][d].via, d) \in Subnets \cup {None}
    BY DEF DeviceFor, TypeOK
  <1> QED
    BY <1>1, <1>2 DEF RouteOf, NoRoute, Route, Entry, Address

\* Every action keeps the types.
LEMMA StepTypes == TypeOK /\ [Next]_vars => TypeOK'
  <1> SUFFICES ASSUME TypeOK, [Next]_vars PROVE TypeOK'
    OBVIOUS
  <1> USE DEF TypeOK
  <1>1. ASSUME NEW n \in Nodes, NEW s \in Subnets, Reserve(n, s) PROVE TypeOK'
    BY <1>1 DEF Reserve
  <1>2. ASSUME NEW n \in Nodes, Complete(n) PROVE TypeOK'
    BY <1>2 DEF Complete
  <1>3. ASSUME NEW n \in Nodes, Snapshot(n) PROVE TypeOK'
    <2>1. Bytes(n) \in Frame /\ Counted(n) \in SUBSET Subnets
      BY BytesType DEF Counted
    <2> QED
      BY <1>3, <2>1 DEF Snapshot
  <1>4. ASSUME NEW n \in Nodes, NEW s \in Subnets, SendOn(n, s) PROVE TypeOK'
    <2>1. PICK src \in {<<n, s>>} \cup (IF s \in up[n] THEN {} ELSE {Nobody}) :
             inbox' = [m \in Nodes |-> [t \in Subnets |->
                          IF /\ m # n /\ t = s
                             /\ s \in Counted(m) /\ inbox[m][s] = None
                          THEN [daemon[n].frame EXCEPT !.src = src]
                          ELSE inbox[m][t]]]
      BY <1>4 DEF SendOn
    <2>2. src \in Address
      BY DEF Address
    <2>3. [daemon[n].frame EXCEPT !.src = src] \in Frame
      BY <2>2, daemon[n].frame \in Frame DEF Frame
    <2>4. inbox' \in [Nodes -> [Subnets -> Frame \cup {None}]]
      BY <2>1, <2>3
    <2>5. daemon' \in [Nodes -> [frame : Frame, todo : SUBSET Subnets]]
      <3>1. /\ daemon[n] \in [frame : Frame, todo : SUBSET Subnets]
            /\ daemon' = [daemon EXCEPT ![n] =
                             [@ EXCEPT !.todo = daemon[n].todo \ {s}]]
        BY <1>4 DEF SendOn
      <3>2. [daemon[n] EXCEPT !.todo = daemon[n].todo \ {s}]
               \in [frame : Frame, todo : SUBSET Subnets]
        BY <3>1
      <3> QED
        BY <3>1, <3>2
    <2> QED
      BY <1>4, <2>4, <2>5 DEF SendOn
  <1>5. ASSUME NEW n \in Nodes, NEW s \in Subnets, Resolve(n, s) PROVE TypeOK'
    <2>1. inbox[n][s] \in Frame
      BY <1>5 DEF Resolve
    <2>2. Resolved(n, inbox[n][s]) \in [Known -> Entry]
      BY <2>1, MergeType DEF Resolved
    <2> QED
      BY <1>5, <2>2 DEF Resolve
  <1>6. ASSUME NEW n \in Nodes, NEW s \in Subnets, Rebuild(n, s) PROVE TypeOK'
    <2>1. [d \in Known |-> RouteOf(n, d)] \in [Known -> Route]
      BY RouteType
    <2> QED
      BY <1>6, <2>1 DEF Rebuild
  <1>7. CASE UNCHANGED vars
    BY <1>7 DEF vars
  <1> QED
    BY <1>1, <1>2, <1>3, <1>4, <1>5, <1>6, <1>7
    DEF Next, Setup, Broadcast, Handle

\* The devices, vectors, tables and frames of routing always have their types.
THEOREM RoutingTypesHold == Spec => []TypeOK
  BY InitTypes, StepTypes, PTL DEF Spec

-----------------------------------------------------------------------------
(* Next hops.                                                              *)

\* What a node knows it goes on knowing while it adds devices and replaces entries
\* by nearer ones, whatever the other nodes do.
LEMMA KnowsStays ==
    ASSUME TypeOK, TypeOK', NEW m \in Nodes, NEW d \in Dests, NEW k \in Nat,
           up[m] \subseteq up'[m],
           dv[m][d].hops # 0 =>
              dv'[m][d].hops # 0 /\ dv'[m][d].hops <= dv[m][d].hops,
           Knows(m, d, k)
    PROVE  Knows(m, d, k)'
  <1>1. dv[m][d] \in Entry /\ dv'[m][d] \in Entry
    BY DEF TypeOK, Known
  <1>2. dv[m][d].hops \in Nat /\ dv'[m][d].hops \in Nat
    BY <1>1 DEF Entry
  <1> QED
    BY <1>2 DEF Knows

\* A step that keeps what nodes know keeps what was said of them.
Keeps ==
    \A m \in Nodes : /\ up[m] \subseteq up'[m]
                     /\ \A d \in Dests : dv[m][d].hops # 0 =>
                           /\ dv'[m][d].hops # 0
                           /\ dv'[m][d].hops <= dv[m][d].hops

LEMMA TrueStays ==
    ASSUME TypeOK, TypeOK', Keeps, NEW m \in Nodes, NEW frame \in Frame,
           TrueOf(m, frame)
    PROVE  TrueOf(m, frame)'
  <1> SUFFICES ASSUME NEW d \in Dests
               PROVE  /\ frame.far[d] # 0 => Knows(m, d, frame.far[d])'
                      /\ d \in frame.links => d \in up'[m]
    BY DEF TrueOf
  <1>1. frame.far[d] \in Nat
    BY DEF Frame, Known
  <1> QED
    BY <1>1, KnowsStays DEF TrueOf, Keeps

LEMMA EntryStays ==
    ASSUME TypeOK, TypeOK', Keeps, NEW d \in Dests, NEW entry \in Entry,
           EntryOK(entry, d)
    PROVE  EntryOK(entry, d)'
  <1> SUFFICES ASSUME entry.hops # 0
               PROVE  /\ entry.via \in Nodes \X Subnets
                      /\ Knows(entry.via[1], d, entry.hops - 1)'
    BY DEF EntryOK
  <1>1. entry.via \in Nodes \X Subnets /\ Knows(entry.via[1], d, entry.hops - 1)
    BY DEF EntryOK
  <1>2. entry.hops - 1 \in Nat /\ entry.via[1] \in Nodes
    BY <1>1 DEF Entry
  <1> QED
    BY <1>1, <1>2, KnowsStays DEF Keeps

\* What is taken from a frame that is true of its source leads on.
LEMMA HeardOK ==
    ASSUME NEW d \in Dests, NEW entry \in Entry, EntryOK(entry, d),
           NEW hops \in Nat, NEW src \in Nodes \X Subnets,
           Knows(src[1], d, hops)
    PROVE  EntryOK(Heard(entry, hops, src), d)
  BY DEF Heard, EntryOK, Entry

\* And it is no farther than what was known before.
LEMMA HeardNearer ==
    ASSUME NEW entry \in Entry, NEW hops \in Nat, NEW src
    PROVE  entry.hops # 0 =>
              /\ Heard(entry, hops, src).hops # 0
              /\ Heard(entry, hops, src).hops <= entry.hops
  BY DEF Heard, Entry

\* All that is taken from one frame leads on, and none of it is farther.
LEMMA MergeOK ==
    ASSUME TypeOK, NEW d \in Dests, NEW entry \in Entry, EntryOK(entry, d),
           NEW frame \in Frame, frame.src \in Nodes \X Subnets,
           TrueOf(frame.src[1], frame)
    PROVE  /\ EntryOK(Merge(entry, frame, d), d)
           /\ entry.hops # 0 => /\ Merge(entry, frame, d).hops # 0
                                /\ Merge(entry, frame, d).hops <= entry.hops
  <1> DEFINE known == IF frame.far[d] # 0
                      THEN Heard(entry, frame.far[d], frame.src) ELSE entry
  <1>1. frame.far[d] \in Nat /\ frame.src \in Address
    BY DEF Frame, Known
  <1>2. known \in Entry
    BY <1>1, HeardType
  <1>3. EntryOK(known, d)
    BY <1>1, HeardOK DEF TrueOf
  <1>4. entry.hops # 0 => known.hops # 0 /\ known.hops <= entry.hops
    BY <1>1, HeardNearer DEF Entry
  <1>5. CASE d \notin frame.links
    BY <1>3, <1>4, <1>5 DEF Merge
  <1>6. CASE d \in frame.links
    <2>1. Knows(frame.src[1], d, 0)
      BY <1>6 DEF TrueOf, Knows
    <2>2. Merge(entry, frame, d) = Heard(known, 0, frame.src)
      BY <1>6 DEF Merge
    <2>3. EntryOK(Heard(known, 0, frame.src), d)
      BY <1>2, <1>3, <2>1, HeardOK
    <2>4. known.hops # 0 => /\ Heard(known, 0, frame.src).hops # 0
                            /\ Heard(known, 0, frame.src).hops <= known.hops
      BY <1>2, HeardNearer
    <2>5. /\ entry.hops \in Nat /\ known.hops \in Nat
          /\ Heard(known, 0, frame.src).hops \in Nat
      BY <1>1, <1>2, HeardType DEF Entry
    <2> HIDE DEF known
    <2> QED
      BY <1>4, <2>2, <2>3, <2>4, <2>5
  <1> QED
    BY <1>5, <1>6

\* The vectors, daemons and inboxes that a step leaves alone stay right.
LEMMA VectorsStay ==
    ASSUME WaysOK, TypeOK', Keeps, dv' = dv
    PROVE  VectorsOK'
  <1> SUFFICES ASSUME NEW n \in Nodes, NEW d \in Dests
               PROVE  EntryOK(dv[n][d], d)'
    BY DEF VectorsOK
  <1>1. dv[n][d] \in Entry
    BY DEF WaysOK, TypeOK, Known
  <1>2. \A entry \in Entry : EntryOK(entry, d) => EntryOK(entry, d)'
    BY EntryStays DEF WaysOK
  <1>3. EntryOK(dv[n][d], d)
    BY DEF WaysOK, VectorsOK
  <1> QED
    BY <1>1, <1>2, <1>3 DEF EntryOK, Knows

LEMMA DaemonsStay ==
    ASSUME WaysOK, TypeOK', Keeps, NEW n \in Nodes,
           daemon'[n].frame = daemon[n].frame,
           daemon'[n].todo \subseteq daemon[n].todo
    PROVE  TrueOf(n, daemon[n].frame)' /\ daemon'[n].todo \subseteq up'[n]
  <1>1. daemon[n].frame \in Frame /\ TrueOf(n, daemon[n].frame)
    BY DEF WaysOK, TypeOK, DaemonsOK
  <1>2. \A frame \in Frame : TrueOf(n, frame) => TrueOf(n, frame)'
    BY TrueStays DEF WaysOK
  <1>3. daemon[n].todo \subseteq up[n] /\ up[n] \subseteq up'[n]
    BY DEF WaysOK, DaemonsOK, Keeps
  <1> QED
    BY <1>1, <1>2, <1>3 DEF TrueOf, Knows

LEMMA InboxStays ==
    ASSUME WaysOK, TypeOK', Keeps, NEW n \in Nodes, NEW s \in Subnets,
           inbox'[n][s] = inbox[n][s], inbox[n][s] # None
    PROVE  /\ inbox'[n][s].src \in Nodes \X Subnets
           /\ TrueOf(inbox[n][s].src[1], inbox[n][s])'
  <1>1. inbox[n][s] \in Frame
    BY DEF WaysOK, TypeOK
  <1>2. /\ inbox[n][s].src \in Nodes \X Subnets
        /\ TrueOf(inbox[n][s].src[1], inbox[n][s])
    BY DEF WaysOK, InboxesOK
  <1>3. \A m \in Nodes, frame \in Frame : TrueOf(m, frame) => TrueOf(m, frame)'
    BY TrueStays DEF WaysOK
  <1> QED
    BY <1>1, <1>2, <1>3 DEF TrueOf, Knows

\* A step that leaves vectors and daemons alone keeps what nodes know.
LEMMA KeepsUnchanged ==
    ASSUME TypeOK, UNCHANGED dv, \A m \in Nodes : up[m] \subseteq up'[m]
    PROVE  Keeps
  BY DEF Keeps, TypeOK, Entry, Known

\* Devices, tables and what is to be rebuilt do not bear on what is known.
LEMMA OthersStep ==
    ASSUME WaysOK, TypeOK', UNCHANGED <<dv, daemon, inbox>>,
           \A m \in Nodes : up[m] \subseteq up'[m]
    PROVE  WaysOK'
  <1>1. Keeps
    BY KeepsUnchanged DEF WaysOK
  <1>2. VectorsOK'
    BY <1>1, VectorsStay
  <1>3. DaemonsOK'
    BY <1>1, DaemonsStay DEF DaemonsOK
  <1>4. InboxesOK'
    BY <1>1, InboxStays DEF InboxesOK
  <1> QED
    BY <1>2, <1>3, <1>4 DEF WaysOK

\* While no device is being added, a broadcast says what is true of its node.
LEMMA SnapshotStep ==
    ASSUME WaysOK, TypeOK', SetupRace = FALSE, NEW n \in Nodes, Snapshot(n)
    PROVE  WaysOK'
  <1>1. unfilled[n] = {}
    BY DEF Snapshot, MayBroadcast
  <1>2. Keeps
    BY KeepsUnchanged DEF WaysOK, Snapshot
  <1>3. VectorsOK'
    BY <1>2, VectorsStay DEF Snapshot
  <1>4. InboxesOK'
    BY <1>2, InboxStays DEF Snapshot, InboxesOK
  <1>5. TrueOf(n, Bytes(n))
    <2> SUFFICES ASSUME NEW d \in Dests
                 PROVE  /\ dv[n][d].hops # 0 => Knows(n, d, dv[n][d].hops)
                        /\ ScopeLink(n, d) => d \in up[n]
      BY DEF TrueOf, Bytes, Known
    <2>1. dv[n][d].hops \in Nat
      BY DEF WaysOK, TypeOK, Entry, Known
    <2> QED
      BY <1>1, <2>1 DEF Knows, ScopeLink
  <1>6. Counted(n) = up[n]
    BY <1>1 DEF Counted
  <1>7. DaemonsOK'
    <2> SUFFICES ASSUME NEW m \in Nodes
                 PROVE  /\ TrueOf(m, daemon[m].frame)'
                        /\ daemon'[m].todo \subseteq up'[m]
      BY DEF DaemonsOK
    <2>1. CASE m = n
      <3>1. daemon'[n] = [frame |-> Bytes(n), todo |-> up[n]]
        BY <1>6 DEF Snapshot, WaysOK, TypeOK
      <3>2. up' = up /\ dv' = dv
        BY DEF Snapshot
      <3> QED
        BY <1>5, <2>1, <3>1, <3>2 DEF TrueOf, Knows
    <2>2. CASE m # n
      <3>1. daemon'[m] = daemon[m]
        BY <2>2 DEF Snapshot, WaysOK, TypeOK
      <3> QED
        BY <1>2, <3>1, DaemonsStay
    <2> QED
      BY <2>1, <2>2
  <1> QED
    BY <1>3, <1>4, <1>7 DEF WaysOK

\* What arrives at a device is true of the address that it comes from.
LEMMA SendOnStep ==
    ASSUME WaysOK, TypeOK', NEW n \in Nodes, NEW s \in Subnets, SendOn(n, s)
    PROVE  WaysOK'
  <1> DEFINE frame == [daemon[n].frame EXCEPT !.src = <<n, s>>]
  <1>1. Keeps
    BY KeepsUnchanged DEF WaysOK, SendOn
  <1>2. VectorsOK'
    BY <1>1, VectorsStay DEF SendOn
  <1>3. s \in up[n]
    BY DEF SendOn, WaysOK, DaemonsOK
  <1>4. \A m \in Nodes, t \in Subnets :
           inbox'[m][t] = inbox[m][t] \/ inbox'[m][t] = frame
    <2>1. PICK src \in {<<n, s>>} \cup (IF s \in up[n] THEN {} ELSE {Nobody}) :
             inbox' = [m \in Nodes |-> [t \in Subnets |->
                          IF /\ m # n /\ t = s
                             /\ s \in Counted(m) /\ inbox[m][s] = None
                          THEN [daemon[n].frame EXCEPT !.src = src]
                          ELSE inbox[m][t]]]
      BY DEF SendOn
    <2>2. src = <<n, s>>
      BY <1>3, <2>1
    <2> QED
      BY <2>1, <2>2
  <1>5. /\ daemon[n].frame \in Frame
        /\ TrueOf(n, daemon[n].frame)
    BY DEF WaysOK, TypeOK, DaemonsOK
  <1>6. /\ frame.src = <<n, s>>
        /\ frame.far = daemon[n].frame.far
        /\ frame.links = daemon[n].frame.links
    BY <1>5 DEF Frame
  <1>7. up' = up /\ dv' = dv
    BY DEF SendOn
  <1> HIDE DEF frame
  <1>8. InboxesOK'
    <2> SUFFICES ASSUME NEW m \in Nodes, NEW t \in Subnets, inbox'[m][t] # None
                 PROVE  /\ inbox'[m][t].src \in Nodes \X Subnets
                        /\ TrueOf(inbox[m][t].src[1], inbox[m][t])'
      BY DEF InboxesOK
    <2>1. CASE inbox'[m][t] = inbox[m][t]
      BY <1>1, <2>1, InboxStays
    <2>2. CASE inbox'[m][t] = frame
      <3>1. inbox'[m][t].src = <<n, s>> /\ inbox'[m][t].src[1] = n
        BY <1>6, <2>2
      <3>2. TrueOf(n, inbox[m][t])'
        BY <1>5, <1>6, <1>7, <2>2 DEF TrueOf, Knows
      <3> QED
        BY <3>1, <3>2
    <2> QED
      BY <1>4, <2>1, <2>2
  <1>9. DaemonsOK'
    <2> SUFFICES ASSUME NEW m \in Nodes
                 PROVE  /\ TrueOf(m, daemon[m].frame)'
                        /\ daemon'[m].todo \subseteq up'[m]
      BY DEF DaemonsOK
    <2>1. daemon[n] \in [frame : Frame, todo : SUBSET Subnets]
      BY DEF WaysOK, TypeOK
    <2>2. /\ daemon'[m].frame = daemon[m].frame
          /\ daemon'[m].todo \subseteq daemon[m].todo
      BY <2>1 DEF SendOn, WaysOK, TypeOK
    <2> QED
      BY <1>1, <2>2, DaemonsStay
  <1> QED
    BY <1>2, <1>8, <1>9 DEF WaysOK

\* A node that takes a frame knows no less than before, and what it adds leads on.
LEMMA ResolveStep ==
    ASSUME WaysOK, TypeOK', NEW n \in Nodes, NEW s \in Subnets, Resolve(n, s)
    PROVE  WaysOK'
  <1> DEFINE frame == inbox[n][s]
  <1>1. /\ frame \in Frame
        /\ frame.src \in Nodes \X Subnets
        /\ TrueOf(frame.src[1], frame)
    BY DEF Resolve, WaysOK, TypeOK, InboxesOK
  <1>2. dv' = [dv EXCEPT ![n] = Resolved(n, frame)] /\ up' = up /\ daemon' = daemon
    BY DEF Resolve
  <1> HIDE DEF frame
  <1>3. ASSUME NEW m \in Nodes, NEW d \in Dests
        PROVE  /\ EntryOK(dv'[m][d], d)
               /\ dv[m][d].hops # 0 => /\ dv'[m][d].hops # 0
                                       /\ dv'[m][d].hops <= dv[m][d].hops
    <2>1. dv[m][d] \in Entry /\ EntryOK(dv[m][d], d)
      BY DEF WaysOK, TypeOK, VectorsOK, Known
    <2>2. CASE dv'[m][d] = dv[m][d]
      BY <2>1, <2>2 DEF Entry
    <2>3. CASE dv'[m][d] = Merge(dv[m][d], frame, d)
      BY <1>1, <2>1, <2>3, MergeOK DEF WaysOK
    <2>4. \/ dv'[m][d] = dv[m][d]
          \/ dv'[m][d] = Merge(dv[m][d], frame, d)
      BY <1>2 DEF Resolved, WaysOK, TypeOK, Known
    <2> QED
      BY <2>2, <2>3, <2>4
  <1>4. Keeps
    BY <1>2, <1>3 DEF Keeps
  <1>5. VectorsOK'
    <2> SUFFICES ASSUME NEW m \in Nodes, NEW d \in Dests
                 PROVE  EntryOK(dv[m][d], d)'
      BY DEF VectorsOK
    <2>1. dv'[m][d] \in Entry
      BY DEF TypeOK, Known
    <2>2. EntryOK(dv'[m][d], d)
      BY <1>3
    <2>3. \A entry \in Entry : EntryOK(entry, d) => EntryOK(entry, d)'
      BY <1>4, EntryStays DEF WaysOK
    <2> QED
      BY <2>1, <2>2, <2>3 DEF EntryOK, Knows
  <1>6. DaemonsOK'
    BY <1>2, <1>4, DaemonsStay DEF DaemonsOK
  <1>7. InboxesOK'
    <2> SUFFICES ASSUME NEW m \in Nodes, NEW t \in Subnets, inbox'[m][t] # None
                 PROVE  /\ inbox'[m][t].src \in Nodes \X Subnets
                        /\ TrueOf(inbox[m][t].src[1], inbox[m][t])'
      BY DEF InboxesOK
    <2>1. inbox'[m][t] = inbox[m][t]
      BY DEF Resolve, WaysOK, TypeOK
    <2> QED
      BY <1>4, <2>1, InboxStays
  <1> QED
    BY <1>5, <1>6, <1>7 DEF WaysOK

\* Nothing is known and nothing is on its way at the beginning.
LEMMA InitWays == Init => WaysOK
  <1> SUFFICES ASSUME Init PROVE WaysOK
    OBVIOUS
  <1>1. TypeOK
    BY InitTypes
  <1>2. VectorsOK
    BY DEF VectorsOK, Init, EntryOK, Absent, Known
  <1>3. DaemonsOK
    BY DEF DaemonsOK, Init, Quiet, TrueOf, Known
  <1>4. InboxesOK
    BY DEF InboxesOK, Init
  <1> QED
    BY <1>1, <1>2, <1>3, <1>4 DEF WaysOK

LEMMA StepWays == SetupRace = FALSE /\ WaysOK /\ [Next]_vars => WaysOK'
  <1> SUFFICES ASSUME SetupRace = FALSE, WaysOK, [Next]_vars PROVE WaysOK'
    OBVIOUS
  <1>1. TypeOK'
    BY StepTypes DEF WaysOK
  <1>2. ASSUME NEW n \in Nodes, NEW s \in Subnets, Reserve(n, s) PROVE WaysOK'
    BY <1>1, <1>2, OthersStep DEF Reserve
  <1>3. ASSUME NEW n \in Nodes, Complete(n) PROVE WaysOK'
    <2>1. \A m \in Nodes : up[m] \subseteq up'[m]
      BY <1>3 DEF Complete, WaysOK, TypeOK
    <2> QED
      BY <1>1, <1>3, <2>1, OthersStep DEF Complete
  <1>4. ASSUME NEW n \in Nodes, Snapshot(n) PROVE WaysOK'
    BY <1>1, <1>4, SnapshotStep
  <1>5. ASSUME NEW n \in Nodes, NEW s \in Subnets, SendOn(n, s) PROVE WaysOK'
    BY <1>1, <1>5, SendOnStep
  <1>6. ASSUME NEW n \in Nodes, NEW s \in Subnets, Resolve(n, s) PROVE WaysOK'
    BY <1>1, <1>6, ResolveStep
  <1>7. ASSUME NEW n \in Nodes, NEW s \in Subnets, Rebuild(n, s) PROVE WaysOK'
    BY <1>1, <1>7, OthersStep DEF Rebuild
  <1>8. CASE UNCHANGED vars
    BY <1>1, <1>8, OthersStep DEF vars
  <1> QED
    BY <1>2, <1>3, <1>4, <1>5, <1>6, <1>7, <1>8
    DEF Next, Setup, Broadcast, Handle

\* What a node knows leads on.
LEMMA WaysAdvance == WaysOK => NextHopsAdvance
  <1> SUFFICES ASSUME WaysOK, NEW n \in Nodes, NEW d \in Dests,
                      dv[n][d].hops # 0
               PROVE  /\ dv[n][d].via \in Nodes \X Subnets
                      /\ \/ d \in up[dv[n][d].via[1]]
                         \/ /\ dv[dv[n][d].via[1]][d].hops # 0
                            /\ dv[dv[n][d].via[1]][d].hops < dv[n][d].hops
    BY DEF NextHopsAdvance
  <1>1. /\ dv[n][d].via \in Nodes \X Subnets
        /\ Knows(dv[n][d].via[1], d, dv[n][d].hops - 1)
    BY DEF WaysOK, VectorsOK, EntryOK
  <1>2. dv[n][d].hops \in Nat /\ dv[dv[n][d].via[1]][d].hops \in Nat
    BY <1>1 DEF WaysOK, TypeOK, Entry, Known
  <1> DEFINE m == dv[n][d].via[1]
             h == dv[n][d].hops
             g == dv[m][d].hops
  <1>3. d \in up[m] \/ (g # 0 /\ g <= h - 1)
    BY <1>1 DEF Knows
  <1> HIDE DEF h, g
  <1>4. g <= h - 1 => g < h
    BY <1>2 DEF h, g
  <1> QED
    BY <1>1, <1>3, <1>4 DEF h, g

\* As long as no broadcast comes while a device is being added, every next hop is
\* on the subnet or nearer to it, in every network and at any time
\* (resolve_distance_upd).
THEOREM NextHopsLead == SetupRace = FALSE /\ Spec => []NextHopsAdvance
  <1> SUFFICES ASSUME SetupRace = FALSE PROVE Spec => []NextHopsAdvance
    OBVIOUS
  <1>1. WaysOK /\ [Next]_vars => WaysOK'
    BY StepWays
  <1> QED
    BY InitWays, <1>1, WaysAdvance, PTL DEF Spec

-----------------------------------------------------------------------------
(* Tables.                                                                 *)

\* What the table says of an entry, wherever it is built.
Learned(entry) ==
    IF entry.hops = 0 THEN NoRoute
    ELSE [via |-> entry.via,
          dev |-> IF entry.via = Nobody THEN None ELSE entry.via[2]]

\* The device of a next hop on one of the node's subnets is the one on it, however
\* many other devices the node has (routing.cc:419).
LEMMA DeviceOfHop ==
    ASSUME TypeOK, SameMasks, NEW n \in Nodes, NEW d \in Dests,
           NEW hop \in Nodes \X Subnets, hop[2] \in up[n]
    PROVE  DeviceFor(n, hop, d) = hop[2]
  <1> DEFINE found == {s \in up[n] : /\ Mask[s] = Mask[d]
                                     /\ hop # Nobody /\ s \in Covers[hop[2]]}
  <1>1. d \in Subnets /\ d # Default /\ hop[2] \in Subnets /\ hop # Nobody
    OBVIOUS
  <1>2. up[n] \subseteq Subnets
    BY DEF TypeOK
  <1>3. hop[2] \in found
    BY <1>1 DEF SameMasks
  <1>4. ASSUME NEW s \in found PROVE s = hop[2]
    BY <1>1, <1>2 DEF SameMasks
  <1>5. DeviceFor(n, hop, d) =
           IF found = {} THEN None ELSE CHOOSE s \in found : TRUE
    BY <1>1 DEF DeviceFor
  <1> HIDE DEF found
  <1> QED
    BY <1>3, <1>4, <1>5

\* So a route depends on the vector alone, and not on the devices there are when
\* it is made.
LEMMA RoutesLearned ==
    SameMasks /\ TypeOK /\ HopsOK =>
        \A n \in Nodes, d \in Dests : RouteOf(n, d) = Learned(dv[n][d])
  <1> SUFFICES ASSUME SameMasks, TypeOK, HopsOK, NEW n \in Nodes, NEW d \in Dests
               PROVE  RouteOf(n, d) = Learned(dv[n][d])
    OBVIOUS
  <1> DEFINE hop == dv[n][d].via
  <1>1. hop \in Address
    BY DEF TypeOK, Entry, Known
  <1>2. hop = Nobody \/ hop[2] \in up[n]
    BY DEF HopsOK, Known
  <1>3. CASE hop = Nobody
    <2>1. DeviceFor(n, hop, d) = None
      BY <1>3 DEF DeviceFor
    <2> QED
      BY <1>3, <2>1 DEF RouteOf, Learned
  <1>4. CASE hop # Nobody
    <2>1. hop \in Nodes \X Subnets /\ hop[2] \in up[n]
      BY <1>1, <1>2, <1>4 DEF Address
    <2>2. DeviceFor(n, hop, d) = hop[2]
      BY <2>1, DeviceOfHop
    <2> QED
      BY <1>4, <2>2 DEF RouteOf, Learned
  <1> QED
    BY <1>3, <1>4

\* The same of the state after a step.
LEMMA RoutesLearnedNext ==
    SameMasks /\ TypeOK' /\ HopsOK' =>
        \A n \in Nodes, d \in Dests : RouteOf(n, d)' = Learned(dv[n][d])'
  <1> SUFFICES ASSUME SameMasks
               PROVE  TypeOK' /\ HopsOK' => (\A n \in Nodes, d \in Dests :
                                              RouteOf(n, d) = Learned(dv[n][d]))'
    OBVIOUS
  <1>1. TypeOK /\ HopsOK =>
           \A n \in Nodes, d \in Dests : RouteOf(n, d) = Learned(dv[n][d])
    BY RoutesLearned
  <1> QED
    BY <1>1, PTL

\* What is taken from a frame is reached through its source.
LEMMA MergeHop ==
    ASSUME NEW entry \in Entry, NEW frame \in Frame, NEW d \in Known
    PROVE  Merge(entry, frame, d).via \in {entry.via, frame.src}
  BY DEF Merge, Heard

\* Next hops stay where the node has a device: it gets more of them, never less.
LEMMA HopsStay ==
    ASSUME HopsOK, UNCHANGED dv, \A m \in Nodes : up[m] \subseteq up'[m]
    PROVE  HopsOK'
  BY DEF HopsOK

\* A table that was current is so when more devices are there.
LEMMA TableStays ==
    ASSUME SameMasks, TablesOK, TypeOK', HopsOK', NEW n \in Nodes, NEW d \in Dests,
           dv'[n] = dv[n], table'[n] = table[n], behind[n] = {}
    PROVE  table'[n][d] = RouteOf(n, d)'
  <1>1. table[n][d] = RouteOf(n, d)
    BY DEF TablesOK, TableIsCurrent
  <1>2. RouteOf(n, d) = Learned(dv[n][d])
    BY RoutesLearned DEF TablesOK
  <1>3. RouteOf(n, d)' = Learned(dv[n][d])'
    BY RoutesLearnedNext
  <1>4. Learned(dv[n][d])' = Learned(dv[n][d])
    BY DEF Learned
  <1> QED
    BY <1>1, <1>2, <1>3, <1>4

\* Devices and daemons do not bear on the tables.
LEMMA TablesUnchanged ==
    ASSUME SameMasks, TablesOK, TypeOK', UNCHANGED <<dv, table, behind, inbox>>,
           \A m \in Nodes : up[m] \subseteq up'[m]
    PROVE  TablesOK'
  <1>1. HopsOK'
    BY HopsStay DEF TablesOK
  <1>2. SourcesOK'
    BY DEF TablesOK, SourcesOK
  <1>3. TableIsCurrent'
    <2> SUFFICES ASSUME NEW n \in Nodes, behind'[n] = {}, NEW d \in Dests
                 PROVE  table'[n][d] = RouteOf(n, d)'
      BY DEF TableIsCurrent
    <2>1. dv'[n] = dv[n] /\ table'[n] = table[n] /\ behind[n] = {}
      OBVIOUS
    <2> QED
      BY <1>1, <2>1, TableStays
  <1> QED
    BY <1>1, <1>2, <1>3 DEF TablesOK

\* A frame arrives on the subnet that it was sent on.
LEMMA TablesSendOn ==
    ASSUME SameMasks, TablesOK, TypeOK', NEW n \in Nodes, NEW s \in Subnets,
           SendOn(n, s)
    PROVE  TablesOK'
  <1>1. HopsOK'
    BY HopsStay DEF TablesOK, SendOn
  <1>2. SourcesOK'
    <2>1. PICK src \in {<<n, s>>} \cup (IF s \in up[n] THEN {} ELSE {Nobody}) :
             inbox' = [m \in Nodes |-> [t \in Subnets |->
                          IF /\ m # n /\ t = s
                             /\ s \in Counted(m) /\ inbox[m][s] = None
                          THEN [daemon[n].frame EXCEPT !.src = src]
                          ELSE inbox[m][t]]]
      BY DEF SendOn
    <2>2. daemon[n].frame \in Frame
      BY DEF TablesOK, TypeOK
    <2>3. [daemon[n].frame EXCEPT !.src = src].src = src
      BY <2>2 DEF Frame
    <2>4. src = Nobody \/ src[2] = s
      BY <2>1
    <2> SUFFICES ASSUME NEW m \in Nodes, NEW t \in Subnets, inbox'[m][t] # None
                 PROVE  inbox'[m][t].src = Nobody \/ inbox'[m][t].src[2] = t
      BY DEF SourcesOK
    <2>5. \/ inbox'[m][t] = inbox[m][t]
          \/ t = s /\ inbox'[m][t] = [daemon[n].frame EXCEPT !.src = src]
      BY <2>1
    <2>6. CASE inbox'[m][t] = inbox[m][t]
      BY <2>6 DEF TablesOK, SourcesOK
    <2>7. CASE t = s /\ inbox'[m][t] = [daemon[n].frame EXCEPT !.src = src]
      BY <2>3, <2>4, <2>7
    <2> QED
      BY <2>5, <2>6, <2>7
  <1>3. TableIsCurrent'
    <2> SUFFICES ASSUME NEW m \in Nodes, behind'[m] = {}, NEW d \in Dests
                 PROVE  table'[m][d] = RouteOf(m, d)'
      BY DEF TableIsCurrent
    <2>1. dv'[m] = dv[m] /\ table'[m] = table[m] /\ behind[m] = {}
      BY DEF SendOn
    <2> QED
      BY <1>1, <2>1, TableStays
  <1> QED
    BY <1>1, <1>2, <1>3 DEF TablesOK

\* A thread that changes the vector is behind from then on, and the next hops that
\* it takes are on the subnet of its device.
LEMMA TablesResolve ==
    ASSUME SameMasks, TablesOK, TypeOK', NEW n \in Nodes, NEW s \in Subnets,
           Resolve(n, s)
    PROVE  TablesOK'
  <1> DEFINE frame == inbox[n][s]
  <1>1. /\ frame \in Frame /\ s \in up[n]
        /\ frame.src = Nobody \/ frame.src[2] = s
    BY DEF Resolve, TablesOK, TypeOK, SourcesOK
  <1>2. /\ dv' = [dv EXCEPT ![n] = Resolved(n, frame)]
        /\ behind' = [behind EXCEPT ![n] = IF Updated(n, frame)
                                           THEN @ \cup {s} ELSE @]
        /\ inbox' = [inbox EXCEPT ![n][s] = None]
        /\ up' = up /\ table' = table
    BY DEF Resolve
  <1> HIDE DEF frame
  <1>3. HopsOK'
    <2> SUFFICES ASSUME NEW m \in Nodes, NEW d \in Known
                 PROVE  dv'[m][d].via = Nobody \/ dv'[m][d].via[2] \in up[m]
      BY <1>2 DEF HopsOK
    <2>1. dv[m][d] \in Entry /\ (dv[m][d].via = Nobody \/ dv[m][d].via[2] \in up[m])
      BY DEF TablesOK, TypeOK, HopsOK
    <2>2. \/ dv'[m][d] = dv[m][d]
          \/ m = n /\ dv'[m][d] = Merge(dv[m][d], frame, d)
      BY <1>2 DEF Resolved, TablesOK, TypeOK
    <2>3. CASE dv'[m][d] = dv[m][d]
      BY <2>1, <2>3
    <2>4. CASE m = n /\ dv'[m][d] = Merge(dv[m][d], frame, d)
      <3>1. dv'[m][d].via \in {dv[m][d].via, frame.src}
        BY <1>1, <2>1, <2>4, MergeHop
      <3> QED
        BY <1>1, <2>1, <2>4, <3>1
    <2> QED
      BY <2>2, <2>3, <2>4
  <1>4. SourcesOK'
    <2> SUFFICES ASSUME NEW m \in Nodes, NEW t \in Subnets, inbox'[m][t] # None
                 PROVE  inbox'[m][t].src = Nobody \/ inbox'[m][t].src[2] = t
      BY DEF SourcesOK
    <2>1. inbox'[m][t] = inbox[m][t]
      BY <1>2 DEF TablesOK, TypeOK
    <2> QED
      BY <2>1 DEF TablesOK, SourcesOK
  <1>5. TableIsCurrent'
    <2> SUFFICES ASSUME NEW m \in Nodes, behind'[m] = {}, NEW d \in Dests
                 PROVE  table'[m][d] = RouteOf(m, d)'
      BY DEF TableIsCurrent
    <2>1. dv'[m] = dv[m] /\ behind[m] = {}
      <3>1. CASE m # n
        BY <1>2, <3>1 DEF TablesOK, TypeOK
      <3>2. CASE m = n
        <4>1. ~Updated(n, frame) /\ behind[n] = {}
          BY <1>2, <3>2 DEF TablesOK, TypeOK
        <4>2. Resolved(n, frame) = dv[n]
          BY <4>1 DEF Updated
        <4> QED
          BY <1>2, <3>2, <4>1, <4>2 DEF TablesOK, TypeOK
      <3> QED
        BY <3>1, <3>2
    <2>2. table'[m] = table[m]
      BY <1>2
    <2> QED
      BY <1>3, <2>1, <2>2, TableStays
  <1> QED
    BY <1>3, <1>4, <1>5 DEF TablesOK

\* Whichever thread rebuilds the table, it makes it from the vector as it is.
LEMMA TablesRebuild ==
    ASSUME SameMasks, TablesOK, TypeOK', NEW n \in Nodes, NEW s \in Subnets,
           Rebuild(n, s)
    PROVE  TablesOK'
  <1>1. HopsOK'
    BY HopsStay DEF TablesOK, Rebuild
  <1>2. SourcesOK'
    BY DEF TablesOK, SourcesOK, Rebuild
  <1>3. TableIsCurrent'
    <2> SUFFICES ASSUME NEW m \in Nodes, behind'[m] = {}, NEW d \in Dests
                 PROVE  table'[m][d] = RouteOf(m, d)'
      BY DEF TableIsCurrent
    <2>1. dv'[m] = dv[m]
      BY DEF Rebuild
    <2>2. CASE m # n
      <3>1. table'[m] = table[m] /\ behind[m] = {}
        BY <2>2 DEF Rebuild, TablesOK, TypeOK
      <3> QED
        BY <1>1, <2>1, <3>1, TableStays
    <2>3. CASE m = n
      <3>1. table'[n][d] = RouteOf(n, d)
        BY DEF Rebuild, TablesOK, TypeOK, Known
      <3>2. RouteOf(n, d)' = RouteOf(n, d)
        BY <1>1, RoutesLearned, RoutesLearnedNext, <2>1, <2>3
        DEF TablesOK, Learned
      <3> QED
        BY <2>3, <3>1, <3>2
    <2> QED
      BY <2>2, <2>3
  <1> QED
    BY <1>1, <1>2, <1>3 DEF TablesOK

LEMMA InitTables == Init => TablesOK
  <1> SUFFICES ASSUME Init PROVE TablesOK
    OBVIOUS
  <1>1. TypeOK
    BY InitTypes
  <1>2. HopsOK /\ SourcesOK
    BY DEF HopsOK, SourcesOK, Init, Absent
  <1>3. TableIsCurrent
    BY DEF TableIsCurrent, Init, RouteOf, Absent, Known
  <1> QED
    BY <1>1, <1>2, <1>3 DEF TablesOK

LEMMA StepTables == SameMasks /\ TablesOK /\ [Next]_vars => TablesOK'
  <1> SUFFICES ASSUME SameMasks, TablesOK, [Next]_vars PROVE TablesOK'
    OBVIOUS
  <1>1. TypeOK'
    BY StepTypes DEF TablesOK
  <1>2. ASSUME NEW n \in Nodes, NEW s \in Subnets, Reserve(n, s) PROVE TablesOK'
    BY <1>1, <1>2, TablesUnchanged DEF Reserve
  <1>3. ASSUME NEW n \in Nodes, Complete(n) PROVE TablesOK'
    <2>1. \A m \in Nodes : up[m] \subseteq up'[m]
      BY <1>3 DEF Complete, TablesOK, TypeOK
    <2> QED
      BY <1>1, <1>3, <2>1, TablesUnchanged DEF Complete
  <1>4. ASSUME NEW n \in Nodes, Snapshot(n) PROVE TablesOK'
    BY <1>1, <1>4, TablesUnchanged DEF Snapshot
  <1>5. ASSUME NEW n \in Nodes, NEW s \in Subnets, SendOn(n, s) PROVE TablesOK'
    BY <1>1, <1>5, TablesSendOn
  <1>6. ASSUME NEW n \in Nodes, NEW s \in Subnets, Resolve(n, s) PROVE TablesOK'
    BY <1>1, <1>6, TablesResolve
  <1>7. ASSUME NEW n \in Nodes, NEW s \in Subnets, Rebuild(n, s) PROVE TablesOK'
    BY <1>1, <1>7, TablesRebuild
  <1>8. CASE UNCHANGED vars
    BY <1>1, <1>8, TablesUnchanged DEF vars
  <1> QED
    BY <1>2, <1>3, <1>4, <1>5, <1>6, <1>7, <1>8
    DEF Next, Setup, Broadcast, Handle

\* In every network of one mask length, and although broadcasts come while devices
\* are being added, a table that no receiving thread has still to rebuild says
\* what the vector says (generate_dynamic_routing_table_from_dv).
THEOREM TablesFollow == SameMasks /\ Spec => []TableIsCurrent
  <1> SUFFICES ASSUME SameMasks PROVE Spec => []TableIsCurrent
    OBVIOUS
  <1>1. TablesOK /\ [Next]_vars => TablesOK'
    BY StepTables
  <1>2. TablesOK => TableIsCurrent
    BY DEF TablesOK
  <1> QED
    BY InitTables, <1>1, <1>2, PTL DEF Spec

-----------------------------------------------------------------------------
(* Devices of the routes.                                                  *)

\* Nothing is ever said of the default subnet while broadcasts wait for devices.
LEMMA DefaultSilent ==
    ASSUME SetupRace = FALSE, TypeOK, DefaultOK, [Next]_vars
    PROVE  DefaultOK'
  <1>1. Default \in Known
    BY DEF Known
  <1>2. ASSUME UNCHANGED <<dv, daemon, inbox>> PROVE DefaultOK'
    BY <1>2 DEF DefaultOK, Silent
  <1>3. ASSUME NEW n \in Nodes, NEW s \in Subnets, Reserve(n, s) PROVE DefaultOK'
    BY <1>2, <1>3 DEF Reserve
  <1>4. ASSUME NEW n \in Nodes, Complete(n) PROVE DefaultOK'
    BY <1>2, <1>4 DEF Complete
  <1>5. ASSUME NEW n \in Nodes, NEW s \in Subnets, Rebuild(n, s) PROVE DefaultOK'
    BY <1>2, <1>5 DEF Rebuild
  <1>6. ASSUME NEW n \in Nodes, Snapshot(n) PROVE DefaultOK'
    <2>1. unfilled[n] = {}
      BY <1>6 DEF Snapshot, MayBroadcast
    <2>2. Default \notin up[n]
      BY DEF TypeOK
    <2>3. Silent(Bytes(n))
      BY <1>1, <2>1, <2>2 DEF Silent, Bytes, ScopeLink, DefaultOK
    <2>4. \A m \in Nodes : \/ daemon'[m].frame = daemon[m].frame
                           \/ daemon'[m].frame = Bytes(n)
      BY <1>6 DEF Snapshot, TypeOK
    <2>5. dv' = dv /\ inbox' = inbox
      BY <1>6 DEF Snapshot
    <2> QED
      BY <2>3, <2>4, <2>5 DEF DefaultOK, Silent
  <1>7. ASSUME NEW n \in Nodes, NEW s \in Subnets, SendOn(n, s) PROVE DefaultOK'
    <2>1. PICK src \in {<<n, s>>} \cup (IF s \in up[n] THEN {} ELSE {Nobody}) :
             inbox' = [m \in Nodes |-> [t \in Subnets |->
                          IF /\ m # n /\ t = s
                             /\ s \in Counted(m) /\ inbox[m][s] = None
                          THEN [daemon[n].frame EXCEPT !.src = src]
                          ELSE inbox[m][t]]]
      BY <1>7 DEF SendOn
    <2> DEFINE frame == [daemon[n].frame EXCEPT !.src = src]
    <2>2. daemon[n] \in [frame : Frame, todo : SUBSET Subnets]
      BY DEF TypeOK
    <2>3. frame.far = daemon[n].frame.far /\ frame.links = daemon[n].frame.links
      BY <2>2 DEF Frame
    <2>4. Silent(frame)
      BY <2>3 DEF DefaultOK, Silent
    <2>5. \A m \in Nodes, t \in Subnets :
             inbox'[m][t] = inbox[m][t] \/ inbox'[m][t] = frame
      BY <2>1
    <2>6. \A m \in Nodes : daemon'[m].frame = daemon[m].frame
      BY <1>7, <2>2 DEF SendOn, TypeOK
    <2>7. dv' = dv
      BY <1>7 DEF SendOn
    <2> HIDE DEF frame
    <2> QED
      BY <2>4, <2>5, <2>6, <2>7 DEF DefaultOK, Silent
  <1>8. ASSUME NEW n \in Nodes, NEW s \in Subnets, Resolve(n, s) PROVE DefaultOK'
    <2> DEFINE frame == inbox[n][s]
    <2>1. Silent(frame)
      BY <1>8 DEF Resolve, DefaultOK
    <2>2. Merge(dv[n][Default], frame, Default) = dv[n][Default]
      BY <2>1 DEF Silent, Merge
    <2>3. Resolved(n, frame)[Default] = dv[n][Default]
      BY <1>1, <2>2 DEF Resolved
    <2>4. \A m \in Nodes : dv'[m][Default] = dv[m][Default]
      BY <1>8, <2>3 DEF Resolve, TypeOK
    <2>5. \A m \in Nodes, t \in Subnets :
             inbox'[m][t] = inbox[m][t] \/ inbox'[m][t] = None
      BY <1>8 DEF Resolve, TypeOK
    <2>6. daemon' = daemon
      BY <1>8 DEF Resolve
    <2> QED
      BY <2>4, <2>5, <2>6 DEF DefaultOK, Silent
  <1>9. CASE UNCHANGED vars
    BY <1>2, <1>9 DEF vars
  <1> QED
    BY <1>3, <1>4, <1>5, <1>6, <1>7, <1>8, <1>9
    DEF Next, Setup, Broadcast, Handle

\* An entry of the vector gives a route with a device.
LEMMA RouteHasDevice ==
    ASSUME SameMasks, WaysOK, TablesOK, DefaultOK, NEW n \in Nodes, NEW d \in Known,
           RouteOf(n, d) # NoRoute
    PROVE  RouteOf(n, d).dev # None
  <1>1. dv[n][d].hops # 0
    BY DEF RouteOf
  <1>2. d \in Dests
    BY <1>1 DEF DefaultOK, Known
  <1>3. dv[n][d].via \in Nodes \X Subnets
    BY <1>1, <1>2 DEF WaysOK, VectorsOK, EntryOK
  <1>4. RouteOf(n, d) = Learned(dv[n][d])
    BY <1>2, RoutesLearned DEF TablesOK
  <1>5. Learned(dv[n][d]).dev = dv[n][d].via[2]
    BY <1>1, <1>3 DEF Learned
  <1> QED
    BY <1>3, <1>4, <1>5

\* Only Rebuild changes a table.
LEMMA RoutesStep ==
    ASSUME SameMasks, DevicesOK, [Next]_vars
    PROVE  RoutesOK'
  <1>1. ASSUME UNCHANGED table PROVE RoutesOK'
    BY <1>1 DEF DevicesOK, RoutesOK
  <1>2. ASSUME NEW n \in Nodes, NEW s \in Subnets, Rebuild(n, s) PROVE RoutesOK'
    <2> SUFFICES ASSUME NEW m \in Nodes, NEW d \in Known, table'[m][d] # NoRoute
                 PROVE  table'[m][d].dev # None
      BY DEF RoutesOK
    <2>1. table'[m][d] = table[m][d] \/ table'[m][d] = RouteOf(n, d)
      BY <1>2 DEF Rebuild, DevicesOK, TablesOK, TypeOK
    <2>2. CASE table'[m][d] = table[m][d]
      BY <2>2 DEF DevicesOK, RoutesOK
    <2>3. CASE table'[m][d] = RouteOf(n, d)
      BY <2>3, RouteHasDevice DEF DevicesOK
    <2> QED
      BY <2>1, <2>2, <2>3
  <1>3. UNCHANGED table \/ \E n \in Nodes, s \in Subnets : Rebuild(n, s)
    BY DEF Next, Setup, Broadcast, Handle, Reserve, Complete, Snapshot, SendOn,
           Resolve, vars
  <1> QED
    BY <1>1, <1>2, <1>3

LEMMA InitDevices == Init => DevicesOK
  <1> SUFFICES ASSUME Init PROVE DevicesOK
    OBVIOUS
  <1>1. Default \in Known
    BY DEF Known
  <1>2. Silent(Quiet.frame)
    BY <1>1 DEF Silent, Quiet
  <1>3. DefaultOK
    BY <1>1, <1>2 DEF Init, DefaultOK, Absent
  <1>4. RoutesOK
    BY DEF Init, RoutesOK
  <1> QED
    BY <1>3, <1>4, InitWays, InitTables DEF DevicesOK

\* An answer of get_next_hop is a device of the node or comes from its table.
LEMMA RoutesAnswer == DevicesOK => FoundMeansDevice
  <1> SUFFICES ASSUME DevicesOK, NEW n \in Nodes, NEW d \in Dests,
                      NEW answer \in NextHops(n, d)
               PROVE  answer[2].dev # None
    BY DEF FoundMeansDevice
  <1>1. CASE \E x \in up[n] \cap Covers[d] : answer = <<x, Direct(x)>>
    BY <1>1 DEF Direct, DevicesOK, TablesOK, TypeOK
  <1>2. CASE \E x \in Known : table[n][x] # NoRoute /\ answer = <<x, table[n][x]>>
    BY <1>2 DEF DevicesOK, RoutesOK
  <1> QED
    BY <1>1, <1>2 DEF NextHops

\* In every network of one mask length, as long as no broadcast comes while a
\* device is being added, get_next_hop never answers with a destination that it
\* knows and without the device to send on.
THEOREM RoutesHaveDevices ==
    SameMasks /\ SetupRace = FALSE /\ Spec => []FoundMeansDevice
  <1> SUFFICES ASSUME SameMasks, SetupRace = FALSE PROVE Spec => []FoundMeansDevice
    OBVIOUS
  <1>1. DevicesOK /\ [Next]_vars => DevicesOK'
    <2> SUFFICES ASSUME DevicesOK, [Next]_vars PROVE DevicesOK'
      OBVIOUS
    <2>1. WaysOK' /\ TablesOK'
      BY StepWays, StepTables DEF DevicesOK
    <2>2. DefaultOK'
      BY DefaultSilent DEF DevicesOK, TablesOK
    <2>3. RoutesOK'
      BY RoutesStep
    <2> QED
      BY <2>1, <2>2, <2>3 DEF DevicesOK
  <1> QED
    BY <1>1, InitDevices, RoutesAnswer, PTL DEF Spec

=============================================================================
