# NS-Stack in TLA+

NS-Stack is a user-level network stack: Ethernet frames through libpcap, ARP,
IPv4 with static or distance-vector routing, TCP, and a POSIX socket interface
that applications reach through `--wrap`ped `socket`, `connect`, `read`, ...
The modules here model its TCP connection from both ends, a host with its
sockets, blocks and threads, the ring buffers, IP with ARP, and dynamic routing.
TLC checks small instances, and TLAPS proves theorems for all values of the
constants.

## 1. Inventory of the system

| Component | State | Operations | Talks to | What is hard | What must hold |
|---|---|---|---|---|---|
| **TCP connection** (`pnx_tcp.cc`, `pnx_tcp_tcb.h`, `tcp_segment.h`) | one TCB per connection: `state`, `send.{init_seq,next,unack,buf,last_seg,retrans_count,last_sent_time}`, `recv.{init_seq,next,buf}` | `tcp_open`, `tcp_send`, `tcp_receive`, `tcp_close`, `tcp_segment_handler` and its nine state handlers, `_tcp_timer` | sockets above (calls), IP below (`ip_send_packet`, callback), one timer thread per TCB; all under `tcp_lock` | loss, duplication, reordering, retransmission against late acknowledgements, simultaneous close, buffers at their limit | bytes arrive once and in order; an acknowledgement is never ahead of the truth; end of file is never early; senders do not wait forever |
| **TCB lifecycle** (`pnx_tcp.cc:24-100`, `gracefully_shutdown.cc`) | `active_tcb_map`, `orphaned_tcb_map`, `listening_socket`, `orphaned_tcb` (capacity 100), `tcb_recycler_can_stop` | opening, closing, the recycler loop, the exit clean-up | TCP timers, sockets | recycler reads `state` without the lock; the queue's bound; order of clean-up | every orphan is deleted once, after CLOSE, when nobody uses it |
| **Socket layer** (`pnx_socket.cc`) | `sockets`, `next_fd`, a `SocketBlock` per descriptor with `state`, `tcb`, `accepting`, `backlog` | the wrapped calls and `socket_recv_new_tcp_conn` | TCP | check-then-act loops in `read`, `write`, `connect`, `accept`; several threads on one descriptor | an accepted connection is handed out once; `read` returns 0 only at the end of the stream |
| **Ring buffers** (`ringbuffer.h`) | `buf`, `next_pop`, `next_push`; a mutex and two condition variables for the blocking one | `push`, `pop`, `peek`, `push_all`, block `pop`, timed waits | TCP, sockets, IP | index arithmetic at the wrap; waits that time out | a bounded FIFO |
| **IP** (`pnx_ip.cc`) | sending queue, callback | `ip_send_packet`, sending thread, receiving handler, forwarding | TCP, routing, ARP, devices | producers block under `tcp_lock` when the queue is full; forwarding blocks on ARP | no cyclic waiting; TTL bounds forwarding |
| **ARP** (`arp.cc`) | `cache_`, `outstanding_requests_` | `ARPQuery`, `ARPHandler` | IP, devices | a query's timeout against a reply; two queries for one address | a waiter is woken by the answer |
| **Routing** (`routing.cc`) | `static_routing_table_`, `dynamic_routing_table_`, `distance_vec_` (nothing ages, nothing is removed) | `get_next_hop`, the daemon that broadcasts the vector each second, `distance_upd_handler` in the receiving threads | IP, devices | order of exchange, lost updates, devices added while others already talk, sort order | longest prefix wins; next hops form no cycle; distances converge |
| **Device and packet I/O** (`device.cc`, `packetio.cc`) | `device_count` and arrays by id; a receiving thread per device | add, find, send, receive | all of the above | `device_count` is raised before the arrays are filled | a published id is complete |
| **Logger, utilities** | none of the protocol | formatting, addresses | - | - | - |
| **Tests, checkpoints** | - | echo client and server, transfer benchmarks | sockets | - | the exchange ends |

`rustex.h`, the `vnetUtils` scripts and `mperf`, a measuring tool that runs on the
stack or on the kernel's sockets, are third-party code and are left out.
The hazards found while reading, each at its line, are in `PROJECT.json`.

## 2. What is modelled

```
   ReliableStream        what the applications are promised
                                                   <-  TcpStreamProofs
         ^  refinement (TcpProperties!Stream)
   TcpInvariant          the inductive invariants    <-  TcpSafetyProofs, TcpAckProofs
         |  EXTENDS
   TcpProperties         safety properties           <-  TcpProofs
         |  EXTENDS
        Tcp              two stacks, applications, timers, network
         |  EXTENDS
        Tcb              operations on one block     <-  TcpProofs
   MCTcp, MCEcho         instances for TLC

   SocketProperties      what a host promises its programs  <-  SocketProofs
         |  EXTENDS
      Sockets            calls, maps, recycler, timers, exit
         |  EXTENDS
     TcbStates           a block as these see it    <-  BlocksStep (TcpAckProofs)
   MCSockets             instance for TLC

   BoundedFifo           a bounded queue
         ^  refinement (RingBuffer!Fifo)
   RingBuffer            array and indices           <-  RingProofs

   IpProperties          what the network layers promise  <-  IpProofs
         |  EXTENDS
      IpStack            threads, frames, packets, exit
         |  INSTANCE
        Arp              cache and outstanding requests
   MCIp                  instance for TLC

   RoutingProperties     what routing promises       <-  RoutingProofs
         |  EXTENDS
   DistanceVector        devices, daemons, receiving threads, tables
   MCRouting             instances for TLC
```

The layers meet at narrow interfaces, and each module takes its neighbours as
what the neighbour's own module shows of them. `Tcp` is one connection with what
its segments say; `Sockets` is a host with many connections, of which it keeps
what the socket layer and the recycler look at; `TcbStates` gives the steps such
a block may take, and `Tcp` takes no other (`BlocksStepAsSeen`, checked in the run
`adversary` and proved in general). `Sockets` and `IpStack` use the blocking ring buffer as the
bounded queue that `RingBuffer` is shown to be. `IpStack` leaves open what
TCP sends and takes its routes from tables that `DistanceVector` can reach.

* **`Tcb`** holds one operator per function of `pnx_tcp.cc` that works on a
  block: `MakeSureSendback`, `SendSegment`, `SendCtrl`, one `On...` per state
  handler, `CloseTcb`, `Retransmit`. Each gives the block after the call and
  the segments that left. A TCB is a record with the fields of `struct TCB`;
  the send buffer is a sequence of items (a byte, a SYN or a FIN, as
  `Sender::Sequence`), the receive buffer a sequence of bytes.
* **`Tcp`** is the state machine. Every call and every handler holds
  `tcp_lock` from beginning to end, so each is one action; actions of the two
  endpoints interleave freely. `Receive(e)` is `tcp_segment_handler` with one
  action per branch, `Connect`, `Write`, `Read`, `Close` are the calls that
  the socket layer makes, `Timeout` and `TimeWaitExpire` the two effects of a
  timer thread. `registry` says which of the two maps finds a block: `lost`
  stands for a block that `tcp_close` removed from the active map before
  `_tcp_close` failed to queue the FIN.
* **`TcpProperties`** states the safety properties and the refinement mapping
  to **`ReliableStream`**, which has neither segments nor timers: a stream in
  each direction that is extended, ended, handed over in prefixes and reported
  as complete only when it is.
* **`TcpInvariant`** has the invariants that the proofs need. `Inductive`: what each
  block says of its own past, of the other block, and of every segment under way.
  `Acknowledging`: where the acknowledgements may stand, and what a FIN and a
  closed state tell of the peer. `Ended`: what follows once no `close()` fails.
  `NothingWritten`: no byte is written before the handshake is over.
* **`MCTcp`** gives applications that do anything the interface allows;
  **`MCEcho`** gives those of `checkpoints/`, an echo client and server.
* **`DistanceVector`** is `routing.cc` with the device table of `device.cc` that
  it reads. `Reserve` and `Complete` are `add_device` before and after its fields
  are filled in, and a device of `Unaddressed` is one for which it returns in between; `Snapshot` and `SendOn` are the daemon, which takes the bytes of
  its vector once and sends them on one device after the other; `Resolve` and
  `Rebuild` are the two locked parts of `distance_upd_handler`, run by a thread
  per device, with other threads in between. `NextHops` is what `get_next_hop`
  may answer: `std::sort` on a vector of `shared_ptr` compares addresses, which
  may be in any order.
* **`RoutingProperties`** states what is expected of it and the invariant of the
  proof, **`MCRouting`** has small networks.
* **`Sockets`** is one host. A call of `pnx_socket.cc` is as many actions as it
  takes and gives back `tcp_lock`: `Read`, `ReadState` and `ReadAgain` are the
  loop of `__wrap_read`, `Accept`, `AcceptPop`, `AcceptTake` and `AcceptPutBack`
  that of `__wrap_accept`, `Close`, `CloseListening` and `Drain` are `__wrap_close`.
  `PushOrphan`, `WaitForRoom`, `GiveUpPush` and `InsertOrphan` are the end of
  `_tcp_close`, in which the lock is kept while the queue of orphans is full;
  `Recycler...` are the steps of the recycler, which takes the lock for one of
  them only; `Exit...` are the clean-up. Handler and timers are single steps that need
  the lock. `at` says what each thread is doing.
* **`TcbStates`** is a block as a state, whether a segment is unacknowledged, and
  what waits in its buffers; an operation gives the *set* of blocks it can
  leave, since what the segments say is not there.
* **`SocketProperties`** states what must hold, **`MCSockets`** is the instance.
* **`RingBuffer`** is the class of that name with its array and indices; a round
  of the loops of `push_all` and `pop` is a step. Its properties are at its
  end, with the mapping to **`BoundedFifo`**.
* **`Arp`** holds the operators on one node's cache and outstanding requests;
  a condition variable is the thread that made it. **`IpStack`** has a receiving
  thread per device (`ReceiveRequest`, `ReceiveReply`, `ReceivePacket`,
  `HandleSegment`), a sending thread per node (`Pop`), `Resolve` for
  `ARPQuery` up to its wait, `QueryAnswered` and `QueryTimedOut` for the end of it,
  `Transmit` and `Push` for `ip_send_packet`, and `Leave...` for the clean-ups of
  the receiving threads, of TCP and of the sending thread in their order of
  priority. **`IpProperties`** and **`MCIp`** are as above.

### Abstractions of the connection

* The k-th byte that an application writes is represented by the number k.
  The code moves bytes and never looks at them, so a byte that is lost,
  repeated, reordered or invented shows as a wrong number.
* Initial sequence numbers come from a small set per endpoint instead of
  `rand() % 10000`. `SeqSpace` is 2^32 in the code; `NoWrap` (a connection of
  less than about 4 GiB in each direction) is assumed, and the wrap is a
  listed hazard.
* Ports, windows and checksums are left out: the window is sent but never
  read, and a segment whose checksum is wrong is dropped before any state
  changes, as a lost one is.
* `ip_send_packet` returns 0 or waits, so the branches for its failure are
  dead and left out.
* The network is a set of segments. With `Duplicating` a segment that was ever
  sent can arrive at any time, any number of times or never, which includes
  every loss, duplication and reordering; without it each arrives at most once,
  in any order, and at most `MaxLosses` are lost.
* Time: a timer may expire whenever its condition holds. For the liveness runs
  `PromptNetwork` orders this: a round trip is much shorter than `kTcpTimeout`
  (100 ms), so a timer expires only when nothing is under way, and the older
  deadline first. Without it any premature retransmission is possible, and that
  is the setting of the safety runs.
* `ReceiveSyn` always finds a listening socket with room in its backlog.

### Abstractions of routing

* A subnet stands for its number and mask, an address for a node and a subnet.
  `Default` is 0.0.0.0 with mask 0.0.0.0, what an unfinished device looks like.
* `Dests` limits the vectors to the destinations a run follows. The entries for
  different destinations do not bear on each other, except that a frame counts
  as an update when any of them changes.
* One frame waits at a device; others that come meanwhile are lost. `Prompt`
  keeps the daemon from sending while one waits where somebody takes it: a second
  is long.
* `add_device` raises `device_count` before it fills the device in, and never lowers it.
  When it fails after that (`device.cc:69-93`: a device without an IPv4 address, say) the
  device stays counted and not filled in for good, `pnx_init_all_devices` returns -1
  (`pnx_utils.cc:91`), and a program that goes on has it in all its broadcasts.
* With `SetupRace` = FALSE a node does not broadcast while it has such a device:
  for milliseconds if `add_device` succeeds, from then on if it does not. (If it does
  broadcast, neighbours learn a route to 0.0.0.0/0 from the device, or routes through the
  address 0.0.0.0, and nothing ever removes them.) In the first of those milliseconds
  the handle of the device is not set either, and a broadcast may crash on it; only the
  case where it does not is modelled. What is shown under `SetupRace` = FALSE is
  therefore not shown of a network in which a node goes on after `add_device` has failed.
* The nodes of `Started` have all their devices from the beginning, a state each
  of them reaches before its first broadcast. The daemon's two reads of
  `device_count` for one broadcast are one.
* `route_table_init_from_OS` is never called (`initialized` starts as true) and
  is left out; so are static routes that are not those of devices.

### Abstractions of a host

* Programs keep a descriptor to one thread, except that any thread may `accept`,
  and do not use one on which `listen`, `connect` or (unless `Retries`) `close` has
  failed. Two threads in `read` or `write` of one descriptor are not modelled,
  nor is `fork`.
* Descriptors and blocks come in order from bounded sets; a block is never
  reused, so `deleted` tells whether one is used after `delete`.
* One port listens. A pair stands for the addresses and ports of a connection;
  `Inbound` pairs are opened by others, `Outbound` by `connect`.
* Bytes are counted. A timer may expire whenever its block waits for an
  acknowledgement or is in TIME_WAIT: retransmissions change nothing that is seen
  here, and the last one ends the block.
* The timed `pop` of an empty queue is left out, since its callers loop; the
  timed `push` of a full one is not, since they do not.
* The clean-up starts between calls of the program. Links have stopped by then.

### Abstractions of IP and ARP

* A device stands for its MAC and IP address, a packet for source, destination,
  TTL and whether it is an answer. Checks of headers change nothing and are left
  out. TCP is `Transmit`, which sends at any time what is in `Sends`, and
  `HandleSegment`, which takes `tcp_lock` and may answer.
* A link delivers in order to the devices that have room, or loses the frame. All
  devices of a link see it, because they are opened in promiscuous mode
  (`device.cc:39`). The links of the instance have two ends: with three a
  packet is forwarded by the node it is not for, too, and its copies multiply
  until the TTL is over, which is out of TLC's reach.
* The wait of `ARPQuery` can end at any time; the look at the cache is made then.
* The tables do not change during a run, but need not have settled.

## 3. Runs

| Run | Question | Bounds | Result |
|---|---|---|---|
| `adversary` | is a connection safe against every schedule of applications, timers and network, and does a block take only the steps that `TcbStates` knows? | client writes 2 bytes, server 1, segments of up to 2 bytes, receive buffers of 2, one retransmission, segments repeat without limit | holds, about 185 000 states |
| `buffers` | and when the buffers are too small? Does every sender end its wait, whatever the network withholds? | send and receive buffers of one item: a FIN can be refused, a byte can be refused; one retransmission | holds, about 129 000 states |
| `echo` | do the echo programs finish? | 3 bytes in lines of any length, 3 segments lost, 4 retransmissions; what is claimed is claimed of exchanges that lose none of them in the handshake | holds, about 65 000 states |
| `host` | is a block ever used after it was deleted, handed out twice, hidden behind another of its pair, or lost by a queue that had room? | two threads, two descriptors, two blocks, two inbound pairs and an outbound one, backlog and orphan queue of one | holds, about 1 450 000 states |
| `hostlive` | are orphans deleted, is an established connection accepted, does `exit()` return? | one thread, two inbound connections | holds, about 416 000 states |
| `ring` | are array and indices a bounded queue? | capacity 3, arguments of up to 4 elements | holds, about 17 000 states |
| `ip` | are addresses resolved truly, does every packet end, does every thread return, does `exit()`? | two hosts and a router, four packets (one answered, one in a circle between two tables, one without a route, one to an address that nobody has), queues and links of one, a host that ends | holds, about 66 000 states |
| `routing` | do next hops ever lead in circles, is the table what the vector says, and do all nodes come to use the shortest way? | three nodes on one subnet, two of them joined by another too, a destination behind the third; two nodes add their devices meanwhile, and the third one for which `add_device` fails, after which it is silent | holds, about 332 000 states |
| `stall` | is everything that `tcp_send` accepts delivered? | two bytes, nothing lost | violated: finding 1 |
| `eof` | does `read` return 0 only when all has been read? | one connection, one byte | violated: finding 2 |
| `connect` | does `connect` return once the attempt is over? | one connection | violated: finding 3 |
| `forwarding` | are receiving threads free of ARP deadlocks? | two hosts and a router, a packet each way | violated: finding 4 |

Why these bounds: two bytes in one direction are the least for which data waits
in the send buffer while a segment is in flight, and a byte, a second byte and
a FIN are the least for which a control item stands behind bytes in the buffer.
Sequence numbers of the two directions are far apart so that a mix-up shows.
One retransmission is enough for each segment to exist in two versions (the
second with a newer `ack_seq`) and for the give-up; a duplicating network makes
more of them superfluous. In `echo` there are more retransmissions than losses,
as `kTcpMaxRetrans` = 100 means in practice. In `host` two blocks are the least that
fill a queue of one orphan while the recycler has another in hand, and that
follow each other with one pair; two threads are the least that share an
accept queue. In `hostlive` a dead connection can stand before an established one.
In `ring` both ends of the array are met by runs of every length. In `ip` two
packets share the request for the router's next hop, a TTL of 2 lets a packet go
round once, and queues of one are full at once. In `routing` two nodes have
two receiving threads each, and can hear of the longer way first.

`host` uses symmetry of threads and of inbound pairs (no liveness is checked
there). `CHECK_DEADLOCK FALSE` is set where the system may stop: a connection that
has closed at both ends, a host that has left, a network with nothing to send.
(Routing and the ring buffer never stop.)

### Safety properties

`Inductive` is the invariant of the proofs (section 4), checked here first, and
`Acknowledging` its second part, checked with the buffers of `buffers`, where a FIN
may be refused.
`InOrderDelivery`, `AckMeansReceived`, `OutstandingIsLastSegment`,
`FinAfterAllBytes`, `HandshakeAgreement`, `FinAckedMeansTaken`,
`LastAckMeansDone` and `NeverMovesBack` (`TcpProperties`) relate the block of
one end to that of the other; `ImplementsStream` is the refinement.
`FinAckedMeansTaken` holds as long as a FIN finds room in the send buffer: otherwise
`_tcp_close` has already entered FIN_WAIT1, and FIN_WAIT2 follows without a FIN.
`BlocksStepAsSeen` relates every step of a connection to the coarser block of
`TcbStates`, so that what is shown of a host rests on what a connection does.
`NextHopsAdvance` relates the vector of a node to that of its next hop, while both
change and frames in between are old; `TableIsCurrent` is about two threads of
one node between their two locks; `FoundMeansDevice` holds when all masks are
of one length, as in the run.
`DeletedOutOfReach` is about `delete` in the recycler against every other holder of
a block; `HandedOutOnce` about queue, threads and descriptors; `OpenMeansFound`
about the two maps when one pair is used again; `LostOnlyWhenFull` about the timed
push and the orphan in the recycler's hand.
`CacheIsTrue` holds although every device answers every request it sees, because it
answers with its own address; `RequestHasOwner` is about threads that share a
request, of which one times out.

### Liveness and fairness

`WF(Receive(e))`: the receiving threads of both stacks run and take what libpcap
brings. `WF(Timer(e))`: each TCB has a thread that wakes up every 10 ms.
Nothing is assumed of applications except in `echo` (they go on while they can:
their loops poll). `SenderSettles` is checked in `buffers`, where the network repeats
segments and withholds for ever what it likes: what ends the wait is the count of
retransmissions alone. It says that the *block* leaves the state in which it waits, not that a
call does: of `connect()` that is false (finding 3). In `echo` losses are
bounded, and `EchoCompletes` has the premise that the handshake loses nothing.

In `hostlive`: `WF(Continue(t))`, a call that can go on does, for its loops poll and its
locks are fair enough; `WF(Timer(b))`, a block that waits is ended by its last
retransmission or by an acknowledgement; `WF(Recycler)`, `WF(Leaving)`, the recycler's
and the exiting thread run. Programs need not call anything, and segments need not
arrive. `ExitEnds` allows for one case in which `exit()` does not return: an
orphan (in FIN_WAIT2, or with a FIN that waits behind an acknowledged segment) that
only a segment would close, after the receiving threads have stopped.

In `ip`: `WF` of each receiving thread, each sending thread, `Push` and `Leaving`:
these are threads that run, and the timeout of `ARPQuery` ends at last. A receiving
thread that has been told to stop may take what is left of its `pcap_dispatch`, and need
not. `Transmit`
and `Leave` are not fair. The properties are of the form `<>[]` because `Sends` is
finite.

In `routing`: `WF(Setup(n))`, devices are added; `WF(Handle(n, s))`, receiving threads
run; `SF(Broadcast(n))`, the daemon broadcasts every second and waits for nobody,
so the guard `Prompt`, which only orders it after the receivers, must not shut
it out.

### Findings

1. `stall`: a pure ACK frees the sender, but only a segment that needs an answer
   makes `_tcp_handle_segment_established` send what is queued. After two
   writes in a row the second one's bytes wait for the next `tcp_send`.
2. `eof`: `__wrap_read` finds no bytes and then asks for the state, each under
   its own hold of `tcp_lock`. When the last bytes and the FIN arrive in between it
   returns 0 with bytes unread, unlike the POSIX `read` of `pnx_socket.h:67`.
3. `connect`: `__wrap_connect` looks every 10 ms for ESTABLISHED and for nothing else
   (`pnx_socket.cc:210`). When the retransmissions have run out the block is in CLOSE, and when
   the peer closes between two looks it is in CLOSE_WAIT; then `connect()` never
   returns, unlike the POSIX `connect` of `pnx_socket.h:55`, whose failure
   `robust_test_client.cpp:67` looks for.
4. `forwarding`: `ip_send_packet` hands packets to a thread of its own "to prevent ARP
   deadlock" (`pnx_ip.cc:125`), but forwarding calls `ARPQuery` in the receiving
   thread. Two receiving threads of a router can each wait for the reply that only
   the other could take, until both time out and drop their packets. `ThreadsReturn`
   says that it is no worse than that.

What the model shows of the code besides, each a hazard of `PROJECT.json`:

* If the ACK of the handshake is lost, the server stays in SYN_RECV, which accepts
  only a segment without data; the client, which waits for the acknowledgement
  of its data, sends no pure ACK.
* In FIN_WAIT1 a pure ACK does not send the FIN that waits in the buffer, so the
  orphan waits for the peer.
* The acknowledgement of a segment that is otherwise abandoned is taken, and it is
  never compared with `send.next`; a segment of an earlier connection with the same
  ports can so free a sender.
* What a node heard of its own subnet before its device was added stays in its
  vector and table, next to the direct route.
* The device of a next hop is looked up with the mask of the destination
  (`DeviceFor`, `routing.cc:419`), so a route to a subnet of another size than the one
  in between has no device.
* `RoutingEntry::operator<` is never used, because `std::sort` compares the
  `shared_ptr`s (`NextHops`, `routing.cc:192`), so the most specific entry need not
  come first, as `lab2-checkpoints.md:176` says it does.
* A `close()` that fails because the FIN finds no room has already taken the pair out of
  the active map (`CloseBlock`). A second call takes out the entry of whatever block
  has the pair by then, and segments no longer find that one. This is why
  `OpenMeansFound` is claimed for `Retries = FALSE` only; with `Retries = TRUE` TLC
  finds two descriptors, one after the other connected over the same pair.
* A `close()` that fails so leaves, if it is not called again, a block that neither map
  holds and the recycler never gets.
* A SYN for which the backlog has no room makes a block that nobody owns; it keeps
  its pair until exit.
* Two nodes whose tables prefer an entry learned before their own device was added could
  send a packet to each other until its TTL is over.

The first and finding 1 are the reason why `echo` assumes its discipline (a line is
written after the last one's echo was read) and `EchoCompletes` a handshake without
losses.

## 4. Proofs

Assumptions: `TcbAssumption` (capacities, `MaxRetrans` and `SeqSpace` are
natural numbers, all but the receive capacity and `MaxRetrans` positive, and the
numbers of one segment are fewer than `SeqSpace`) and
`TcpAssumption` (two distinct endpoints, each with a set of initial numbers and
a bound on what it writes), which
TLC evaluates in every run. The safety theorems have the hypothesis `NoWrap`:
no sequence number of the connection reaches `SeqSpace`. It is stated in each
theorem, because the code does not ensure it, and TLC evaluates it in `MCTcp`
and `MCEcho`. `FinAckedIsTaken` has besides the hypothesis `[]NoneLost`: no `close()` of
the connection has failed for want of room for its FIN, as none does in `adversary`.
`RoutingAssumption` types the network, and says that among
masks of a subnet's own length only its own number matches its addresses; `NextHopsLead`
and `RoutesHaveDevices` have the hypothesis `SetupRace = FALSE`, without which the first
is false, and `TablesFollow` and `RoutesHaveDevices` the hypothesis `SameMasks`: all
subnets have masks of one length, as all those that `makeVNet` makes (`/24`,
`src/vnetUtils/README.md:111`; when masks differ, the device of a next hop is looked for with the mask of
the destination, and may be none or another one). `RingAssumption` says that
the capacity and the longest argument are positive and that a blank slot is
no element; the ring buffer's theorems have no other hypothesis. `IpAssumption` types
the network, its tables and its bounds, and says that addresses, nodes and `None` are
different things; the theorems about it have no other hypothesis, so links may have any
number of ends and tables may send packets anywhere. `SocketAssumption` and
`RoomAssumption` type a host's bounds, keep inbound and outbound pairs apart, and give the
accept queue room for the backlog and one connection per thread; `OpenConnectionsFound`
has the hypothesis `Retries = FALSE`, without which it is false.

| Theorem | Module | States |
|---|---|---|
| `TypesHold` | `TcpProofs` | `Spec => []TypeOK`, wrap or not |
| `InductiveHolds` | `TcpSafetyProofs` | `Spec => []Inductive` |
| `DeliveryHolds` | `TcpSafetyProofs` | `Spec => []InOrderDelivery` |
| `AcknowledgementsHold` | `TcpSafetyProofs` | `Spec => []AckMeansReceived` |
| `HandshakeHolds` | `TcpSafetyProofs` | `Spec => []HandshakeAgreement` |
| `EndOfFileHolds` | `TcpSafetyProofs` | `Spec => []FinAfterAllBytes` |
| `AcknowledgingHolds` | `TcpAckProofs` | `Spec => [](Inductive /\ Acknowledging)` |
| `OneSegmentOutstanding` | `TcpAckProofs` | `Spec => []OutstandingIsLastSegment` |
| `LastAckIsTheEnd` | `TcpAckProofs` | `Spec => LastAckMeansDone` |
| `FinAckedIsTaken` | `TcpAckProofs` | `Spec /\ []NoneLost => []FinAckedMeansTaken` |
| `BlocksStep` | `TcpAckProofs` | `Spec => BlocksStepAsSeen` |
| `NeverBack` | `TcpStreamProofs` | `Spec => NeverMovesBack` |
| `StreamImplemented` | `TcpStreamProofs` | `Spec => ImplementsStream` |
| `Types` | `RingProofs` | `Spec => []TypeOK` of `RingBuffer` |
| `NoAssertFails` | `RingProofs` | `Spec => []AssertsHold` |
| `RingIsFifo` | `RingProofs` | `Spec => ImplementsFifo` |
| `TypeCorrect` | `SocketProofs` | `Spec => []TypeOK` of `Sockets` |
| `DeletedIsOutOfReach` | `SocketProofs` | `Spec => []DeletedOutOfReach` |
| `ConnectionsHandedOutOnce` | `SocketProofs` | `Spec => []HandedOutOnce` |
| `OrphansLostOnlyWhenFull` | `SocketProofs` | `Spec => LostOnlyWhenFull` |
| `OpenConnectionsFound` | `SocketProofs` | `Retries = FALSE => (Spec => []OpenMeansFound)` |
| `IpTypesHold` | `IpProofs` | `Spec => []TypeOK` of `IpStack` |
| `CacheStaysTrue` | `IpProofs` | `Spec => []CacheIsTrue` |
| `RequestsAreOwned` | `IpProofs` | `Spec => []RequestHasOwner` |
| `RoutingTypesHold` | `RoutingProofs` | `Spec => []TypeOK` of `DistanceVector` |
| `NextHopsLead` | `RoutingProofs` | `SetupRace = FALSE /\ Spec => []NextHopsAdvance` |
| `TablesFollow` | `RoutingProofs` | `SameMasks /\ Spec => []TableIsCurrent` |
| `RoutesHaveDevices` | `RoutingProofs` | `SameMasks /\ SetupRace = FALSE /\ Spec => []FoundMeansDevice` |

**Types.** `TcpProofs` has one lemma per operator of `Tcb` (given a block and a
segment of their types, the result is one) and one per action.

**Safety.** None of the properties is inductive: that a byte taken is the right
one depends on what segments under way carry, which depends on what their
sender's buffer held, which depends on what the application had written. The
invariant names that chain, per endpoint:

* `SenderOK`: the send buffer holds exactly the bytes between `sendNext` and the
  last one written, and after them, only once the application can write no
  more, possibly the FIN (`Queue`).
* `SegmentOK`: every segment under way, and the copy in `last_seg`, carries what
  its number says, nothing beyond `sendNext`, and an `ack_seq` not beyond the
  sender's `recvNext`.
* `ReceiverOK`: `recvNext` is the number after the bytes taken from the peer,
  or after its FIN, which only a state of `FinStates` may have taken.
* `AckedOK`: `sendUnack` is at most the peer's `recvNext`.

*One end moves at a time.* The last three parts relate a block to the other one
or to the network, so a step of one end could break what the other end says.
`Grows` says how a block may change so that it does not: its initial number
stays, `sendNext` and `recvNext` never go down, and once its application can
write no more the number of bytes written is final. `SegmentStays`: segments stay
right as their sender grows. `OneEndMoves`: if one end's step keeps its own part
of the invariant (`Safe`), grows, and sends only right segments, the whole
invariant holds again. What remains is one lemma per handler (`OnEstablishedSafe`,
`OnFinWait1Safe`, ...), about one block and one segment of which `Heard` says
what the invariant says of it, and one per action that composes it with
`OneEndMoves`. `InOrderSays` is the heart of it: a segment whose `seq` equals
`recvNext` carries exactly the next bytes of the peer, or its FIN when all bytes
have been taken. The four properties then follow from `Inductive` alone.

**Acknowledgements.** `Inductive` says that no acknowledgement is ahead of the truth, but
not where it stands: `ack_seq` is cumulative, the timer repeats the whole last segment, and
the peer takes it only when `seq` is exactly its `recvNext`. `Acknowledging` takes the last segment as the unit:

* `LastOK`: it ends what has been sent, and the peer's `recvNext`, like our `sendUnack`, is at its
  beginning or at its end;
* `WholeOK`: a segment under way with bytes or control bits is an earlier one, or the last
  one whole; `Cut`: no `ack_seq` under way falls inside the last segment;
* `FinOK`: a FIN tells how far its sender is, unless it has taken the peer's FIN since;
  `ClosedOK`: an end that has taken the peer's FIN knows how far the peer is, unless
  the peer has taken its own FIN, and what waits in its buffer waits for an acknowledgement.

A handler either repeats or acknowledges (`SameSent`), or sends a new segment, which it
does only when the last one is acknowledged (`NextSent`); so one step moves the unit
by at most one, and the peer that stood at its end stands at the beginning of the next.
Each operator `Speaks` in this sense, each handler `Concludes` what `FinOK` and
`ClosedOK` allow, and `EndGoes` composes the two with what the other end and the
network say, as `OneEndMoves` does for `Inductive`. `OneSegmentOutstanding` is
`LastOK`; `LastAckIsTheEnd` follows from `ClosedOK`, since the handler of LAST_ACK ends
only with everything acknowledged.

FIN_WAIT2 is entered by an acknowledgement of everything, which is an acknowledgement of the
FIN only if there was one. When `close()` finds no room for the FIN the state has
changed already, the application is told of the failure, and a second `close()` makes the
block an orphan like any other; hence `[]NoneLost` is a hypothesis about the past and not
a condition on the state. With it `Ended` is inductive: once the application can write no
more, what was sent and what waits end with the FIN (`Ends`, `EndEnds`), and what the
peer has acknowledged of it, it has taken (`Level`).

**What the host sees of a block.** `View` maps a block of `Tcb` to one of `TcbStates`, and
`BlocksStep` shows that a step maps to one that module allows. `Seen` gives that view by its four parts,
so that each operator of `TcbStates` has a lemma that says which parts it may give
(`SendbackSeen`, `AckedSeen`, `FilledSeen`, ..., `ClosedSeen`), and each operator of `Tcb` one that
says which parts it does give (`SendbackView`, `AckView`). The handlers (`...Follows`), the calls and the timers
(`WriteSteps`, `ReadSteps`, `CloseSteps`, `TimerSteps`) put the two together. It rests on
`Acknowledging`: `TcbStates` says that all that was sent is acknowledged or none of it is, which
is so because no acknowledgement falls inside the last segment. In SYN_SENT it rests
besides on `NothingWritten`, since the handshake's answer must acknowledge everything.

**Refinement.** Two facts make the mapping work. *What an application sees is
fixed by numbers* (`EndCounted`): in a state of `Inductive` the bytes given are
1, 2, ..., n for some n, and the end has been counted exactly when `recvNext` is
the number after the peer's SYN, n bytes and FIN, which implies that the peer
has closed after n bytes. *One operation does at most one visible thing*
(`MovesOn`, with one `...Moves` lemma per handler): it takes bytes and counts
just them, or counts a SYN or FIN and takes none, or does neither, and only in
the last case can our own stream end. `StreamStep` turns this into a step of
`ReliableStream` or a stutter, whichever of the two ends moved; `EndMovesStream`,
`ReadMovesStream` and `WriteMovesStream` apply it to handlers, `read` and
`write`. `NeverBack` is the part of `MovesOn` about `sendUnack` and `recvNext`.

**Routing.** An entry leads on because the frame it came from did, and that frame
because its sender's vector did when it was written. The invariant `WaysOK`
says so of entries (`VectorsOK`), of what daemons are sending (`DaemonsOK`) and of
frames that wait (`InboxesOK`): whatever was said of a node, it still knows a way
of at most that length (`Knows`). A step preserves this because what nodes know
only gets better (`Keeps`, `TrueStays`, `EntryStays`); a step that takes a frame adds
only what the frame's source knows (`HeardOK`, `MergeOK`). Broadcasts of a node with a
device not filled in are what `SetupRace` = FALSE rules out: its address is not one.

A table is rebuilt from the vector, but also from the devices, which come to be without
a rebuild. `TablesFollow` holds because with masks of one length that makes no difference: a next
hop is on the subnet the frame came in by (`SourcesOK`, `HopsOK`), and of all devices the
mask and number pick the one on it (`DeviceOfHop`), however many there are; so a route is what
its entry says (`RoutesLearned`). A vector changes only in a thread that then has the
table to rebuild (`TablesOK`). `RoutesHaveDevices` needs besides that the next hop is not 0.0.0.0, which a
frame names only when a device is half there, and that nobody speaks of the default route
(`DefaultOK`).

**Ring buffer.** The invariant `IInv` says besides the types (`Indexed` for the
two indices) that slots between the indices are filled (`Filled`), and of a loop under way that what is left
to copy fits, and how many rounds can still come: in the first the run may end at the
end of the array, and then the second starts at its beginning (`PushLoopOK`,
`PopLoopOK`). For the refinement the queue is the contents plus what a
`push_all` has still to copy, or minus what a `pop` has still to take, so that a call
takes effect at once and its rounds are stutters; `ContentsGrow` and
`ContentsShrink` say what a round does to the contents, across the wrap.

**IP and ARP.** A cache holds what replies said, and they were on a wire before, so the
invariant `IInv` says that every ARP message under way names its sender truly
(`WireOK`, `TrueFrame`): a request and a reply both carry the device's own address,
whatever was asked. That a request has one owner needs to know of every thread what it is
doing: `ActivityOK` types what a thread works on by its step, and `PushersOK` says
that a receiving thread that `Push` sets free is one that was in `ip_send_packet`
and not in `ARPQuery`. Most steps move one thread that owns no request before or after
(`OwnersStay`); `ResolveOK`, `QueryTimedOutOK` and `RepliedOK` are the three that
open, withdraw and answer one.

**Host.** The properties are about where a block is, and none of them is inductive: that
the recycler deletes what nobody holds rests on every step before. `IInv` says what each
thread does with which descriptor and block (`Doings`), and gives each block its
place (`Custody`):

* on its way to the application it is in one accept queue, one thread's hand or one
  descriptor (`Holds`, `OneHolder`);
* once it is closed (`Away`: in the hand of a thread that pushes it, in the queue of
  orphans, with the recycler, or deleted) it has left the active map, and no descriptor
  has it but the one whose `close()` is under way (`AwayOK`);
* the recycler gets it once (`GivenOK`), and what it is about to delete is in no hand, not
  in its queue and not in the orphan map (`GoneOK`);
* what exit has still to close is not closed yet (`ToCloseOK`), and who waits for room in
  the queue of orphans waits for a full one, apart from a recycler that has just made
  room and comes back (`FullOK`).

Steps that close nothing only move blocks from an accept queue to a thread and from
there to a descriptor or back (`Moves`, `BlocksMove`); those that do have a lemma of their own
each: `OpenCustody`, `CloseCustody`, `PushStep`, `InsertCustody`, `RecyclerStep`,
`ExitStep`. The lock enters where it must: `CloseBlock` and the handler find it free, so
nobody else is in the middle of closing (`NobodyPushes`, `NotAway`). For
`LostOnlyWhenFull` a step is shown to let go of one block at most (`Elsewhere`), and that
only if the queue's blocks and this one are more than it has places (`CaresMany`).
`OpenMeansFound` needs one invariant more, `OpenOK`: a block in an open state has the
pair's entry in the active map, and so has every block that somebody has still to close
(`Wants`), since this is why the close takes out its own entry and no other's.

### Only model-checked

Liveness needs fairness and ENABLED, which the prover does not handle.
That packets end and threads return (`ip`) and
what is said of a host's orphans, `accept` and `exit` (`hostlive`) is liveness. The findings
are counterexamples of TLC.

## 5. Not modelled, and the plan

Not modelled, and why:

* the wrap of sequence numbers at 2^32: `NoWrap` is a hypothesis, and with it false
  the comparisons of `pnx_tcp_tcb.h:63` are wrong at once;
* the lengths of TIME_WAIT and of the retransmissions on a clock (`kTcpMSL`,
  `kTcpTimeout`): what is shown does not depend on them;
* two threads in one descriptor's `read`, `write` or `close`, and `fork`: the code keeps
  no lock on a `SocketBlock`, and programs are expected not to;
* links of more than two devices in `IpStack`, see above;
* tables that change while packets are under way (`IpStack` takes every table as
  fixed), static routes other than those of devices, and
  `route_table_init_from_OS`, which nothing calls;
* `find_device` and the pcap calls (pure I/O), the logger and the formatting of
  addresses (no state), `mperf`, the benchmarks and the robustness tests (drivers of
  the stack).

Done: the connection, routing, the ring buffer, the host with its recycler and exit,
IP with ARP, and a theorem for every safety property that a run checks. The
theorems about a connection and those about a host meet in `BlocksStep`. Not joined are
`IpStack` and the network that `Tcp` assumes (which may lose, repeat and reorder, so
that nothing is asked of IP but that it invents no segment), and the tables of
`IpStack`, which are fixed, with those of `DistanceVector`, which change.
