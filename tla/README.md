# TLA+ models of libroce

libroce is a RoCEv2 stack in user space. An application creates protection
domains, completion queues, memory regions and queue pairs through an API in the
style of verbs, posts work requests, and gives the library every frame that
arrives. The library builds packets, hands them to a callback of the application
(`net_xmit`), and reports completions through another (`cq_comp`). It has no
threads and no timer of its own: every state change happens inside a call of the
application.

This directory holds TLA+ modules for the parts of libroce that keep state, TLC
configurations that check them on small instances, and TLAPS proofs about the
requester, the connection, the objects and their references, datagrams, and threads
with their locks and references.
`PROJECT.json` maps each definition to the lines it models and lists the runs, the
mutants that show the properties can fail, the findings, the hazards and the
theorems.

## The system

| Part | State | Operations | What makes it correct |
|---|---|---|---|
| PSN arithmetic (`util.h`, `roce-private.h`) | none | masked increment, signed comparison | agrees with distance along the circle of 2^24 numbers |
| RC requester (`requester.c`) | send queue, `sq_psn`, `req.psn`, `pending_pkts`, `outgoing_pkts` | post a WR, transmit within the window, handle ACK or NAK, complete WRs, renumber | numbering without gaps, the window, every wait solicits an ACK, WRs complete once and in order |
| RC responder (`responder.c`) | receive queue, `rq_psn`, `in_psn_nak`, `resp.wr`/`resp.iova` (one union), `writtenlen` | take a packet, fill a receive WR, carry out an RDMA WRITE, ACK, NAK | delivery exactly once and in order, knowing where in a message it is |
| UD and GSI (`requester.c`, `responder.c`) | receive queue, `resp.wr`, `dest_qp_num` of the last sender | send one packet, receive one packet | a completed WR holds the GRH and payload of one datagram, nothing of a frame meant for others, references put |
| Objects (`resource.c`, `pd.c`, `cq.c`, `ah.c`, `mr.c`, `qp.c`) | one table per kind, reference counts, MR states | create, destroy, get, put | counts equal holders, nothing freed in use, nothing left behind |
| QP attributes (`qp.c`) | `attr`, state | `roce_modify_qp` | renumbering only an empty queue; the index of the source GID lies in the table |
| Scatter lists, I/O vectors (`sge-helper.h`, `iov-helper.h`, `mr.c`) | a cursor in each WR | advance, measure, map, copy | cursor stays inside the list, pages counted equal pages mapped |
| Headers, ICRC (`netpkt.c`, `crc.c`) | none | frame a packet, take a frame apart | what was framed is found again wherever the frame is cut; what was changed is refused |
| Context, device, ports (`ctx.c`, `dev.c`, `port.c`) | parameters, GID table, MTU | create, free, add and delete a GID | tear-down leaves nothing |
| Locks (`lock.h`, `atomic.h`, `ctx.c`) | `rq.lock`, `resource.lock`, the functions of the context | take, release, count | one thread inside at a time, every lock released |

`roce_post_send` calls `roce_request_rc` or `roce_request_ud`. A frame enters
through `roce_recv_pkt`, is decapsulated by `netpkt.c`, finds its QP in
`roce_recv_bth`, and goes to `roce_recv_rc`, which calls the responder or
`roce_handle_acknowledge` of the requester. So a QP's two halves are driven by
different calls, and the two ends of a connection meet only in the network.

What is hard here:

* the network loses, repeats and reorders frames, and the only repair is the
  NAK: there is no retransmission timer;
* PSNs wrap, and are compared modulo 2^24 in some places and as plain integers in
  one;
* `cq_comp` is called from the middle of the ACK loop with no lock held, and an
  application commonly posts from it;
* the responder's place in a message is spread over `resp.wr`, `resp.iova` (the
  same bytes) and `writtenlen`, and packets fail half way through their handler;
* references are taken one by one, in calls that can fail after any of them, and
  an MR may be destroyed while WRs name it;
* a payload passes scatter lists, pages, packets, padding and the buffers of a
  frame, which all end in different places;
* a datagram can be refused after it has taken a receive WR;
* nothing stops two threads of the application from calling into one QP, and the
  locks guard the lists and tables but not the objects in them.

## Modules

| Module | Models |
|---|---|
| `Psn` | `roce_qp_psn_inc`, `roce_compare_psn`, with the width and the window as parameters |
| `RcRequester` | the requester half of one RC QP, alone against any peer |
| `RcResponder` | the responder half |
| `RcConnection` | a requester, a responder and a network; EXTENDS both |
| `ReliableChannel` | what a connection promises: an abstract one-way message channel |
| `Resources` | the tables, objects and references of one context |
| `ScatterList` | scatter lists, I/O vectors and the mapping of an MR, as pure operators |
| `Frames` | a message from gather list to frame to receive WR, RC and UD; EXTENDS `ScatterList` |
| `DatagramService` | what a QP promises whoever posts receive WRs |
| `Concurrency` | threads in the receive queue and the MR table |
| `MCRcRequester`, `MCRcConnection`, `MCResources`, `MCFrames`, `MCConcurrency` | the requests, buffers, scatter lists, frames and threads of the runs |
| `PsnProofs`, `RcRequesterProofs`, `RcConnectionProofs`, `ReliableChannelProofs`, `ResourcesProofs`, `FramesProofs`, `ConcurrencyProofs`, `ConcurrencyRefProofs` | lemmas and theorems |

### RcRequester

The variables are the fields of `struct roce_qp` with the code's names. `ack` is
the activation record of `roce_handle_acknowledge`: `ack.more` is the `next`
pointer `list_for_each_safe` fetched before the loop body. `req_net` is what
`net_xmit` was given, `posted` and `completed` are histories, and `abort` names
the `ROCE_ASSERT` that ended the process.

| Action | Code |
|---|---|
| `PostSend` | `roce_post_send`, `roce_request_rc`, building packets and `roce_xmit_pkts` |
| `ModifySqPsn` | `roce_modify_qp` with `ROCE_QP_SQ_PSN` |
| `HandleAcknowledge` | `roce_handle_acknowledge` up to the loop |
| `AckOne` | one turn of the loop, with `roce_rc_complete_send_wr` |
| `AckDone` | the rest: retransmission after a NAK, `roce_xmit_pkts` |

Handlers are atomic except that the ACK loop is cut at each turn, where the
callback runs; there `PostSend` may come in between. Payload is counted in units
(`Mtu` of them to a packet) and a packet carries which units of which message it
holds. `sq_psn` is random after `roce_create_qp` and `req.psn` is 0 until
`roce_modify_qp` sets both, so `ReqInit` is the state after that call. The code
does not check the QP state when a WR is posted, and neither does the model.
`RangeAssert` says whether the first assertion of `roce_xmit_pkts` is compiled
in: it fails at the first wrap (see the findings), and what lies beyond it is
still worth checking.

### RcResponder

`resp_u` is the union of `resp.wr` and `resp.iova`, tagged so that a use of the wrong
member shows; zero is one value for both, as in C. Memory is a range of cells that hold
the unit written last. A receive WR has the place of its cursor (`off`), the number of
bytes received (`byte_len`) and its buffer (`data`), because the code moves the cursor
before it maps: a packet refused with -EACCES leaves cells that nothing was written to
(`Untouched`), the same packet sent again lands behind them, and the application, told
`byte_len`, reads the hole and not the end. `RecvPayload` and `RdmaWritePayload` have
one disjunct for each way out of the C function. What `roce_mr_map_sge` answers is an
input (`mapped`), apart from the bounds of the MR. The message sequence number of the
AETH is left out: the requester only logs it.

### RcConnection and ReliableChannel

The network is two sequences, `req_net` and `ack_net`. `Reorder` lets any element
be delivered next; `MaxLost` and `MaxDup` bound losses and repetitions. A corrupt
frame fails its ICRC and counts as lost. Traffic goes one way: one QP only sends and
the other only receives. Both directions on one QP are left to the plan below.

The refinement maps `sent` to the posted WRs that consume a receive WR (`MessageList`),
`delivered` to the receive completions with their bytes, and `confirmed` to the number
of completed sends. `Order` is the same channel with the numbers of the messages in
place of their bytes (`SentIds`, `GotIds`), for the run in which refusals spoil the
bytes.

### Resources

A table is a function on the handles in use. An action is a whole API call or packet
handler, its refusals included. `Calls` switches on five calls that the code goes wrong
on (below), so that the passing runs cover everything else. A WR in the send queue is an
ordinary one, one that failed to get its MRs (`error`), or a local one (`local`:
LOCAL_INV, REG_MR, BIND_MW); `CompleteHead` unlinks the last two without freeing them.
The reference count of a QP is left out because nothing reads it, and an lkey is its
MR's index. The loops that take and put the references of a list (`GetAll`, `PutMrs`,
`PutWrs`) are recursive functions of the number of turns, so that the proofs can follow
them turn by turn.

### ScatterList and Frames

`ScatterList` has one operator for each function of `sge-helper.h` and `iov-helper.h`; a
loop over a list (`Loop`) is a recursive function of the number of turns that carries
the function's local variables, so that the proofs can follow it turn by turn. Counts
are kept apart from lists where the code does so: `MapSge` returns the number the code
would compare, which is one too many when the region ends early, and `SgePages` keeps
the 32-bit mask of the page rounding. The pages of an MR may be larger than `PageSize`,
which `SgePages` counts with.

In `Frames` memory is made of cells and a frame is the sequence of its units. A unit of
payload remembers its message and the cell it was read from, so whatever moves it (list,
page, packet, buffer) can be judged at the end. The ICRC unit carries what it covers.
`hops` stands for the fields of an IP header that change on the way: the sender computes
the ICRC over a copy in which they are all ones, the receiver overwrites them in the
header it has taken off the buffers (`Masked`), and that header is the GRH of a UD
datagram. IHL is a count of words kept in a `uint8_t`, so one below five wraps to more
options than `ihlbuf` has room for; the length of the frame decides how many there are
(`OptionsLen`, `Overrun`). The MR of the run lies on pages that are apart and out of
order in host memory, so a mistake by a page shows as a wrong cell. PSNs are left out:
RC frames arrive once and in order, which `RcConnection` is about.

| Action or operator | Code |
|---|---|
| `PostSendRc` | `roce_rc_send_pkts`, cutting the list with `roce_sge_advance` |
| `PostSendUd` | `roce_request_ud`, `roce_ud_send_pkt` |
| `Frame`, `Body` | `roce_netpkt_set_*` |
| `NetRecv` | `roce_net_recv`, up to the completion |
| `Decap` | `roce_net_decap` |
| `RecvBth`, `RecvRc`, `RecvUd` | the functions of those names |
| `RecvPayload`, `PopRecvWr`, `Fill`, `Deliver` | `roce_recv_payload`, in its order |
| `ModifySender`, `ModifyState` | `roce_modify_qp` with an address vector, path MTU or state |
| `AddGid`, `DelGid` | `roce_add_gid`, `roce_del_gid` |
| `PostRecv` | `roce_post_recv` |
| `StrayArrives`, `Repeat` | other senders, and the network |

The refinement of `DatagramService` maps `messages` to the payloads sent to the
QP (behind their GRH for UD), `waiting` to the WR in `resp.wr` followed by the
queue, and `completed` to what the application reads back through the list of
each completed WR, by its own addresses and not through the code's mapping.

### Concurrency

A thread's step is what it does between two accesses to something shared, so a
list operation is a load and a store, and `roce_put_mr` is a decrement and a
later read of the state. `Blocking` says whether `spin.lock` waits. `Apart` lists
the calls the application keeps from overlapping; `{c}` alone means two threads
are not both in `c`. `roce_destroy_mr` reads the count and stores the state in two
steps. A reception takes a WR either for a SEND, which is kept in `resp` and mapped, or
for a WRITE with immediate data, which frees it at once. `roce_mr_map_sge` refuses an
MR that is no longer valid: the WR then stays in `resp` with its reference, and later
SENDs are dropped. `Lookup` takes and releases the table's lock in one step,
because it only reads.

With locks that wait, everything but references survives any overlap. The MRs need
four rules, which `NeededApart` of `MCConcurrency` states; without any one of them
`NoUseAfterFree` fails:

| Calls that must not overlap | What happens otherwise |
|---|---|
| receive and receive | Both drop a reference of a destroyed MR; one finds it destroyed and frees it, the other then reads its state. |
| destroy and destroy | Both find the MR unused; the second frees it again. |
| destroy and post_recv | The post finds the MR in the table, it is freed, and its count is raised. |
| destroy and receive | The count reaches zero, the destroyer sees it and frees the MR before the receiver reads its state. |

## Runs

Passing:

| Run | Question | Bounds | Distinct states |
|---|---|---|---|
| `requester_wrap` | Do numbering, window, ACK requests and completion order survive every ACK and NAK that any peer could send at any time, posts inside the callback, and renumbering? | 8 PSNs, window 2, four WRs out of: one packet, four packets, failed, local, unmappable | 287,316 |
| `conn_reorder` | Do two QPs over a network that reorders, loses one and repeats one packet implement a reliable channel, and does the responder always know where in a message it is? | 32 PSNs starting at 30, window 2, two messages of two packets, SEND and WRITE WITH_IMM | 940,495 |
| `conn_bad` | Is every message still received once and in order, and a WR completed only after its message was received, when receive WRs come late or short, mappings fail, WRITEs miss the MR, an opcode is unknown? | ordered network without loss, three WRs of up to two packets, three receive WRs of 2 to 6 units, at most 5 packets and 2 ACKs in flight | 828,571 |
| `conn_live` | Does every WR complete, and does every NAK close its gap? | ordered network, one loss, three WRs of up to four packets | 17,400 |
| `res_sequences` | Are reference counts exact and is nothing freed in use, along every sequence of calls? | two PDs, two CQs, one AH, at most three of these at a time; two MRs, an RC QP and the GSI; ordinary, local and failed WRs, two in all queues | 249,822 |
| `frames` | Does a completed receive WR hold one message, unit for unit, whatever pages, list entries, packets and buffers cut it, and whatever else arrives? | MTU and page of 2 units, an MR of 5 units from address 1; RC: two sends, two receive WRs, one GID change, one call of `roce_modify_qp`, one stray; UD: one send, two receive WRs, two state changes, two strays or repetitions; five places to cut a frame | 367,996 |
| `threads` | Do threads that post, receive, create and destroy at once keep queue, table and counts right, is every lock released, and is no MR that waits to be destroyed forgotten? | three threads, two WRs, two MRs, a table of one slot | 38,350 |

Why these bounds are enough to be interesting: a window of 2 holds 3 packets (the code
sends one more than `ROCE_MAX_OUTGOING_PACKETS`), so a message of four packets fills it
and leaves one pending; `PsnMod - 2` as first PSN makes the wrap happen inside the first
message; eight PSNs against a window of 2 make stale ACKs ambiguous with new ones, which
is the worst the comparison can meet; two losses or repetitions of different kinds
produce a NAK, its suppression by `in_psn_nak` and a retransmission that overlaps it. In
`conn_*` the PSN space exceeds twice all packets ever built, as it does in the code for
a backlog below 2^23. `conn_reorder` identifies network states that differ only in order
(a VIEW), which no action can tell apart under `Reorder`. In `conn_bad` a receive WR of
6 units has room for a packet of two that is refused and sent again, and a WRITE
WITH_IMM of two packets may find no receive WR for its last. `IsReliableChannel` fails
in that run for both reasons, and `KeepsOrder` holds: the refusals spoil what a message
contains, not the order of messages, their number or the meaning of a completion. The
run needs a constraint because a refused WRITE draws NAKs for ever. In `res_sequences` a
constraint keeps objects and WRs few at a time (`FewObjects`), not which ones or in what
order. Deadlock is not checked: an application may stop posting, and an assertion ends
the process.

In `frames` three gather and three scatter lists lie inside a page, fill one, span three
pages, run through entries in falling order, and leave the MR; one receive WR is used up
exactly by the first packet of a longer message; a fourth gather list leaves the MR,
which ends the process. Of the eleven strays one, with IP options and come over a
router, must be delivered; ten are refused, each for one reason: payload changed, cut
short, an IHL below five, another MAC, wrong length, another UDP port, another P_Key,
padding longer than the payload, a place in a message that UD does not have, an RC QP
hit by a UD packet. A frame comes in two buffers, cut in front of everything, behind the
Ethernet and IPv4 headers or in the middle of an IPv6 header, or behind six, seven or
eight units, which is between later headers, in front of, inside or behind the payload.
`SomeBound` gives each type the calls that matter to it: attributes to RC, states and
repetitions to UD. In `threads` one slot makes creation and destruction meet, and a
third thread is needed for a WR to be posted while another is taken and an MR destroyed.
Deadlock is checked in `threads`: some thread can always begin a reception.

Fairness in `threads` is weak fairness of each thread inside a call: the scheduler runs
it. A thread that waits for a lock may wait for ever, as spin locks promise nothing, and
`LocksReleased` does not need more. Nothing obliges anyone to post or to destroy.
`threads_destroyed_mr` assumes more than the code justifies, strong fairness of
`LockQueue` and packets that keep arriving, so that its counterexample does not rest on
a thread that starves.

Fairness in `conn_live` is weak fairness of delivery in each direction (the
network passes on what it holds, and the peer's application feeds frames in) and
of the handler's own loop. Nothing obliges the application to post.
`EventuallyCompleted` excuses behaviours with a loss: the code cannot recover from
losing the last packet, the last ACK or a NAK. `NakRecovers` does not excuse them;
the one loss of the run is the one the NAK repairs. Over a reordering network
`EventuallyCompleted` fails without any loss: a packet that overtakes its
predecessor is dropped, and when its retransmitted copy overtakes as well,
`in_psn_nak` suppresses the second NAK and nobody sends it again.

Runs in which the code breaks what it says of itself; each has an entry under
`findings`:

| Run | What happens |
|---|---|
| `requester_range` | The assertion `psn >= sq_psn && psn <= req.psn` of `roce_xmit_pkts` fails when outgoing PSNs straddle the wrap. |
| `conn_plain_write` | `writtenlen` is not cleared after a WRITE without immediate data; the next WRITE is refused with a NAK, for ever. |
| `frames_huge_page` | In an MR with pages larger than those of the context, fewer buffers are mapped than pages counted and the assertion between the two fails. |
| `threads_destroyed_mr` | An MR that waits to be destroyed is refused by the SEND that takes its WR, the WR stays in `resp.wr`, and the MR is never freed. |
| `threads_default` | A context's own `spin.lock` is `pthread_spin_trylock`; a thread that finds the lock taken goes on inside. |

## Proofs

The theorems hold for every value of the constants that the assumptions below allow.
The ones that matter to a reader, by component:

| Theorem | Statement | Hypotheses |
|---|---|---|
| **Requester** (`RcRequesterProofs`) | | |
| `RequesterTypes` | `[]ReqTypeOK` | |
| `RequesterContiguous` | `[]PsnContiguous` | |
| `RequesterWindow` | `[]WindowKept` | |
| `RequesterWindowAssert` | the assertion `diff >= 0` of `roce_xmit_pkts` never fails | |
| `RequesterSolicitsAck` | `[]AckSolicited` | |
| `RequesterSqPsn` | `SqPsnFollowsPackets` | |
| **WRs of the requester** (`RcRequesterProofs`) | | |
| `RequesterOpaqueMatch` | `[]OpaqueMatch` | `NoOtherOps` |
| `RequesterWRsConserved` | `[]WRsConserved` | `NoOtherOps` |
| `RequesterAssertionsHold` | `[]AssertionsHold` | `NoOtherOps` |
| **Connection** (`RcConnectionProofs`) | | |
| `ConnTypes` | `[]ConnTypeOK` | |
| `WindowHoldsExpected` | `[]RespWithinWindow` | `ShortLived` |
| `UnionNeverMistaken` | `[]UnionSound` | `ShortLived` |
| `RecvWrsAlwaysConserved` | `[]RecvWrsConserved` | `ShortLived` |
| `WritesAlwaysConfined` | `[]WriteConfined` | `ShortLived`, `EnoughRecvs` |
| `MessagesAlwaysApart` | `[]MessageBoundary` | `ShortLived`, `WellUsed` |
| **Channel** (`ReliableChannelProofs`) | | |
| `ConnectionWrInvariant` | `[]WrInv`: WRs complete once and in order between two QPs too | `NoOtherOps` |
| `ConnectionImplementsChannel` | `IsReliableChannel` | `ShortLived`, `WellUsed`, `NoOtherOps` |
| **Objects** (`ResourcesProofs`) | | |
| `ResTypeOKHolds` | `[]ResTypeOK` | |
| `RefsExactHolds` | `[]RefsExact` | `Fits`, no "recv_key", "destroy_mid" or "local_sges" in `Calls` |
| `NothingDanglesHolds` | `[]NothingDangles` | the same, and no "recv_cq" |
| `DestroyedMrInUseHolds` | `[]DestroyedMrInUse` | those of `RefsExactHolds` |
| **Frames, datagrams, attributes** (`FramesProofs`) | | |
| `FramesTypeOKHolds` | `[]FramesTypeOK` | `FramesGiven` |
| `DstIovsFit` | `[](abort # "iovs")`: `dst_iovs` is not overrun | `FramesGiven` |
| `PagesAgreeHolds` | `[]PagesAgree` | `FramesGiven`, `ContextPages` |
| `UdHeldWhileRunning` | `[](Running => UdHeldIffRefused)` | |
| `RefusalStaysFinal` | `RefusalIsFinal` | |
| **Threads** (`ConcurrencyProofs`) | | |
| `ConcTypeCorrect` | `[]ConcTypeOK` | `Blocking` |
| `LocksAlwaysExclude` | `[]LocksExclude` | `Blocking` |
| `RecvWrsAlwaysInOrder` | `[]RecvWrsInOrder` | `Blocking` |
| **References of threads** (`ConcurrencyRefProofs`) | | |
| `HandlesAlwaysUnique` | `[]HandlesUnique` | `Blocking`, `KeptApart \subseteq Apart` |
| `ConcRefsAlwaysExact` | `[]ConcRefsExact` | the same |
| `NeverUsedAfterFree` | `[]NoUseAfterFree` | the same |
| `PendingAlwaysSeen` | `[]PendingIsSeen` | the same |

### Numbers

`PsnProofs` develops division with remainder from what the SMT backend knows and
derives the facts about PSNs that carry the rest: `roce_compare_psn` gives the
distance to the end of the window across the wrap (`CompareInWindow`), and among a
window of consecutive PSNs one is a multiple of the window (`MultipleInWindow`).

The assumptions on the constants are `RequesterAssumption` and its like in the other
modules (the parameters have their types) and `PsnAssumption`: the width is even, the
window divides it, and twice the window is less than it. 2^24 and 8 satisfy it. That
the window divides the width is needed: `AckSolicited` is false without it, because a
run of PSNs across the wrap could then miss every multiple of the window.

### The requester

The inductive invariant `ReqInv` is the conjunction of `ReqTypeOK`,
`PsnContiguous`, `WindowKept` and

* `LoopHasPacket`: while the ACK loop has a turn to take, the outgoing list is not
  empty;
* `Marked(Queued)`: the last queued packet asks for an ACK, and so does every queued
  packet whose PSN is a multiple of the window;
* `abort # "xmit_window"`.

`AckSolicited` is not inductive: it looks at the outgoing list only when no handler
is running, so it says nothing of the packets that `roce_xmit_pkts` moves there.
`Marked` speaks of the whole queue; together with `WindowKept` it gives
`AckSolicited`: either all queued packets are outgoing, and the last asks for an
ACK, or the window is full and holds a multiple. `WindowKept` in turn needs
`PsnContiguous`, because `roce_xmit_pkts` finds the end of the window by comparing
PSNs for equality; were there a gap at that PSN, it would send everything.

`WrInv` adds what the application sees. `OpaqueMatch` and `WRsConserved` need each
other: a WR completes when the packet that ends its message is acknowledged, the
packet names it in `opaque`, and the head of the send queue is that WR because both
lists hold the same ids in rising order (`QueueOfPosted`, `PostedNumbered`). No
counting is needed; that ids rise in both is enough. `NoOtherOps` excludes the opcodes
that no packet is built for, with which the properties are false (below).

### The connection

The acknowledgements that `RcConnection` delivers are among those that the
requester's theorems allow, so `ReqInv` holds of it without being proved again. What
joins the two halves is `Place(b, a, r)`: the packets ever built are numbered from 0
and have PSNs `b`, `b + 1`, ...; the requester has dropped `a` of them, the responder
expects number `r`, `r` lies in the outgoing list or right behind it, each request in
the network has the number of a packet that was sent (and is that packet, if it is
still queued), and each acknowledgement a number below `r` (a NAK may name `r`
itself).

`ShortLived` says that fewer than half of the PSNs are ever used: 2^23 packets in the
code. A hypothesis of this kind is needed. A PSN has no epoch, so a request or an ACK
that the network keeps until the numbers come round is taken for a new one by this
code, as by any other; in practice the network forgets it long before.

`ConnInv` adds three things. The queued packets form whole messages, one after
another, with rising offsets (`MessagesInOrder`). The receive WRs are numbered through
`received`, `resp.wr` and the queue (`RecvWrs`). And the responder knows its place:
what `resp.wr` or `resp.iova` holds fits the packet that is expected next
(`RespPlace`), and what was delivered last precedes it (`Delivered`). From these follow
`UnionSound` and `RecvWrsConserved`, whatever the application does wrong: mappings that
fail, receive WRs too short or missing, WRITEs without immediate data.

For `WriteConfined` the invariant `WriteInv` adds that in the middle of a WRITE
`writtenlen` and `resp.iova` are those of the packet expected. This needs `EnoughRecvs`:
without a receive WR the last packet of a WRITE WITH_IMM is stored and counted but not
accepted, and stored further on when it is sent again (below). For `MessageBoundary`
the invariant `BoundaryInv` says that the union and `writtenlen` are clear between two
messages. That is the contract of an application that makes no mistake, and `WellUsed`
names it: receive WRs in time and long enough for any message, no RDMA WRITE without
immediate data and none outside the MR, no SEND WITH_INVALIDATE (refused), and
mappings that succeed. The run `conn_plain_write` shows that the property fails
without it.

### The channel

`ConnectionImplementsChannel` is the refinement that `conn_reorder` checks, for every
window, MTU, start PSN, number and length of messages, losses, repetitions and order of
delivery; that run's constants satisfy its hypotheses. Every step of the connection is a
`Send`, `Deliver` or `Confirm` of the channel or leaves it as it is (`ChanStep`). The
invariant `ChanInv` holds three facts:

* no message is missing from the queue: from the end of one message to the next packet,
  or to the WR that will be posted next, there is no other (`QueueWhole`);
* the number of messages before the packet that the responder expects is the length of
  `received`, and each message that ends before that packet is one of them (`UpTo`);
* what `resp.wr`, or the memory, already holds of the message in progress is its first
  `off` units, with `byte_len` to match (`Partial`), and receive WRs in the queue are
  empty (`FreshWrs`).

Hence a receive completion has the content of the next message (`Deliver`), and the
packet whose acknowledgement completes a WR lies before the expected one, so its message
is among those received (`Confirm`). `WrInv` is needed for the second: it says that the
completion is that packet's own WR and not one completed before. The proof numbers the
messages by how many of them come before (`Before`, a `Cardinality`); that the list
which `MessageList` builds recursively has each message at its number
(`MessageListIsSent`) is shown with the least position at which it would differ. Without
`WellUsed` the refinement is false: a packet stored or skipped before it was refused
lands elsewhere when it comes again. What remains true then is `KeepsOrder`, which the
run `conn_bad` checks and which is not proved.

### References between objects

`ResTypeOKHolds` has no hypotheses: handles and counts stay in range even in the calls
that the code goes wrong on. The other three rest on `RefsInv`. TLC confirmed its parts
on the instance of `res_sequences`, without special calls, with "recv_cq" and with
"gsi_again" (the counts taken MR by MR and PD by PD: as it stands it counts with
functions on all of `Nat`, which TLC does not evaluate). It adds to the types that

* the count of each PD, CQ and MR equals the number of its holders, what they hold is
  in its table, and a destroyed MR has holders (`State`);
* queues keep to `MaxWrs`, and the first WR of a send queue has not failed, so that
  completing it puts references it took (`QpGood`); a local WR has no scatter list
  (`SendWr`);
* while the GSI is not in use its slot, if it has kept its handle, still holds the
  unused QP of `roce_alloc_special_qps`, so that creating it takes no object's place;
* `roce_put_pd` has not failed: that assertion follows from the exact counts, since
  a PD that something holds is never freed.

The holders are counted and not summed by a fold. A reference of a WR is an entry,
the place of an lkey in some queue of some QP (`Entries`), and the count of an MR is
the `Cardinality` of its entries. A table lies within the slots, which makes these sets
finite.

No step of the API is one step for the references: `roce_destroy_qp` puts the lists of
all WRs, each of them MR by MR, and each put may free an MR and with it a reference of
a PD. `GoodTables(s, u, x)` is the invariant inside such a call: in the tables `s` an
MR `m` has `u[m]` entries that hold it and a PD `h` has `x[h]` holders other than MRs.
A put keeps it with one entry less, whether it frees the MR or not; a get with one
more; and a whole list, or the lists of both queues, follow turn by turn.
A turn at which it would first fail is shown not to exist: the least number of a set of
turns takes the place of induction (`Least`). Posting undoes what it took in reverse
order, which gives back the tables it began with.

`Fits` says that the counts do not overflow: the number of objects, twice the number of
QPs (both CQs of a QP may be the same), and the number of entries all queues can hold,
with the list being posted, are less than `RefMod`. With 2^32 that is so for any table
that fits in memory; without it a count would wrap to zero and an object in use be
freed. The constants of the runs satisfy it. The three calls excluded are those after
which counts are not exact: a receive WR with an unknown lkey puts references twice, a
local WR with a scatter list never puts what it took, and a QP destroyed in the middle
of a SEND leaks the references of `resp.wr`. The theorems cover the other two calls the
code goes wrong on, which end the process but miscount nothing: a GSI created again, and
a QP without a receive CQ, except that `NothingDangles` says that each QP has one and so
excludes the latter.

### Frames

`RefusalIsFinal` is a property of each step and does not need to know what the loops over
lists compute. `UdHeldIffRefused` relates `resp.wr`, refusals and completions of a UD QP
through each way out of `roce_recv_payload`. `UdHeldWhileRunning` proves it for as long as
no assertion has failed: a failed one ends the process with a receive WR taken and nothing
refused.

That the types hold, that `dst_iovs` is large enough and that page counts agree rests on
what the loops compute. A `Loop` is a recursive function of the number of turns; a turn at
which a fact about it would first fail is shown not to exist. The argument, in its order:

1. *One entry.* An entry of a scatter list that lies in the region and touches `c` of
   its pages, of whatever size, is copied by `roce_iov_copy` as `c` buffers
   (`CopyPages`, `SgeCopyPages`). Where those pages are the context's it is counted as
   `c` by `PagesOf`, for every address and length (`PagesOfIs`), so `roce_mr_map_sge`
   returns as many buffers as `roce_sge_pages` counts for a list of any length
   (`MapSgePages`).
2. *Parts of a list.* Each entry that `roce_sge_advance` returns lies within an entry of
   the list, and the cursor stays in the list (`AdvanceParts`); `SegmentsParts` follows
   this over all packets of a message, so the lists of packets and those of received
   payloads are of the kind that 1. is about. A received payload touches no more pages
   of an entry than the entry has, so `dst_iovs` holds its buffers (`FewPages`).
3. *Frames.* Every frame built here has the fields of its headers at their places
   (`RcFramesShaped`, `UdFrameShaped`). Taking units off either end of the buffers
   leaves buffers that hold a stretch of the same frame, wherever it was cut in two
   (`WindowAdvance`, `WindowReverse`), so what `roce_net_decap` takes for the BTH is the
   unit at its place in the frame, and the source QPN that `roce_recv_ud` stores is a
   number (`Decapped`).
4. *The invariant.* `FramesInv` says that the types hold, that the list and cursor of
   `resp.wr` are those of a posted WR, that every frame under way is of the kind of 3.,
   and how the process can have ended (`Ends`): not by an overrun of `dst_iovs`, in the
   assertion of `roce_sge_len` only for RC ("sge_len" below), and in the one on pages only
   without `ContextPages`. `roce_recv_payload` keeps it through each of its ways out
   (`PayloadReceived`), and so do RC and UD frames (`FrameReceived`) and the sender
   (`SendKeeps`).

`FramesGiven` is what these theorems ask of the constants, and `PagesAgreeHolds` asks for
`ContextPages` besides. TLC evaluates both for the instance of the run `frames`, as
`GivenHere` of `MCFrames`.

* `WholePages`: the region is made of whole pages of one size, enough for its length and
  the place of `iova` in its page. `roce_create_mr` does not check it; `roce_mr_map_sge`
  reads the I/O vector as if it were so.
* `ContextPages`: that size is the one `roce_sge_pages` counts with, and the region does not
  reach the next multiple of 2^32. `roce_create_mr` (`mr.c:43`) also accepts larger
  pages, and `roce-private.h:74` says that they are supported, but `PagesAgree` is false for
  them: the run `frames_huge_page` ends in the assertion. Counting across a multiple of
  2^32 goes wrong in the same way, because of the 32-bit mask.
* The lists sent have no empty entry: one at an address inside a page counts one page and
  copies no buffer. They may leave the region; that ends the process ("map_refused" in
  `Frames`, "map_pages" in `RcRequester`), as `map_pages` cannot be negative.
* `RecvsFit`: the lists posted for receiving have at most `ROCE_MAX_SGE` entries, none
  empty, and `dst_iovs` has room for the pages of each entry times the number of
  entries. `max_sge` of a device is less than 64 (`dev.c:32`) and `dst_iovs` has 128
  places: one entry may span 128 pages, and 63 entries two pages each. The code rests on
  a packet being no longer than a page for this and needs no limit on the list;
  `RecvsFit` limits the entries instead and leaves the MTU free. An entry may lie
  outside the region.
* `StraysShaped`: in frames of others the units at the places of headers have the fields
  of headers. A byte of a real frame always has a value; this is about units as the
  model writes them.

The refinement of `DatagramService`, and `UdHeldIffRefused` beyond the end of the process,
are not among the theorems.

### Threads

`LocksExclude` is inductive together with `InsideHolds`, the part of `ConcTypeOK`
that says a lock is taken while a thread is inside: a second thread cannot enter,
and only a thread inside releases. `RecvWrsInOrder` is not inductive: `AddTail` and
`Pop` store a list computed from what the thread loaded a step earlier. `StepsAgree`
adds that the loaded list is still the list, and not empty for a reception; it is
kept because `LocksExclude` leaves no other thread to change the list in between.
It also says which call a thread at the queue is in, and that a WR in the queue
names an MR, which `UnlockQueue` follows.

`RefInv` says for each thread where it is in its call (`Placed`) and what it knows of
its MR (`Posting`, `Creating`, `Putting`): the MR of a WR being posted stays valid, an
MR being created belongs to one thread, and an MR that is put is live and in the table
at the thread's slot until the slot is cleared. It adds that the table holds live MRs at
their handles (`InTheTable`, `LiveFound`), that each WR is in one place
(`WrsInOnePlace`), and that the count of an MR is the number of WRs that hold a
reference (`RefsCounted`, with `Cardinality` of a set of WRs; each step adds or removes
one element). Beside it `RespKept` says that the WR in `resp.wr` is not in the list, and
that a reception on its way to the list found `resp.wr` empty and fills it with its own
WR. `PendingIsSeen` follows from `RefsCounted` and `Pending`: an MR marked destroyed has
a count other than zero, or the reception that put the last reference has not finished.
The mark is set a step after the count was read; that nothing is put in between is one
of the rules. `PendingIsSeen` says that somebody will look, not that the MR is freed:
the reference of a WR that was refused and stays in `resp.wr` is never put
(`threads_destroyed_mr`). `KeptApart` is the table of rules above, so the theorems use
no more than what the runs show to be necessary.

### Only model-checked

* `Resources` with "recv_key", "destroy_mid" or "local_sges" in `Calls`, where the counts
  are wrong.
* The refinement of `DatagramService`: that the payload read back through a list is the
  one sent relates the contents of memory to what every loop did to get it there. The
  proofs of `Frames` follow the extents of lists, buffers and frames and not their contents.
* `KeepsOrder`, what is left of `IsReliableChannel` when the application breaks `WellUsed`
  (the run `conn_bad`).
* Liveness: fairness and ENABLED are out of the prover's reach.

## What the models show without a run of its own

* A receive WR is missing when the LAST packet of a WRITE WITH_IMM of several
  packets arrives: the payload is stored and `writtenlen` advanced before
  -EAGAIN, so the retransmitted packet is stored behind the message (`conn_bad` reaches it,
  and `IsReliableChannel` fails there).
* `roce_rc_build_pkts` has no default: a WR with an opcode it has no packets for (READ,
  atomics) is neither failed nor sent and stays at the head of the send queue. The next
  completion then fails the assertion `send_wr == pkt->opaque` (`requester.c:594`). The
  runs and theorems post none (`OtherOps`, `NoOtherOps`).
* A WRITE that is refused draws one NAK for each packet of each retransmission:
  `roce_set_qp_state`, which ought to stop the QP, does nothing.
* `Calls` of `Resources`. With each of the first three `RefsExact` fails:
  * "recv_key": `roce_get_mrs` puts what it took when an lkey names no MR, and
    `roce_free_recv_wr` puts the whole list again (`qp.c:114`), so a count drops below the
    number of WRs that use the MR, or wraps below zero;
  * "local_sges": `roce_post_send` takes the MRs of a local WR (`qp.c:166`: "put MRs on
    freeing send_wr") and `roce_complete_head` unlinks it without freeing it
    (`requester.c:561`), so they keep a reference for ever, and stay when they are
    destroyed;
  * "destroy_mid": a QP destroyed inside a multi-packet SEND leaks the references of the
    receive WR in `resp.wr`;
  * "recv_cq": a QP created with an invalid receive CQ keeps a null pointer that
    `roce_destroy_qp` follows;
  * "gsi_again": a GSI destroyed and created again fails the assertion on its handle, and
    slot 1 may be given to an ordinary QP in between.
* `map_pages` is a `uint32_t`, so `if (map_pages < 0)` (`requester.c:126`) never holds:
  a list that `roce_mr_map_sge` refuses ends the process in the assertion behind it,
  "map_pages" in `RcRequester`.
* When earlier packets of a message filled the receive WR exactly, the next one does
  not get the -EFAULT of `responder.c:234`: `roce_sge_len` is called with
  `sge_idx = num_sge` and its assertion ends the process ("sge_len", which `frames` and
  `conn_bad` reach).
* A UD datagram that does not fit its receive WR leaves that WR in `resp.wr`, and the
  QP takes no other datagram ever after, not even after a change of state to RESET.
  `UdHeldIffRefused` and `RefusalIsFinal` hold and say exactly this.
* `remote_qpn` of a UD completion is that of the datagram before: `dest_qp_num` is
  stored after the completion is reported.
* The cursor of `resp.wr` moves before the mapping of a packet is checked: a packet refused
  with -EACCES and sent again lands behind a hole of its own length, and the completion
  reports the length without the hole (`conn_bad` reaches this too).
* The GRH of a UD completion is not the header that arrived: its type of service, time to
  live and checksum, or traffic class, flow label and hop limit, are all ones, because
  `roce_crc32_pkt` masks the header in place.
* An IHL below five makes `roce_net_decap` take up to 240 bytes for options before any check
  of the frame; with as many bytes behind it, `ihlbuf` of 60 bytes is overrun ("ihlbuf" of
  `Frames`; the frames of the run are shorter, and refused).
* A UD send with an invalid AH is completed as a success and never sent. The index
  of the source GID in an AH is not checked. `roce_modify_qp` compares the family of the
  source GID once, and takes an empty place of the table for version 6; nobody looks
  again when a GID is deleted or another one added at its index.
* With 2^23 or more packets queued, `roce_handle_ack` takes a valid ACK to lie
  beyond `req.psn` and drops it.

## Not modelled, and the plan

Left out for good: the layout of bits in headers and the arithmetic of the ICRC
(codecs without state, covered by the unit tests), allocation, logging, the vendored
lists, capture files and the test programs.

Left out of the models that exist:

* Q_Keys, which the code stores and sends and never compares; DMA MRs, whose
  addresses the application maps itself; inline data; READ, atomics, SRQs and memory
  windows, which the code does not implement;
* parameter checks of the create functions, which refuse before they change anything;
* tear-down: `roce.h` promises that all resources are freed, `roce_free_dev` only
  logs those that are left, and `roce_init_device` does not look at what
  `roce_alloc_special_qps` returns;
* threads in the requester: `req.psn` has no lock, and `roce_xmit_pkts` reads a
  packet after it gave it to `net_xmit`. An application must serialise posting and
  reception for a QP that sends, and the models assume it does.

Done so far, in this order: the requester with its proofs (`Psn`, `RcRequester`),
the connection (`RcResponder`, `RcConnection`, `ReliableChannel`), the objects
(`Resources`), the path of a message through lists and frames (`ScatterList`,
`Frames`, `DatagramService`), threads and locks (`Concurrency` with its proofs); then
the proofs about WRs, the connection and its channel, datagrams, and references, of
threads first and then of all objects.

Next, most important first:

1. A QP in `Concurrency`: `roce_destroy_qp` against the reference that
   `roce_recv_bth` holds, with its early returns that keep it.
2. Traffic in both directions on one QP.
3. Device tear-down.
4. Proofs: the refinement of `DatagramService`, from the contents of what the loops of
   `ScatterList` return, on top of the lemmas about their extents.
