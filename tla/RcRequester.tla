---------------------------- MODULE RcRequester ----------------------------
(***************************************************************************)
(* The requester half of an RC queue pair (requester.c): roce_post_send    *)
(* cuts a send work request (WR) into packets, a window of them is handed  *)
(* to the network, and ACKs and NAKs retire packets and complete WRs.      *)
(*                                                                         *)
(* Payload is counted in units, Mtu of them to a packet.  A packet names   *)
(* the message it belongs to and the offset of its payload, which is all   *)
(* that delivery can tell apart.  An assertion that fails ends the         *)
(* process: abort names it and no further step is taken.                   *)
(*                                                                         *)
(* Steps are whole handlers, with one exception: the ACK loop calls        *)
(* ctx->para.cq_comp with no lock held, and the application may post from  *)
(* that callback, so every iteration of the loop is a step of its own.     *)
(***************************************************************************)
EXTENDS Psn, Sequences, FiniteSets

CONSTANTS
  Mtu,          \* payload units per packet (attr.path_mtu)
  Requests,     \* the send WRs the application may post, see RequestSet
  RangeAssert,  \* TRUE: the first assertion of roce_xmit_pkts is compiled in
  StartPsns,    \* the sq_psn the application sets with roce_modify_qp
  MaxPosts,     \* bound: WRs posted in one behaviour
  MaxNet        \* bound: packets the network holds when an ACK is handled

LocalOps == {"LOCAL"}      \* LOCAL_INV, REG_MR, BIND_MW
PacketOps == {"SEND", "SEND_IMM", "SEND_INV", "WRITE", "WRITE_IMM"}
OtherOps == {"OTHER"}      \* READ, ATOMIC_*, FLUSH: accepted, no packet built
Ops == LocalOps \cup PacketOps \cup OtherOps

\* opcode, payload length, remote address, ROCE_SEND_SIGNALED, and what is
\* wrong with the WR (see PostSend).
RequestSet == [op : Ops, len : Nat \ {0}, va : Nat, sig : BOOLEAN,
               fault : {"none", "mrs", "inline", "map"}]

ASSUME RequesterAssumption ==
  /\ Mtu \in Nat \ {0}
  /\ Requests \subseteq RequestSet
  /\ RangeAssert \in BOOLEAN
  /\ StartPsns \subseteq PSN
  /\ MaxPosts \in Nat /\ MaxNet \in Nat

VARIABLES
  sq,             \* qp->sq.wrs, the send WRs not yet completed
  sq_psn,         \* qp->attr.sq_psn, PSN of the oldest unacknowledged packet
  req_psn,        \* qp->req.psn, PSN of the next packet to be built
  pending_pkts,   \* qp->req.pending_pkts, built and not yet sent
  outgoing_pkts,  \* qp->req.outgoing_pkts, sent and not yet acknowledged
  ack,            \* the call of roce_handle_acknowledge in progress
  req_net,        \* packets handed to net_xmit that the network holds
  posted,         \* history: the WRs posted; a WR's id is its index here
  completed,      \* history: WRs popped from sq and freed, in order
  abort           \* the ROCE_ASSERT that failed, or "none"

queues == <<sq, sq_psn, req_psn, pending_pkts, outgoing_pkts>>
history == <<posted, completed>>
req_vars == <<sq, sq_psn, req_psn, pending_pkts, outgoing_pkts, ack, req_net,
              posted, completed, abort>>

NoAck == [on |-> FALSE, nak |-> FALSE, psn |-> 0, more |-> FALSE]

SendWR == [id : Nat, op : Ops, len : Nat, va : Nat, sig : BOOLEAN,
           error : BOOLEAN]
Packet == [psn : PSN, op : PacketOps, pos : {"FIRST", "MIDDLE", "LAST", "ONLY"},
           ack : BOOLEAN, opaque : Nat, msg : Nat, off : Nat, len : Nat,
           va : Nat]

-----------------------------------------------------------------------------
(***************************************************************************)
(* Building packets: roce_rc_send_pkts and roce_rc_write_pkts.  A payload  *)
(* of at most one MTU is one ONLY packet; a longer one is FIRST, MIDDLE    *)
(* while more than an MTU is left, and LAST.  Only the packet that ends    *)
(* the message points back at its WR (opaque), carries the immediate data, *)
(* and always asks for an ACK; the others ask when their PSN is a multiple *)
(* of the window.                                                          *)
(***************************************************************************)
NumPkts(len) == IF len <= Mtu THEN 1 ELSE (len + Mtu - 1) \div Mtu

Position(i, n) == CASE n = 1 -> "ONLY"
                    [] n > 1 /\ i = 1 -> "FIRST"
                    [] n > 1 /\ i = n -> "LAST"
                    [] OTHER -> "MIDDLE"

\* The first packets of a WITH_IMM or WITH_INV request are plain ones.
PacketOp(op, i, n) == CASE i = n -> op
                        [] i # n /\ op \in {"WRITE", "WRITE_IMM"} -> "WRITE"
                        [] OTHER -> "SEND"

\* Mutant: only the end of a message asks for an ACK.
AckRequestedLast(psn, i, n) == i = n

AckRequested(psn, i, n) == i = n \/ psn % MaxOutgoing = 0

PacketLen(len, i, n) == IF i < n THEN Mtu ELSE len - (n - 1) * Mtu

\* Mutant: the PSN is advanced before the packet is numbered.
PacketPsnLate(psn, i) == PsnAdd(psn, i)

PacketPsn(psn, i) == PsnAdd(psn, i - 1)

\* Mutant: every packet of the message points at the WR.
OpaqueAll(wr, i, n) == wr.id

Opaque(wr, i, n) == IF i = n THEN wr.id ELSE 0

RcBuildPkts(wr, psn) ==
  LET n == NumPkts(wr.len) IN
  [i \in 1 .. n |->
     [psn    |-> PacketPsn(psn, i),
      op     |-> PacketOp(wr.op, i, n),
      pos    |-> Position(i, n),
      ack    |-> AckRequested(PacketPsn(psn, i), i, n),
      opaque |-> Opaque(wr, i, n),
      msg    |-> wr.id,
      off    |-> (i - 1) * Mtu,
      len    |-> PacketLen(wr.len, i, n),
      va     |-> wr.va]]

(***************************************************************************)
(* roce_complete_head: local and error WRs at the head of the send queue   *)
(* are unlinked (their completion is a TODO in the code).                  *)
(***************************************************************************)
IsLocal(wr) == wr.op \in LocalOps

WaitsForAck(wr) == ~IsLocal(wr) /\ ~wr.error

Waiting(q) == {i \in 1 .. Len(q) : WaitsForAck(q[i])}

FirstOf(S) == CHOOSE i \in S : \A j \in S : i <= j

\* Mutants: nothing is unlinked; one WR is, whatever it is.
CompleteHeadNone(q) == q
CompleteHeadOne(q) == IF q = <<>> THEN q ELSE Tail(q)

CompleteHead(q) == IF Waiting(q) = {} THEN <<>>
                   ELSE SubSeq(q, FirstOf(Waiting(q)), Len(q))

(***************************************************************************)
(* roce_xmit_pkts.  With outgoing packets it asserts that the PSN of the   *)
(* last lies between sq_psn and req.psn, as plain integers, and not past   *)
(* the window; it returns when the window is full.  Otherwise pending      *)
(* packets are sent up to and including the one whose PSN is               *)
(* sq_psn + MAX_OUTGOING.  The first assertion fails once PSNs wrap; with  *)
(* RangeAssert FALSE the model leaves it out and looks at what follows.    *)
(***************************************************************************)
\* Mutant: off by one.
WindowLeftMore(sqp, psn) == ComparePsn(sqp + MaxOutgoing + 1, psn)

WindowLeft(sqp, psn) == ComparePsn(sqp + MaxOutgoing, psn)

XmitAssertion(sqp, rpsn, out) ==
  LET tail == out[Len(out)].psn IN
  CASE out = <<>> -> "none"
    [] out # <<>> /\ RangeAssert /\ ~(tail >= sqp /\ tail <= rpsn) -> "xmit_range"
    [] OTHER -> IF WindowLeft(sqp, tail) < 0 THEN "xmit_window" ELSE "none"

WindowFull(sqp, out) == out # <<>> /\ WindowLeft(sqp, out[Len(out)].psn) = 0

WindowEnds(sqp, pend) == {i \in 1 .. Len(pend) : WindowLeft(sqp, pend[i].psn) = 0}

XmitCount(sqp, out, pend) ==
  IF WindowFull(sqp, out) THEN 0
  ELSE IF WindowEnds(sqp, pend) = {} THEN Len(pend)
  ELSE FirstOf(WindowEnds(sqp, pend))

\* The lists the call finds, and the packets retransmitted just before it.
XmitPkts(sqp, rpsn, out, pend, resent) ==
  LET n == XmitCount(sqp, out, pend) IN
  IF XmitAssertion(sqp, rpsn, out) # "none"
  THEN /\ abort' = XmitAssertion(sqp, rpsn, out)
       /\ outgoing_pkts' = out
       /\ pending_pkts' = pend
       /\ req_net' = req_net \o resent
  ELSE /\ abort' = abort
       /\ outgoing_pkts' = out \o SubSeq(pend, 1, n)
       /\ pending_pkts' = SubSeq(pend, n + 1, Len(pend))
       /\ req_net' = req_net \o resent \o SubSeq(pend, 1, n)

-----------------------------------------------------------------------------
(***************************************************************************)
(* roce_post_send and roce_request_rc.  r.fault is "mrs" when roce_get_mrs   *)
(* does not find an MR of the WR, "inline" when inline data exceeds the    *)
(* capacity of the QP, "map" when roce_mr_map_sge refuses the scatter list *)
(* (a wrong PD, a destroyed MR, a range outside it).  The first two mark   *)
(* the WR as failed.  The third is stored in an unsigned variable, so its  *)
(* error branch is dead code and the assertion behind it ends the process. *)
(***************************************************************************)
PostSend(r) ==
  LET wr == [id |-> Len(posted) + 1, op |-> r.op, len |-> r.len, va |-> r.va,
             sig |-> r.sig, error |-> r.fault \in {"mrs", "inline"}]
      pkts == IF wr.op \in PacketOps /\ ~wr.error
              THEN RcBuildPkts(wr, req_psn) ELSE <<>>
  IN /\ abort = "none"
     /\ Len(posted) < MaxPosts
     /\ UNCHANGED <<sq_psn, ack, completed>>
     /\ IF pkts # <<>> /\ r.fault = "map"
        THEN /\ abort' = "map_pages"
             /\ UNCHANGED <<sq, req_psn, pending_pkts, outgoing_pkts, req_net,
                            posted>>
        ELSE /\ posted' = Append(posted, wr)
             /\ sq' = CompleteHead(Append(sq, wr))
             /\ req_psn' = PsnAdd(req_psn, Len(pkts))
             /\ XmitPkts(sq_psn, PsnAdd(req_psn, Len(pkts)), outgoing_pkts,
                         pending_pkts \o pkts, <<>>)

(***************************************************************************)
(* roce_modify_qp with ROCE_QP_SQ_PSN: refused while packets are queued.   *)
(***************************************************************************)
\* Mutant: the check for queued packets is dropped.
ModifySqPsnBusy(psn) ==
  /\ abort = "none"
  /\ sq_psn' = psn
  /\ req_psn' = psn
  /\ UNCHANGED <<sq, pending_pkts, outgoing_pkts, ack, req_net, history, abort>>

ModifySqPsn(psn) ==
  /\ abort = "none"
  /\ pending_pkts = <<>> /\ outgoing_pkts = <<>>
  /\ sq_psn' = psn
  /\ req_psn' = psn
  /\ UNCHANGED <<sq, pending_pkts, outgoing_pkts, ack, req_net, history, abort>>

(***************************************************************************)
(* roce_handle_acknowledge up to the loop of roce_handle_ack.  A NAK of    *)
(* psn acknowledges everything before psn.  An ACK of something already    *)
(* acknowledged, or past the next PSN to be built, skips the loop.  ack.more *)
(* is list_for_each_safe's view: is there a packet for the next iteration? *)
(***************************************************************************)
AckInRange(psn) == /\ ComparePsn(sq_psn, psn) <= 0
                   /\ ComparePsn(req_psn, psn) >= 0

\* Mutant: a NAK acknowledges the packet it names.
AckedUptoNak(nak, psn) == psn

AckedUpto(nak, psn) == IF nak THEN PsnDec(psn) ELSE psn

HandleAcknowledge(nak, psn) ==
  LET upto == AckedUpto(nak, psn) IN
  /\ abort = "none"
  /\ ~ack.on
  /\ ack' = [on |-> TRUE, nak |-> nak, psn |-> upto,
             more |-> AckInRange(upto) /\ outgoing_pkts # <<>>]
  /\ UNCHANGED <<queues, req_net, history, abort>>

AckCovers(pkt) == ComparePsn(pkt.psn, ack.psn) <= 0

(***************************************************************************)
(* One iteration of the loop with roce_rc_complete_send_wr: the packet     *)
(* leaves the outgoing list, sq_psn advances, and the packet that ends a   *)
(* message pops the head of the send queue, which must be its own WR.      *)
(***************************************************************************)
AckOne ==
  LET pkt == Head(outgoing_pkts)
      q == CompleteHead(sq)
      ends == pkt.opaque # 0
  IN /\ abort = "none"
     /\ ack.on /\ ack.more /\ AckCovers(pkt)
     /\ outgoing_pkts' = Tail(outgoing_pkts)
     /\ sq_psn' = PsnInc(sq_psn)
     /\ ack' = [ack EXCEPT !.more = Len(outgoing_pkts) > 1]
     /\ IF ends /\ (q = <<>> \/ Head(q).id # pkt.opaque)
        THEN abort' = "opaque" /\ sq' = q /\ completed' = completed
        ELSE /\ abort' = abort
             /\ sq' = IF ends THEN CompleteHead(Tail(q)) ELSE q
             /\ completed' = IF ends
                             THEN Append(completed, [id |-> Head(q).id,
                                                     cqe |-> Head(q).sig])
                             ELSE completed
     /\ UNCHANGED <<req_psn, pending_pkts, req_net, posted>>

(***************************************************************************)
(* After the loop: roce_handle_nak sends every outgoing packet again, and  *)
(* both handlers end in roce_xmit_pkts.                                    *)
(***************************************************************************)
\* Mutant: a NAK is treated as an ACK.
RetransmittedNone == <<>>

Retransmitted == IF ack.nak THEN outgoing_pkts ELSE <<>>

AckDone ==
  /\ abort = "none"
  /\ ack.on
  /\ ~(ack.more /\ AckCovers(Head(outgoing_pkts)))
  /\ XmitPkts(sq_psn, req_psn, outgoing_pkts, pending_pkts, Retransmitted)
  /\ ack' = NoAck
  /\ UNCHANGED <<sq, sq_psn, req_psn, history>>

-----------------------------------------------------------------------------
ReqInit ==
  /\ sq = <<>> /\ pending_pkts = <<>> /\ outgoing_pkts = <<>>
  /\ sq_psn \in StartPsns
  /\ req_psn = sq_psn
  /\ ack = NoAck
  /\ req_net = <<>>
  /\ posted = <<>> /\ completed = <<>>
  /\ abort = "none"

(***************************************************************************)
(* The requester against any network and any peer: the network takes what  *)
(* it is handed, and acknowledgements with every PSN may arrive.           *)
(***************************************************************************)
NetTake == /\ req_net # <<>>
           /\ req_net' = <<>>
           /\ UNCHANGED <<queues, ack, history, abort>>

AnyAcknowledge == /\ Len(req_net) <= MaxNet
                  /\ \E nak \in BOOLEAN, psn \in PSN : HandleAcknowledge(nak, psn)

ReqNext ==
  \/ \E r \in Requests : PostSend(r)
  \/ \E psn \in StartPsns : ModifySqPsn(psn)
  \/ AnyAcknowledge
  \/ AckOne
  \/ AckDone
  \/ NetTake

ReqSpec == ReqInit /\ [][ReqNext]_req_vars

-----------------------------------------------------------------------------
\* Every variable holds what its C field can hold.
ReqTypeOK ==
  /\ sq \in Seq(SendWR)
  /\ sq_psn \in PSN /\ req_psn \in PSN
  /\ pending_pkts \in Seq(Packet) /\ outgoing_pkts \in Seq(Packet)
  /\ ack \in [on : BOOLEAN, nak : BOOLEAN, psn : PSN, more : BOOLEAN]
  /\ req_net \in Seq(Packet)
  /\ posted \in Seq(SendWR)
  /\ completed \in Seq([id : Nat, cqe : BOOLEAN])
  /\ abort \in {"none", "xmit_range", "xmit_window", "opaque", "map_pages"}

Queued == outgoing_pkts \o pending_pkts

(***************************************************************************)
(* The outgoing and the pending list together hold the packets numbered    *)
(* from sq_psn to just before req.psn, each once and in order, across the  *)
(* wrap of the PSN.  roce_rc_complete_send_wr counts on it: it advances    *)
(* sq_psn by one for each packet without looking at the packet's PSN.      *)
(***************************************************************************)
PsnContiguous ==
  /\ \A i \in 1 .. Len(Queued) : Queued[i].psn = PsnAdd(sq_psn, i - 1)
  /\ req_psn = PsnAdd(sq_psn, Len(Queued))

(***************************************************************************)
(* roce_xmit_pkts keeps the last outgoing packet within                    *)
(* [sq_psn, sq_psn + MAX_OUTGOING], and no handler returns with a packet   *)
(* pending that the window has room for.                                   *)
(***************************************************************************)
WindowKept ==
  /\ Len(outgoing_pkts) <= MaxOutgoing + 1
  /\ abort = "none" /\ ~ack.on /\ pending_pkts # <<>>
       => Len(outgoing_pkts) = MaxOutgoing + 1

(***************************************************************************)
(* Whenever the requester waits for the peer, one of the packets it waits  *)
(* on asks for an ACK; otherwise a full window of FIRST and MIDDLE packets *)
(* would never move, there being no timer.  This is why they ask for an    *)
(* ACK when psn % ROCE_MAX_OUTGOING_PACKETS is 0.                          *)
(***************************************************************************)
AckSolicited ==
  abort = "none" /\ ~ack.on /\ outgoing_pkts # <<>>
    => \E i \in 1 .. Len(outgoing_pkts) : outgoing_pkts[i].ack

WaitingIds == {sq[i].id : i \in Waiting(sq)}
PacketIds == {Queued[i].opaque : i \in 1 .. Len(Queued)} \ {0}
CompletedIds == {completed[i].id : i \in 1 .. Len(completed)}
MessageIds == {i \in 1 .. Len(posted) : posted[i].op \in PacketOps /\ ~posted[i].error}

(***************************************************************************)
(* The WRs that wait in the send queue are the ones the queued packets     *)
(* point at, in the same order, with local and failed WRs in between.      *)
(***************************************************************************)
OpaqueMatch ==
  /\ WaitingIds = PacketIds
  /\ \A i, j \in 1 .. Len(sq) : i < j => sq[i].id < sq[j].id
  /\ \A i, j \in 1 .. Len(Queued) :
       i < j /\ Queued[i].opaque # 0 /\ Queued[j].opaque # 0
         => Queued[i].opaque < Queued[j].opaque

(***************************************************************************)
(* No WR is lost and none completes twice: one that became packets waits   *)
(* in the send queue until it completes, and they complete in the order    *)
(* they were posted.                                                       *)
(***************************************************************************)
WRsConserved ==
  /\ WaitingIds \cup CompletedIds = MessageIds
  /\ \A i, j \in 1 .. Len(completed) : i < j => completed[i].id < completed[j].id
  /\ \A i \in CompletedIds, j \in WaitingIds : i < j

(***************************************************************************)
(* ROCE_ASSERT(diff >= 0) of roce_xmit_pkts and                            *)
(* ROCE_ASSERT(send_wr == pkt->opaque) of roce_rc_complete_send_wr hold.   *)
(***************************************************************************)
AssertionsHold == abort \notin {"xmit_window", "opaque"}

(***************************************************************************)
(* sq_psn moves only to acknowledge the head of the outgoing list, or when *)
(* nothing is outstanding: no ACK, however stale or wrong, moves it past   *)
(* a packet the peer was never sent.                                       *)
(***************************************************************************)
SqPsnFollowsPackets ==
  [][ \/ sq_psn' = sq_psn
      \/ Queued = <<>>
      \/ /\ outgoing_pkts # <<>>
         /\ sq_psn = Head(outgoing_pkts).psn
         /\ Queued' = Tail(Queued)
         /\ sq_psn' = PsnInc(sq_psn) ]_req_vars

\* What the code says of itself and does not keep: "the last outgoing packet should
\* between [SQ PSN, SQ PSN + MAX OUTGOING]", and the assertion below that comment in
\* roce_xmit_pkts.
OutgoingInRange == abort # "xmit_range"
=============================================================================
