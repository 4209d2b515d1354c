---------------------------- MODULE RcConnection ----------------------------
(***************************************************************************)
(* Two connected RC queue pairs, one of them sending: the requester of one *)
(* libroce context, the responder of another, and a network between them   *)
(* that carries request packets one way and ACKs and NAKs the other.       *)
(* The network keeps the order of packets unless Reorder, and may lose or  *)
(* duplicate up to MaxLost and MaxDup of them.                             *)
(***************************************************************************)
EXTENDS RcRequester, RcResponder, SequencesExt

CONSTANTS
  Reorder,      \* may the network deliver packets out of order?
  MaxLost,      \* bound: packets lost in one behaviour
  MaxDup        \* bound: packets duplicated in one behaviour

ASSUME NetworkAssumption ==
  Reorder \in BOOLEAN /\ MaxLost \in Nat /\ MaxDup \in Nat

VARIABLES lost, dup

vars == <<req_vars, resp_vars, lost, dup>>

Deliverable(net) == IF Reorder THEN DOMAIN net
                    ELSE {i \in DOMAIN net : i = 1}

-----------------------------------------------------------------------------
Post(r) == PostSend(r) /\ UNCHANGED <<resp_vars, lost, dup>>

Recv(cap) == PostRecv(cap) /\ UNCHANGED <<req_vars, lost, dup>>

DeliverRequest(i) ==
  /\ RecvRc(req_net[i])
  /\ req_net' = RemoveAt(req_net, i)
  /\ UNCHANGED <<sq, sq_psn, req_psn, pending_pkts, outgoing_pkts, ack, posted,
                 completed, abort, lost, dup>>

DeliverAck(i) ==
  /\ HandleAcknowledge(ack_net[i].nak, ack_net[i].psn)
  /\ ack_net' = RemoveAt(ack_net, i)
  /\ UNCHANGED <<rq, rq_psn, in_psn_nak, resp_u, writtenlen, mem, received,
                 recv_posted, resp_abort, lost, dup>>

AckLoop == (AckOne \/ AckDone) /\ UNCHANGED <<resp_vars, lost, dup>>

Lose ==
  /\ lost < MaxLost
  /\ lost' = lost + 1
  /\ \/ /\ \E i \in DOMAIN req_net : req_net' = RemoveAt(req_net, i)
        /\ UNCHANGED ack_net
     \/ /\ \E i \in DOMAIN ack_net : ack_net' = RemoveAt(ack_net, i)
        /\ UNCHANGED req_net
  /\ UNCHANGED <<queues, ack, history, abort, rq, rq_psn, in_psn_nak, resp_u,
                 writtenlen, mem, received, recv_posted, resp_abort, dup>>

Duplicate ==
  /\ dup < MaxDup
  /\ dup' = dup + 1
  /\ \/ /\ \E i \in DOMAIN req_net : req_net' = Append(req_net, req_net[i])
        /\ UNCHANGED ack_net
     \/ /\ \E i \in DOMAIN ack_net : ack_net' = Append(ack_net, ack_net[i])
        /\ UNCHANGED req_net
  /\ UNCHANGED <<queues, ack, history, abort, rq, rq_psn, in_psn_nak, resp_u,
                 writtenlen, mem, received, recv_posted, resp_abort, lost>>

Init == /\ ReqInit
        /\ RespInit(sq_psn)
        /\ lost = 0 /\ dup = 0

Next == \/ \E r \in Requests : Post(r)
        \/ \E cap \in Capacities : Recv(cap)
        \/ \E i \in Deliverable(req_net) : DeliverRequest(i)
        \/ \E i \in Deliverable(ack_net) : DeliverAck(i)
        \/ AckLoop
        \/ Lose
        \/ Duplicate

Spec == Init /\ [][Next]_vars

(***************************************************************************)
(* The network delivers what it holds and a handler that was entered runs  *)
(* to its end; the application is never obliged to post.                   *)
(***************************************************************************)
FairSpec ==
  /\ Spec
  /\ WF_vars(\E i \in Deliverable(req_net) : DeliverRequest(i))
  /\ WF_vars(\E i \in Deliverable(ack_net) : DeliverAck(i))
  /\ WF_vars(AckLoop)

-----------------------------------------------------------------------------
\* The variables of both sides and of the network keep their types.
ConnTypeOK ==
  /\ ReqTypeOK
  /\ rq_psn \in PSN
  /\ in_psn_nak \in BOOLEAN
  /\ resp_u.kind \in {"null", "wr", "iova"}
  /\ writtenlen \in Nat
  /\ ack_net \in Seq([nak : BOOLEAN, psn : PSN])
  /\ resp_abort \in {"none", "sge_len"}
  /\ lost \in 0 .. MaxLost /\ dup \in 0 .. MaxDup

(***************************************************************************)
(* The PSN the responder expects is one of the requester's outgoing        *)
(* packets or the one after the last of them, whatever the network lost,   *)
(* repeated or reordered and however old the ACK or NAK that moved sq_psn. *)
(***************************************************************************)
RespWithinWindow ==
  \E k \in 0 .. Len(outgoing_pkts) : rq_psn = PsnAdd(sq_psn, k)

\* The packets of a SEND, WITH_INVALIDATE included, which the responder refuses.
IsSend(pkt) == pkt.op \in {"SEND", "SEND_IMM", "SEND_INV"}

(***************************************************************************)
(* resp.wr and resp.iova share their bytes, and nothing records which of   *)
(* them is stored.  The packet the responder accepts next never takes one  *)
(* for the other: the rest of a SEND finds a receive WR, the rest of a     *)
(* WRITE finds an address.                                                 *)
(***************************************************************************)
UnionSound ==
  \A i \in 1 .. Len(Queued) :
    Queued[i].psn = rq_psn /\ InProcess(Queued[i]) =>
      IF IsSend(Queued[i])
      THEN resp_u.kind # "iova"
      ELSE resp_u.kind # "wr"

(***************************************************************************)
(* resp.wr and resp.writtenlen tell the responder where in a message it    *)
(* is: they are clear exactly when the packet it expects next starts one.  *)
(* The warnings "missing SEND LAST" and "missing WRITE LAST", and the NAK  *)
(* that goes with the second, rest on it.                                  *)
(***************************************************************************)
MessageBoundary ==
  \A i \in 1 .. Len(Queued) :
    Queued[i].psn = rq_psn =>
      /\ ~InProcess(Queued[i]) => resp_u = NullU /\ writtenlen = 0
      /\ InProcess(Queued[i]) => IF IsSend(Queued[i])
                                 THEN resp_u.kind = "wr" /\ writtenlen = 0
                                 ELSE resp_u.kind # "wr" /\ writtenlen > 0

(***************************************************************************)
(* Receive WRs are used in the order they were posted and none is lost:    *)
(* each is completed, held in resp.wr for the message in progress, or      *)
(* still in the receive queue.                                             *)
(***************************************************************************)
RecvWrsConserved ==
  LET held == IF resp_u.kind = "wr" THEN <<resp_u.wr.id>> ELSE <<>>
      used == [i \in DOMAIN received |-> received[i].wr]
      left == [i \in DOMAIN rq |-> rq[i].id]
  IN used \o held \o left = [i \in 1 .. recv_posted |-> i]

(***************************************************************************)
(* A unit of an RDMA WRITE is stored at its own place, remote_addr plus    *)
(* its offset in the message, also when packets are sent again.            *)
(***************************************************************************)
WriteConfined ==
  \A a \in DOMAIN mem :
    mem[a] # Blank => a = posted[mem[a][1]].va + mem[a][2]

(***************************************************************************)
(* What the connection promises its two applications: a reliable channel.  *)
(* The messages are the WRs that consume a receive WR at the peer.         *)
(***************************************************************************)
IsMessage(wr) == wr.op \in {"SEND", "SEND_IMM", "WRITE_IMM"} /\ ~wr.error

Content(wr) == [op |-> wr.op, data |-> [i \in 1 .. wr.len |-> <<wr.id, i - 1>>]]

\* The messages among the WRs p, in the order in which they were posted.
MessageList(p) ==
  LET upTo[n \in 0 .. Len(p)] ==
        IF n = 0 THEN <<>>
        ELSE IF IsMessage(p[n]) THEN Append(upTo[n - 1], Content(p[n]))
        ELSE upTo[n - 1]
  IN upTo[Len(p)]

Sent == MessageList(posted)

Got == [i \in DOMAIN received |->
          [op |-> received[i].op, data |-> received[i].data]]

Acknowledged == Cardinality({i \in CompletedIds : IsMessage(posted[i])})

Channel == INSTANCE ReliableChannel
             WITH sent <- Sent, delivered <- Got, confirmed <- Acknowledged

\* Messages arrive exactly once, in order and intact, and a send completes
\* only after its message was delivered.
IsReliableChannel == Channel!Spec

(***************************************************************************)
(* The same channel when the contents of messages are left out of account. *)
(* A packet that is refused has already moved the cursor of a receive WR   *)
(* (responder.c:244), or the place of an RDMA WRITE (responder.c:326), so  *)
(* that the packet sent again lands elsewhere and IsReliableChannel is     *)
(* lost.  Late or short receive WRs, failed mappings, WRITEs outside the   *)
(* MR and opcodes without a handler still deliver no message twice, before *)
(* an earlier one, or after the sender was told that it had arrived.       *)
(***************************************************************************)
SentIds == SelectSeq([i \in DOMAIN posted |-> i], LAMBDA i : IsMessage(posted[i]))

GotIds == [i \in DOMAIN received |-> received[i].msg]

Order == INSTANCE ReliableChannel
           WITH sent <- SentIds, delivered <- GotIds, confirmed <- Acknowledged

KeepsOrder == Order!Spec

(***************************************************************************)
(* Every WR that became packets completes when the network keeps the order *)
(* and loses nothing and enough receive WRs are posted.                    *)
(***************************************************************************)
EventuallyCompleted ==
  \A id \in 1 .. MaxPosts :
    id \in MessageIds ~> id \in CompletedIds \/ lost > 0

(***************************************************************************)
(* A gap in the PSNs is closed: once roce_out_of_seq has sent its NAK and  *)
(* nothing more is lost, the expected packet arrives.                      *)
(***************************************************************************)
NakRecovers == in_psn_nak ~> ~in_psn_nak
=============================================================================
