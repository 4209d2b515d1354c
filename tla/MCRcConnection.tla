--------------------------- MODULE MCRcConnection ---------------------------
(* Instances of RcConnection for TLC. *)
EXTENDS RcConnection

Req(op, len, va, fault) ==
  [op |-> op, len |-> len, va |-> va, sig |-> TRUE, fault |-> fault]

\* Messages of one, two and four packets, more than the window, and a WR
\* that builds none.
Messages == {Req("SEND_IMM", 2, 0, "none"), Req("WRITE_IMM", 4, 1, "none"),
             Req("SEND", 7, 0, "none"), Req("SEND", 1, 0, "mrs")}
ReorderedMessages == {Req("SEND", 3, 0, "none"), Req("WRITE_IMM", 4, 1, "none")}

\* Receive WRs that come late, are too short or have room for a packet sent again,
\* mappings that fail, RDMA WRITEs of one packet and of two, without immediate data or
\* outside the MR, an opcode the responder does not know.
BadMessages == {Req("SEND", 4, 0, "none"), Req("WRITE", 2, 1, "none"),
                Req("WRITE_IMM", 3, 1, "none"), Req("WRITE_IMM", 1, 5, "none"),
                Req("SEND_INV", 3, 0, "none")}

\* Two plain RDMA WRITEs.
PlainWrites == {Req("WRITE", 3, 1, "none")}
NearWrap == {PsnMod - 2}
Buffers == <<7, 7, 7>>
NoBuffers == <<>>

(***************************************************************************)
(* A WRITE that is refused again and again draws a NAK for each packet of  *)
(* each retransmission, so the network fills without bound: cut it here.   *)
(***************************************************************************)
NetBounded == Len(req_net) <= 5 /\ Len(ack_net) <= 2

(***************************************************************************)
(* With Reorder the order of the two network sequences does not matter:    *)
(* every action treats their positions alike.  States that differ in it    *)
(* only are one state to TLC.                                              *)
(***************************************************************************)
Count(net) == [p \in ToSet(net) |-> Cardinality({i \in DOMAIN net : net[i] = p})]

UnorderedNet ==
  <<queues, ack, history, abort, rq, rq_psn, in_psn_nak, resp_u, writtenlen, mem,
    received, recv_posted, resp_abort, lost, dup, Count(req_net), Count(ack_net)>>
=============================================================================
