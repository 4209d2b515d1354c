---------------------------- MODULE RcResponder ----------------------------
(***************************************************************************)
(* The responder half of an RC queue pair (responder.c): a request packet  *)
(* is checked against rq_psn, its payload goes to the receive WR of the    *)
(* message or to the address of an RDMA WRITE, and the packet is           *)
(* acknowledged.  A packet that fails to be processed is dropped: nothing  *)
(* is acknowledged and rq_psn stays.                                       *)
(*                                                                         *)
(* Memory is a range of cells; a cell holds the unit of a message last     *)
(* written to it.  The message sequence number of the AETH is left out:    *)
(* the requester only logs it.                                             *)
(***************************************************************************)
EXTENDS Psn, Sequences

CONSTANTS
  Preposted,    \* capacities of the receive WRs posted before traffic starts
  Capacities,   \* capacities of the receive WRs posted later, in units
  MemSize,      \* the remote MR covers the addresses 0 .. MemSize - 1
  MapOutcomes,  \* can roce_mr_map_sge succeed (TRUE), fail (FALSE)?
  MaxRecvs      \* bound: receive WRs posted in one behaviour

ASSUME ResponderAssumption ==
  /\ Preposted \in Seq(Nat \ {0})
  /\ Capacities \subseteq Nat \ {0}
  /\ MapOutcomes \subseteq BOOLEAN
  /\ MemSize \in Nat /\ MaxRecvs \in Nat

VARIABLES
  rq,           \* qp->rq.wrs, the posted receive WRs
  rq_psn,       \* qp->attr.rq_psn, the PSN expected next
  in_psn_nak,   \* qp->resp.in_psn_nak
  resp_u,       \* the union of qp->resp.wr and qp->resp.iova
  writtenlen,   \* qp->resp.writtenlen
  mem,          \* memory of the MR that RDMA WRITEs name
  received,     \* history: the receive completions, in order
  recv_posted,  \* history: number of receive WRs posted
  ack_net,      \* ACKs and NAKs handed to net_xmit that the network holds
  resp_abort    \* the assertion that failed, or "none"

resp_vars == <<rq, rq_psn, in_psn_nak, resp_u, writtenlen, mem, received,
               recv_posted, ack_net, resp_abort>>

(***************************************************************************)
(* resp.wr and resp.iova are one 8-byte union: a receive WR in use, the    *)
(* address of an RDMA WRITE in progress, or zero, which is both a null     *)
(* pointer and the address 0.                                              *)
(***************************************************************************)
NullU == [kind |-> "null"]
WrU(wr) == [kind |-> "wr", wr |-> wr]
IovaU(va) == IF va = 0 THEN NullU ELSE [kind |-> "iova", va |-> va]

Blank == <<0, 0>>   \* a memory cell the peer has not touched

\* The payload of a packet: which units of which message.
Units(pkt) == [i \in 1 .. pkt.len |-> <<pkt.msg, pkt.off + i - 1>>]

\* The cells of a receive buffer that a refused packet would have filled.
Untouched(pkt) == [i \in 1 .. pkt.len |-> Blank]

\* Mutant: a LAST packet does not end its message.
EndsMessageOnly(pkt) == pkt.pos = "ONLY"

EndsMessage(pkt) == pkt.pos \in {"LAST", "ONLY"}
InProcess(pkt) == pkt.pos \in {"MIDDLE", "LAST"}

SendAck(psn) == ack_net' = Append(ack_net, [nak |-> FALSE, psn |-> psn])
SendNak == ack_net' = Append(ack_net, [nak |-> TRUE, psn |-> rq_psn])

-----------------------------------------------------------------------------
(***************************************************************************)
(* roce_post_recv with MRs that exist.  A receive WR counts the units its  *)
(* scatter list has given out (off, for sge_idx and sge_off) and the units *)
(* received (byte_len); data is its buffer up to off.                      *)
(***************************************************************************)
NewRecvWr(id, cap) ==
  [id |-> id, cap |-> cap, off |-> 0, byte_len |-> 0, data |-> <<>>]

PostRecv(cap) ==
  /\ resp_abort = "none"
  /\ recv_posted < MaxRecvs
  /\ recv_posted' = recv_posted + 1
  /\ rq' = Append(rq, NewRecvWr(recv_posted + 1, cap))
  /\ UNCHANGED <<rq_psn, in_psn_nak, resp_u, writtenlen, mem, received,
                 ack_net, resp_abort>>

(***************************************************************************)
(* The end of roce_recv_rc for a packet that was processed: it is          *)
(* acknowledged if it asks for it and the next PSN is expected.            *)
(***************************************************************************)
Accept(pkt) ==
  /\ IF pkt.ack THEN SendAck(pkt.psn) ELSE UNCHANGED ack_net
  /\ rq_psn' = PsnInc(rq_psn)

\* Mutant: a packet that fails is not asked for again.
DropAdvance == UNCHANGED ack_net /\ rq_psn' = PsnInc(rq_psn)

Drop == UNCHANGED <<ack_net, rq_psn>>

(***************************************************************************)
(* roce_pop_recv_wr: NULL when a FIRST or ONLY packet finds a message in   *)
(* progress, a MIDDLE or LAST packet finds none, or no receive WR is left. *)
(***************************************************************************)
NoRecvWr(pkt) == \/ InProcess(pkt) # (resp_u # NullU)
                 \/ resp_u = NullU /\ rq = <<>>

RecvWr == IF resp_u # NullU THEN resp_u.wr ELSE Head(rq)

\* Mutant: a receive WR is popped for every packet.
PopRecvWrAgain == rq' = IF rq = <<>> THEN rq ELSE Tail(rq)

PopRecvWr == rq' = IF resp_u = NullU THEN Tail(rq) ELSE rq

(***************************************************************************)
(* roce_recv_payload.  A receive WR whose scatter list is used up makes    *)
(* roce_sge_len fail its assertion; one that is too short, or that cannot  *)
(* be mapped, stays in resp.wr.  In the last case roce_sge_advance has     *)
(* moved its cursor already: the payload sent again lands behind a hole.   *)
(* The application is told byte_len, and reads so much of its buffer.      *)
(***************************************************************************)
RecvPayload(pkt, mapped) ==
  LET wr == RecvWr
      skipped == [wr EXCEPT !.off = @ + pkt.len, !.data = @ \o Untouched(pkt)]
      filled == [wr EXCEPT !.off = @ + pkt.len, !.byte_len = @ + pkt.len,
                           !.data = @ \o Units(pkt)]
      bytes == SubSeq(filled.data, 1, filled.byte_len)
  IN
  \/ /\ NoRecvWr(pkt)                                         \* -EAGAIN
     /\ Drop
     /\ UNCHANGED <<rq, resp_u, received, resp_abort>>
  \/ /\ ~NoRecvWr(pkt) /\ wr.off = wr.cap
     /\ resp_abort' = "sge_len"
     /\ Drop
     /\ UNCHANGED <<rq, resp_u, received>>
  \/ /\ ~NoRecvWr(pkt) /\ wr.off < wr.cap
     /\ wr.cap - wr.off < pkt.len                             \* -EFAULT
     /\ PopRecvWr
     /\ resp_u' = WrU(wr)
     /\ Drop
     /\ UNCHANGED <<received, resp_abort>>
  \/ /\ ~NoRecvWr(pkt) /\ wr.cap - wr.off >= pkt.len
     /\ ~mapped                                               \* -EACCES
     /\ PopRecvWr
     /\ resp_u' = WrU(skipped)
     /\ Drop
     /\ UNCHANGED <<received, resp_abort>>
  \/ /\ ~NoRecvWr(pkt) /\ wr.cap - wr.off >= pkt.len
     /\ mapped
     /\ PopRecvWr
     /\ resp_u' = IF EndsMessage(pkt) THEN NullU ELSE WrU(filled)
     /\ received' = IF EndsMessage(pkt)
                    THEN Append(received, [wr |-> wr.id, op |-> pkt.op,
                                           msg |-> pkt.msg, data |-> bytes])
                    ELSE received
     /\ Accept(pkt)
     /\ UNCHANGED resp_abort

(***************************************************************************)
(* roce_rdma_write_payload.  writtenlen is the sign of a WRITE in          *)
(* progress.  The payload goes to iova + writtenlen, which must lie in the *)
(* MR; dmalen is never looked at.  Only a packet with immediate data pops  *)
(* a receive WR, completes it, and clears the state of the message.        *)
(***************************************************************************)
WriteUnit(pkt) == IF writtenlen = 0 THEN IovaU(pkt.va) ELSE resp_u

\* Mutant: off by one after the first packet of a WRITE.
WriteAddrEarly(pkt) == IF writtenlen = 0 THEN pkt.va ELSE pkt.va + writtenlen - 1

WriteAddr(pkt) == CASE WriteUnit(pkt).kind = "null" -> writtenlen
                    [] WriteUnit(pkt).kind = "iova" -> WriteUnit(pkt).va + writtenlen
                    [] OTHER -> -1     \* a pointer: no address of the MR

InMr(addr, len) == addr >= 0 /\ addr + len <= MemSize

Written(addr, pkt) ==
  [a \in 0 .. MemSize - 1 |-> IF a \in addr .. addr + pkt.len - 1
                          THEN Units(pkt)[a - addr + 1] ELSE mem[a]]

RdmaWritePayload(pkt, mapped) ==
  LET addr == WriteAddr(pkt)
      imm == pkt.op = "WRITE_IMM"
      mappable == mapped /\ InMr(addr, pkt.len)
      stored == InProcess(pkt) = (writtenlen # 0) /\ mappable
  IN
  \/ /\ InProcess(pkt) # (writtenlen # 0)                     \* -EPROTO
     /\ SendNak
     /\ UNCHANGED <<rq, rq_psn, resp_u, writtenlen, mem, received>>
  \/ /\ InProcess(pkt) = (writtenlen # 0)
     /\ ~mappable                                             \* -EACCES
     /\ resp_u' = WriteUnit(pkt)
     /\ Drop
     /\ UNCHANGED <<rq, writtenlen, mem, received>>
  \/ /\ stored /\ ~imm
     /\ mem' = Written(addr, pkt)
     /\ resp_u' = WriteUnit(pkt)
     /\ writtenlen' = writtenlen + pkt.len
     /\ Accept(pkt)
     /\ UNCHANGED <<rq, received>>
  \/ /\ stored /\ imm /\ rq = <<>>                            \* -EAGAIN
     /\ mem' = Written(addr, pkt)
     /\ resp_u' = WriteUnit(pkt)
     /\ writtenlen' = writtenlen + pkt.len
     /\ Drop
     /\ UNCHANGED <<rq, received>>
  \/ /\ stored /\ imm /\ rq # <<>>
     /\ mem' = Written(addr, pkt)
     /\ rq' = Tail(rq)
     /\ received' = Append(received,
                           [wr |-> Head(rq).id, op |-> pkt.op, msg |-> pkt.msg,
                            data |-> [i \in 1 .. writtenlen + pkt.len |->
                                        Written(addr, pkt)[addr - writtenlen + i - 1]]])
     /\ resp_u' = NullU
     /\ writtenlen' = 0
     /\ Accept(pkt)

(***************************************************************************)
(* roce_recv_rc for a request packet.  SEND WITH_INVALIDATE falls into the *)
(* unsupported opcodes.  The NAK of an out-of-sequence packet is sent once *)
(* until a packet with the expected PSN arrives.                           *)
(***************************************************************************)
DuplicatedRequest(pkt) ==
  /\ ComparePsn(rq_psn, pkt.psn) > 0
  /\ UNCHANGED resp_vars

OutOfSeq(pkt) ==
  /\ ComparePsn(rq_psn, pkt.psn) < 0
  /\ IF in_psn_nak THEN UNCHANGED ack_net ELSE SendNak
  /\ in_psn_nak' = TRUE
  /\ UNCHANGED <<rq, rq_psn, resp_u, writtenlen, mem, received, recv_posted,
                 resp_abort>>

\* Mutant: a later packet is taken for the expected one.
IsExpectedLater(pkt) == ComparePsn(rq_psn, pkt.psn) <= 0

IsExpected(pkt) == ComparePsn(rq_psn, pkt.psn) = 0

ExpectedRequest(pkt, mapped) ==
  /\ IsExpected(pkt)
  /\ in_psn_nak' = FALSE
  /\ UNCHANGED recv_posted
  /\ \/ /\ pkt.op \in {"SEND", "SEND_IMM"}
        /\ RecvPayload(pkt, mapped)
        /\ UNCHANGED <<writtenlen, mem>>
     \/ /\ pkt.op \in {"WRITE", "WRITE_IMM"}
        /\ RdmaWritePayload(pkt, mapped)
        /\ UNCHANGED resp_abort
     \/ /\ pkt.op = "SEND_INV"
        /\ UNCHANGED <<rq, rq_psn, resp_u, writtenlen, mem, received, ack_net,
                       resp_abort>>

RecvRc(pkt) ==
  /\ resp_abort = "none"
  /\ \/ DuplicatedRequest(pkt)
     \/ OutOfSeq(pkt)
     \/ \E mapped \in MapOutcomes : ExpectedRequest(pkt, mapped)

-----------------------------------------------------------------------------
RespInit(psn) ==
  /\ rq = [i \in 1 .. Len(Preposted) |-> NewRecvWr(i, Preposted[i])]
  /\ rq_psn = psn /\ in_psn_nak = FALSE
  /\ resp_u = NullU /\ writtenlen = 0
  /\ mem = [a \in 0 .. MemSize - 1 |-> Blank]
  /\ received = <<>> /\ recv_posted = Len(Preposted)
  /\ ack_net = <<>> /\ resp_abort = "none"
=============================================================================
