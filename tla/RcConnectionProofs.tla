------------------------- MODULE RcConnectionProofs -------------------------
(***************************************************************************)
(* What two connected QPs keep whatever the network loses, repeats or      *)
(* reorders.  The packets that were ever built are numbered without a      *)
(* width, from 0; their PSNs are these numbers modulo PsnMod, and tell     *)
(* them apart while there are fewer than half of PsnMod of them: a packet  *)
(* or an acknowledgement that the network keeps for longer is taken for a  *)
(* new one, by any receiver.                                               *)
(***************************************************************************)
EXTENDS RcConnection, RcRequesterProofs

\* The connection ends before half of the PSNs are used, so that none is met twice:
\* after 2^23 packets in the code.
PktsBound(k) == \A r \in Requests : NumPkts(r.len) <= k

ShortLived == \E k \in Nat : PktsBound(k) /\ MaxPosts * k < PsnHalf - 1

PktsPerWr == CHOOSE k \in Nat : PktsBound(k) /\ MaxPosts * k < PsnHalf - 1

LEMMA PktsPerWrBound ==
  ASSUME ShortLived
  PROVE  /\ PktsPerWr \in Nat /\ PktsBound(PktsPerWr)
         /\ MaxPosts * PktsPerWr < PsnHalf - 1
  BY DEF ShortLived, PktsPerWr

-----------------------------------------------------------------------------
(* Numbers and PSNs. *)

\* Numbers less than half of the PSNs apart are compared by roce_compare_psn as they
\* are.
LEMMA CompareNumbers ==
  ASSUME NEW b \in PSN, NEW i \in Int, NEW j \in Int,
         i - j < PsnHalf, j - i <= PsnHalf
  PROVE  ComparePsn(PsnAdd(b, i), PsnAdd(b, j)) = i - j
<1> DEFINE c == b + i
           d == b + j
           e == i - j + PsnHalf
           p == c \div PsnMod
           q == d \div PsnMod
           y == c % PsnMod
           z == d % PsnMod
<1>1. PsnMod \in Nat \ {0} /\ b \in Int /\ PsnHalf \in Int
  BY PsnAssumption, PsnHalfTwice DEF PSN
<1>2. c \in Int /\ d \in Int /\ c - d + PsnHalf = e
  BY <1>1
<1>3. e \in 0 .. PsnMod - 1
  <2>1. PsnHalf \in Nat /\ PsnMod = PsnHalf + PsnHalf
    BY PsnHalfTwice
  <2> QED
    BY <2>1
<1>4. ComparePsn(PsnAdd(b, i), PsnAdd(b, j)) = ((y - z + PsnHalf) % PsnMod) - PsnHalf
  BY DEF ComparePsn, PsnAdd
<1> HIDE DEF c, d
<1>5. p \in Int /\ y \in Int /\ c = PsnMod * p + y
  BY <1>1, <1>2, DivMod
<1>6. q \in Int /\ z \in Int /\ d = PsnMod * q + z
  BY <1>1, <1>2, DivMod
<1> HIDE DEF p, q, y, z, e
<1>7. q - p \in Int /\ PsnMod * p \in Int /\ PsnMod * q \in Int
  BY <1>1, <1>5, <1>6
<1>8. PsnMod * (q - p) = PsnMod * q - PsnMod * p
  BY <1>1, <1>5, <1>6
<1>9. y - z + PsnHalf = PsnMod * (q - p) + e
  BY <1>1, <1>2, <1>5, <1>6, <1>7, <1>8
<1>10. (PsnMod * (q - p) + e) % PsnMod = e
  BY <1>1, <1>3, <1>7, ModUnique
<1> QED
  BY <1>1, <1>4, <1>9, <1>10 DEF e

\* So equal PSNs are those of equal numbers.
LEMMA EqualNumbers ==
  ASSUME NEW b \in PSN, NEW i \in Int, NEW j \in Int,
         i - j < PsnHalf, j - i < PsnHalf, PsnAdd(b, i) = PsnAdd(b, j)
  PROVE  i = j
<1>1. ComparePsn(PsnAdd(b, i), PsnAdd(b, j)) = i - j
  BY CompareNumbers, PsnHalfTwice
<1>2. ComparePsn(PsnAdd(b, i), PsnAdd(b, i)) = i - i
  BY CompareNumbers, PsnHalfTwice
<1> QED
  BY <1>1, <1>2

\* The masked psn - 1 of a NAK.
LEMMA DecNumber ==
  ASSUME NEW b \in PSN, NEW j \in Int
  PROVE  PsnDec(PsnAdd(b, j)) = PsnAdd(b, j - 1)
<1> DEFINE c == b + (j - 1)
           one == 1
<1>1. PsnMod \in Nat \ {0} /\ b \in Int /\ c \in Int /\ one \in Int
  BY PsnAssumption DEF PSN
<1>2. PsnDec(PsnAdd(b, j)) = PsnAdd(b, j + (PsnMod - 1))
  BY <1>1, PsnAddAdd DEF PsnDec
<1>3. PsnMod * one + c = b + (j + (PsnMod - 1))
  BY <1>1
<1>4. PsnAdd(b, j - 1) = c % PsnMod
  BY DEF PsnAdd
<1> HIDE DEF c, one
<1>5. (PsnMod * one + c) % PsnMod = c % PsnMod
  BY <1>1, ModPlusMultiple
<1> QED
  BY <1>2, <1>3, <1>4, <1>5 DEF PsnAdd

LEMMA IncNumber ==
  ASSUME NEW b \in PSN, NEW j \in Int
  PROVE  PsnInc(PsnAdd(b, j)) = PsnAdd(b, j + 1)
  BY PsnAddAdd, PsnAssumption DEF PsnInc, PSN

\* More posted WRs are more packets.
LEMMA TimesMonotone ==
  ASSUME NEW m \in Nat, NEW n \in Nat, NEW k \in Nat, m <= n
  PROVE  m * k <= n * k /\ (m + 1) * k = m * k + k
<1>1. PICK d \in Nat : n = m + d
  OBVIOUS
<1>2. n * k = m * k + d * k /\ d * k \in Nat /\ m * k \in Nat
  BY <1>1
<1>3. (m + 1) * k = m * k + k
  OBVIOUS
<1> QED
  BY <1>2, <1>3

-----------------------------------------------------------------------------
(* The network. *)

\* What is left of the network when one of its packets is taken out.
LEMMA RemoveAtSeq ==
  ASSUME NEW S, NEW s \in Seq(S), NEW i \in DOMAIN s
  PROVE  /\ RemoveAt(s, i) \in Seq(S)
         /\ \A k \in 1 .. Len(RemoveAt(s, i)) :
              \E m \in 1 .. Len(s) : RemoveAt(s, i)[k] = s[m]
<1> DEFINE left == SubSeq(s, 1, i - 1)
           right == SubSeq(s, i + 1, Len(s))
<1>1. i \in 1 .. Len(s)
  OBVIOUS
<1>2. left \in Seq(S) /\ Len(left) = i - 1 /\ \A k \in 1 .. i - 1 : left[k] = s[k]
  BY <1>1
<1>3. right \in Seq(S) /\ Len(right) = Len(s) - i
      /\ \A k \in 1 .. Len(s) - i : right[k] = s[i + k]
  BY <1>1
<1>4. RemoveAt(s, i) = left \o right
  BY DEF RemoveAt
<1> HIDE DEF left, right
<1>5. left \o right \in Seq(S) /\ Len(left \o right) = Len(s) - 1
  BY <1>1, <1>2, <1>3, ConcatProperties
<1>6. ASSUME NEW k \in 1 .. Len(s) - 1
      PROVE  \E m \in 1 .. Len(s) : (left \o right)[k] = s[m]
  <2>1. k \in 1 .. Len(left) + Len(right)
    BY <1>1, <1>2, <1>3
  <2>2. (left \o right)[k] = IF k <= Len(left) THEN left[k] ELSE right[k - Len(left)]
    BY <2>1, <1>2, <1>3, ConcatProperties
  <2>3. CASE k <= i - 1
    <3>1. k \in 1 .. i - 1 /\ k \in 1 .. Len(s)
      BY <2>3, <1>1
    <3> QED
      BY <3>1, <2>2, <2>3, <1>2
  <2>4. CASE ~(k <= i - 1)
    <3>1. PICK m \in 1 .. Len(s) - i : m = k - (i - 1)
      BY <2>4, <1>1
    <3>2. (left \o right)[k] = right[m]
      BY <2>2, <2>4, <3>1, <1>1, <1>2
    <3>3. i + m \in 1 .. Len(s)
      BY <3>1, <1>1
    <3> QED
      BY <3>1, <3>2, <3>3, <1>3
  <2> QED
    BY ONLY <2>3, <2>4
<1> QED
  BY <1>4, <1>5, <1>6

LEMMA ElementOf ==
  ASSUME NEW S, NEW s \in Seq(S), NEW i \in DOMAIN s
  PROVE  s[i] \in S /\ Append(s, s[i]) \in Seq(S)
  OBVIOUS

\* Two lists joined.
LEMMA Joined ==
  ASSUME NEW S, NEW u \in Seq(S), NEW v \in Seq(S), NEW w, w = u \o v
  PROVE  /\ w \in Seq(S) /\ Len(w) = Len(u) + Len(v) /\ Len(u) <= Len(w)
         /\ \A m \in 1 .. Len(u) : m \in 1 .. Len(w) /\ w[m] = u[m]
         /\ \A m \in 1 .. Len(v) : Len(u) + m \in 1 .. Len(w) /\ w[Len(u) + m] = v[m]
         /\ \A k \in 1 .. Len(w) : \/ \E m \in 1 .. Len(u) : w[k] = u[m]
                                  \/ \E m \in 1 .. Len(v) : w[k] = v[m]
<1>1. /\ w \in Seq(S) /\ Len(w) = Len(u) + Len(v) /\ Len(u) \in Nat /\ Len(v) \in Nat
      /\ \A k \in 1 .. Len(u) + Len(v) : w[k] = IF k <= Len(u) THEN u[k] ELSE v[k - Len(u)]
  BY ConcatProperties
<1>2. ASSUME NEW m \in 1 .. Len(v)
      PROVE  Len(u) + m \in 1 .. Len(w) /\ w[Len(u) + m] = v[m]
  <2>1. /\ Len(u) + m \in 1 .. Len(w) /\ ~(Len(u) + m <= Len(u))
        /\ (Len(u) + m) - Len(u) = m
    BY <1>1
  <2> QED
    BY <2>1, <1>1
<1>3. ASSUME NEW k \in 1 .. Len(w)
      PROVE  \/ \E m \in 1 .. Len(u) : w[k] = u[m]
             \/ \E m \in 1 .. Len(v) : w[k] = v[m]
  <2>1. CASE k <= Len(u)
    BY <1>1, <2>1
  <2>2. CASE ~(k <= Len(u))
    <3>1. k - Len(u) \in 1 .. Len(v)
      BY <1>1, <2>2
    <3> QED
      BY <3>1, <1>1, <2>2
  <2> QED
    BY <2>1, <2>2
<1> QED
  BY ONLY <1>1, <1>2, <1>3

LEMMA AppendElems ==
  ASSUME NEW S, NEW s \in Seq(S), NEW e \in S
  PROVE  /\ Append(s, e) \in Seq(S)
         /\ \A k \in 1 .. Len(Append(s, e)) :
              Append(s, e)[k] = e \/ \E m \in 1 .. Len(s) : Append(s, e)[k] = s[m]
  OBVIOUS

\* The requester does not depend on what the network holds.
LEMMA NetInv ==
  ASSUME ReqInv, req_net' \in Seq(Packet), UNCHANGED <<queues, ack, history, abort>>
  PROVE  ReqInv'
  BY DEF ReqInv, ReqTypeOK, PsnContiguous, WindowKept, LoopHasPacket, Marked, Queued,
         queues, history

-----------------------------------------------------------------------------
(* Types. *)

\* The responder's and the network's part of ConnTypeOK.
RespTypes ==
  /\ rq_psn \in PSN
  /\ in_psn_nak \in BOOLEAN
  /\ resp_u.kind \in {"null", "wr", "iova"}
  /\ writtenlen \in Nat
  /\ ack_net \in Seq([nak : BOOLEAN, psn : PSN])
  /\ resp_abort \in {"none", "sge_len"}
  /\ lost \in 0 .. MaxLost /\ dup \in 0 .. MaxDup

TypeInv == ReqInv /\ RespTypes

\* What a variant of the union is.
LEMMA Kinds ==
  /\ NullU.kind = "null"
  /\ \A wr : WrU(wr).kind = "wr" /\ WrU(wr) # NullU /\ WrU(wr).wr = wr
  /\ \A va : IovaU(va).kind \in {"null", "iova"}
  BY DEF NullU, WrU, IovaU

\* A packet of the network reaches the responder.
LEMMA RecvRcTypes ==
  ASSUME RespTypes, NEW pkt \in Packet, RecvRc(pkt), UNCHANGED <<lost, dup>>
  PROVE  RespTypes'
<1>1. pkt.psn \in PSN /\ pkt.len \in Nat
  BY DEF Packet
<1>2. PsnInc(rq_psn) \in PSN
  <2>1. rq_psn \in PSN
    BY DEF RespTypes
  <2>2. rq_psn \in Int
    BY <2>1, PsnAssumption DEF PSN
  <2> QED
    BY <2>2, PsnAddType DEF PsnInc
<1> DEFINE Acks == [nak : BOOLEAN, psn : PSN]
<1>3. /\ [nak |-> FALSE, psn |-> pkt.psn] \in Acks
      /\ [nak |-> TRUE, psn |-> rq_psn] \in Acks
      /\ ack_net \in Seq(Acks)
  BY <1>1 DEF RespTypes
<1> HIDE DEF Acks
<1>4. /\ SendAck(pkt.psn) => ack_net' \in Seq(Acks)
      /\ SendNak => ack_net' \in Seq(Acks)
  <2>1. ASSUME NEW x \in Acks, ack_net' = Append(ack_net, x) PROVE ack_net' \in Seq(Acks)
    BY ONLY <1>3, <2>1, AppendProperties
  <2> QED
    BY <1>3, <2>1 DEF SendAck, SendNak
<1> USE DEF Acks
<1>5. /\ Accept(pkt) => /\ ack_net' \in Seq([nak : BOOLEAN, psn : PSN])
                        /\ rq_psn' \in PSN
      /\ Drop => ack_net' = ack_net /\ rq_psn' = rq_psn
  BY <1>2, <1>4 DEF Accept, Drop, RespTypes
<1>6. CASE DuplicatedRequest(pkt)
  BY <1>6 DEF DuplicatedRequest, resp_vars, RespTypes
<1>7. CASE OutOfSeq(pkt)
  BY <1>7, <1>4 DEF OutOfSeq, RespTypes
<1>8. ASSUME NEW mapped, ExpectedRequest(pkt, mapped) PROVE RespTypes'
  <2>1. CASE /\ RecvPayload(pkt, mapped) /\ UNCHANGED <<writtenlen, mem>>
             /\ in_psn_nak' = FALSE
    <3>1. /\ resp_u' = resp_u \/ resp_u' = NullU \/ \E wr : resp_u' = WrU(wr)
          /\ Drop \/ Accept(pkt)
          /\ resp_abort' = resp_abort \/ resp_abort' = "sge_len"
      BY <2>1 DEF RecvPayload
    <3> QED
      BY <3>1, <2>1, <1>5, Kinds DEF RespTypes
  <2>2. CASE /\ RdmaWritePayload(pkt, mapped) /\ UNCHANGED resp_abort
             /\ in_psn_nak' = FALSE
    <3>1. /\ resp_u' = resp_u \/ resp_u' = NullU \/ resp_u' = WriteUnit(pkt)
          /\ Drop \/ Accept(pkt) \/ (SendNak /\ rq_psn' = rq_psn)
          /\ writtenlen' \in {writtenlen, 0, writtenlen + pkt.len}
      BY <2>2 DEF RdmaWritePayload
    <3>2. WriteUnit(pkt).kind \in {"null", "wr", "iova"}
      BY Kinds DEF WriteUnit, RespTypes
    <3>3. writtenlen' \in Nat
      BY <3>1, <1>1 DEF RespTypes
    <3> QED
      BY <3>1, <3>2, <3>3, <2>2, <1>4, <1>5, Kinds DEF RespTypes
  <2>3. CASE /\ UNCHANGED <<rq_psn, resp_u, writtenlen, ack_net, resp_abort>>
             /\ in_psn_nak' = FALSE
    BY <2>3 DEF RespTypes
  <2> QED
    BY <1>8, <2>1, <2>2, <2>3 DEF ExpectedRequest
<1> QED
  BY <1>6, <1>7, <1>8 DEF RecvRc

\* Each step of the requester is one of RcRequester.
LEMMA ReqInvConn ==
  ASSUME TypeInv, [Next]_vars
  PROVE  ReqInv'
<1>1. ReqInv /\ req_net \in Seq(Packet) /\ ack_net \in Seq([nak : BOOLEAN, psn : PSN])
  BY DEF TypeInv, ReqInv, ReqTypeOK, RespTypes
<1>2. ASSUME NEW r \in Requests, Post(r) PROVE ReqInv'
  BY <1>1, <1>2, PostSendInv DEF Post
<1>3. ASSUME NEW i \in DOMAIN ack_net, DeliverAck(i) PROVE ReqInv'
  <2>1. ack_net[i] \in [nak : BOOLEAN, psn : PSN]
    BY <1>1, ElementOf
  <2>2. ack_net[i].nak \in BOOLEAN /\ ack_net[i].psn \in PSN
    BY <2>1
  <2> QED
    BY <1>1, <1>3, <2>2, HandleAcknowledgeInv DEF DeliverAck
<1>4. ASSUME AckLoop PROVE ReqInv'
  BY <1>1, <1>4, AckOneInv, AckDoneInv DEF AckLoop
<1>5. ASSUME req_net' \in Seq(Packet), UNCHANGED <<queues, ack, history, abort>>
      PROVE  ReqInv'
  BY <1>1, <1>5, NetInv
<1>6. ASSUME NEW cap, Recv(cap) PROVE ReqInv'
  BY <1>1, <1>5, <1>6 DEF Recv, req_vars, queues, history
<1>7. ASSUME NEW i \in DOMAIN req_net, DeliverRequest(i) PROVE ReqInv'
  BY <1>1, <1>5, <1>7, RemoveAtSeq DEF DeliverRequest, queues, history
<1>8. ASSUME Lose PROVE ReqInv'
  <2>1. req_net' = req_net \/ \E i \in DOMAIN req_net : req_net' = RemoveAt(req_net, i)
    BY <1>8 DEF Lose
  <2>2. req_net' \in Seq(Packet)
    BY <1>1, <2>1, RemoveAtSeq
  <2> QED
    BY <1>5, <1>8, <2>2 DEF Lose
<1>9. ASSUME Duplicate PROVE ReqInv'
  <2>1. req_net' = req_net \/ \E i \in DOMAIN req_net : req_net' = Append(req_net, req_net[i])
    BY <1>9 DEF Duplicate
  <2>2. req_net' \in Seq(Packet)
    BY <1>1, <2>1
  <2> QED
    BY <1>5, <1>9, <2>2 DEF Duplicate
<1>10. CASE UNCHANGED vars
  BY <1>1, <1>5, <1>10 DEF vars, req_vars, queues, history
<1> QED
  BY <1>2, <1>3, <1>4, <1>6, <1>7, <1>8, <1>9, <1>10 DEF Next, Deliverable

LEMMA RespTypesConn ==
  ASSUME TypeInv, [Next]_vars
  PROVE  RespTypes'
<1> DEFINE Acks == [nak : BOOLEAN, psn : PSN]
<1>1. RespTypes /\ req_net \in Seq(Packet) /\ ack_net \in Seq(Acks)
  BY DEF TypeInv, ReqInv, ReqTypeOK, RespTypes
<1>2. ASSUME NEW i \in DOMAIN req_net, DeliverRequest(i) PROVE RespTypes'
  <2>1. req_net[i] \in Packet
    BY <1>1
  <2> QED
    BY <1>1, <1>2, <2>1, RecvRcTypes DEF DeliverRequest
<1> DEFINE Others == UNCHANGED <<rq_psn, in_psn_nak, resp_u, writtenlen, resp_abort>>
<1>3. ASSUME Others, ack_net' \in Seq(Acks), lost' \in 0 .. MaxLost, dup' \in 0 .. MaxDup
      PROVE  RespTypes'
  BY <1>1, <1>3 DEF RespTypes
<1>4. UNCHANGED <<ack_net, lost, dup>> =>
        ack_net' \in Seq(Acks) /\ lost' \in 0 .. MaxLost /\ dup' \in 0 .. MaxDup
  BY <1>1 DEF RespTypes
<1>5. ASSUME NEW r, Post(r) PROVE RespTypes'
  BY <1>3, <1>4, <1>5 DEF Post, resp_vars
<1>6. ASSUME NEW cap, Recv(cap) PROVE RespTypes'
  BY <1>3, <1>4, <1>6 DEF Recv, PostRecv
<1>7. ASSUME AckLoop PROVE RespTypes'
  BY <1>3, <1>4, <1>7 DEF AckLoop, resp_vars
<1>8. CASE UNCHANGED vars
  BY <1>3, <1>4, <1>8 DEF vars, resp_vars
<1>9. ASSUME NEW i \in DOMAIN ack_net, DeliverAck(i) PROVE RespTypes'
  <2>1. ack_net' \in Seq(Acks)
    BY <1>1, <1>9, RemoveAtSeq DEF DeliverAck
  <2> HIDE DEF Acks
  <2> QED
    BY <1>1, <1>3, <1>9, <2>1 DEF DeliverAck, RespTypes
<1>10. ASSUME Lose PROVE RespTypes'
  <2>1. ack_net' = ack_net \/ \E i \in DOMAIN ack_net : ack_net' = RemoveAt(ack_net, i)
    BY <1>10 DEF Lose
  <2>2. ack_net' \in Seq(Acks)
    BY <1>1, <2>1, RemoveAtSeq
  <2>3. lost' \in 0 .. MaxLost /\ dup' \in 0 .. MaxDup
    BY <1>1, <1>10, NetworkAssumption DEF Lose, RespTypes
  <2> QED
    BY <1>3, <1>10, <2>2, <2>3 DEF Lose
<1>11. ASSUME Duplicate PROVE RespTypes'
  <2>1. ack_net' = ack_net \/ \E i \in DOMAIN ack_net : ack_net' = Append(ack_net, ack_net[i])
    BY <1>11 DEF Duplicate
  <2> HIDE DEF Acks
  <2>2. ack_net' \in Seq(Acks)
    BY <1>1, <2>1, ElementOf
  <2>3. lost' \in 0 .. MaxLost /\ dup' \in 0 .. MaxDup
    BY <1>1, <1>11, NetworkAssumption DEF Duplicate, RespTypes
  <2> QED
    BY <1>3, <1>11, <2>2, <2>3 DEF Duplicate
<1> HIDE DEF Acks, Others
<1> QED
  BY <1>2, <1>5, <1>6, <1>7, <1>8, <1>9, <1>10, <1>11 DEF Next, Deliverable

LEMMA TypeInvStep == TypeInv /\ [Next]_vars => TypeInv'
  BY ReqInvConn, RespTypesConn DEF TypeInv

LEMMA TypeInvInit == Init => TypeInv
<1> SUFFICES ASSUME Init PROVE TypeInv
  OBVIOUS
<1>1. ReqInv
  BY ReqInvInit DEF Init
<1>2. sq_psn \in PSN
  BY <1>1 DEF ReqInv, ReqTypeOK
<1>3. 0 \in 0 .. MaxLost /\ 0 \in 0 .. MaxDup
  BY NetworkAssumption
<1>4. rq_psn = sq_psn /\ in_psn_nak = FALSE /\ resp_u = NullU /\ writtenlen = 0
      /\ ack_net = <<>> /\ resp_abort = "none" /\ lost = 0 /\ dup = 0
  BY DEF Init, RespInit
<1>5. ack_net \in Seq([nak : BOOLEAN, psn : PSN])
  BY <1>4
<1>6. resp_u.kind = "null"
  BY <1>4, Kinds
<1>7. RespTypes
  BY <1>2, <1>3, <1>4, <1>5, <1>6 DEF RespTypes
<1> QED
  BY <1>1, <1>7 DEF TypeInv

\* The fields of both QPs and of what is in the network keep their types, whatever is
\* lost, repeated or reordered and for however long; what the requester guarantees
\* against any acknowledgement it guarantees here.
THEOREM ConnTypes == Spec => []ConnTypeOK
<1>1. TypeInv => ConnTypeOK
  BY DEF TypeInv, RespTypes, ReqInv, ConnTypeOK
<1> QED
  BY <1>1, TypeInvInit, TypeInvStep, PTL DEF Spec

-----------------------------------------------------------------------------
(* What roce_xmit_pkts hands to the network. *)

\* Packets move to the outgoing list, and the network gets none but those in it.
SentMore ==
  /\ Len(outgoing_pkts) <= Len(outgoing_pkts')
  /\ \A i \in 1 .. Len(req_net') :
       \/ \E m \in 1 .. Len(req_net) : req_net'[i] = req_net[m]
       \/ \E m \in 1 .. Len(outgoing_pkts') : req_net'[i] = outgoing_pkts'[m]

LEMMA XmitNet ==
  ASSUME NEW p \in PSN, NEW rpsn, outgoing_pkts \in Seq(Packet),
         NEW pend \in Seq(Packet), NEW resent \in {<<>>, outgoing_pkts},
         req_net \in Seq(Packet), NumberedFrom(p, outgoing_pkts \o pend),
         Len(outgoing_pkts) <= MaxOutgoing + 1,
         XmitPkts(p, rpsn, outgoing_pkts, pend, resent)
  PROVE  SentMore
<1> DEFINE n == XmitCount(p, outgoing_pkts, pend)
           now == SubSeq(pend, 1, n)
<1>1. n \in 0 .. Len(pend)
  BY XmitFillsWindow
<1>2. now \in Seq(Packet) /\ resent \in Seq(Packet) /\ <<>> \in Seq(Packet)
  <2>1. now \in Seq(Packet)
    <3> HIDE DEF n
    <3> QED
      BY <1>1, MovePackets
  <2> HIDE DEF now
  <2>2. <<>> \in Seq(Packet)
    OBVIOUS
  <2>3. resent \in Seq(Packet)
    BY <2>2
  <2> QED
    BY <2>1, <2>2, <2>3
<1>3. PICK more \in {<<>>, now} :
        /\ outgoing_pkts' = outgoing_pkts \o more
        /\ \/ req_net' = req_net \o resent /\ more = <<>>
           \/ req_net' = (req_net \o resent) \o more
  <2>1. CASE XmitAssertion(p, rpsn, outgoing_pkts) # "none"
    <3>1. outgoing_pkts' = outgoing_pkts /\ req_net' = req_net \o resent
      BY <2>1 DEF XmitPkts
    <3>2. outgoing_pkts \o <<>> = outgoing_pkts
      OBVIOUS
    <3> QED
      BY <3>1, <3>2
  <2>2. CASE XmitAssertion(p, rpsn, outgoing_pkts) = "none"
    <3>1. /\ outgoing_pkts' = outgoing_pkts \o now
          /\ req_net' = req_net \o resent \o now
      BY <2>2 DEF XmitPkts
    <3> QED
      BY <3>1
  <2> QED
    BY <2>1, <2>2
<1> HIDE DEF n, now
<1>4. more \in Seq(Packet) /\ req_net \o resent \in Seq(Packet)
  <2>1. more \in Seq(Packet)
    BY <1>2, <1>3
  <2> QED
    BY <2>1, <1>2, ConcatProperties
<1>5. /\ Len(outgoing_pkts) <= Len(outgoing_pkts')
      /\ \A m \in 1 .. Len(outgoing_pkts) :
           m \in 1 .. Len(outgoing_pkts') /\ outgoing_pkts'[m] = outgoing_pkts[m]
      /\ \A m \in 1 .. Len(more) :
           /\ Len(outgoing_pkts) + m \in 1 .. Len(outgoing_pkts')
           /\ outgoing_pkts'[Len(outgoing_pkts) + m] = more[m]
  <2>1. outgoing_pkts' = outgoing_pkts \o more
    BY <1>3
  <2> QED
    BY <2>1, <1>4, Joined
<1> DEFINE Known(e) == \/ \E m \in 1 .. Len(req_net) : e = req_net[m]
                       \/ \E m \in 1 .. Len(outgoing_pkts') : e = outgoing_pkts'[m]
<1>6. \A m \in 1 .. Len(req_net) : Known(req_net[m])
  OBVIOUS
<1>7. (\A m \in 1 .. Len(resent) : Known(resent[m])) /\ (\A m \in 1 .. Len(more) : Known(more[m]))
  BY <1>5
<1> HIDE DEF Known
<1>8. PICK both : both = req_net \o resent
  OBVIOUS
<1>9. both \in Seq(Packet) /\ \A i \in 1 .. Len(both) : Known(both[i])
  BY <1>2, <1>6, <1>7, <1>8, Joined
<1>10. \A i \in 1 .. Len(req_net') : Known(req_net'[i])
  <2>1. CASE req_net' = both
    BY <2>1, <1>9
  <2>2. CASE req_net' = both \o more
    BY <2>2, <1>4, <1>7, <1>9, Joined
  <2> QED
    BY <2>1, <2>2, <1>3, <1>8
<1> QED
  BY <1>5, <1>10 DEF SentMore, Known

-----------------------------------------------------------------------------
(* Where both sides are in the sequence of packets. *)

\* Number a is that of the oldest packet the requester keeps, r that of the packet the
\* responder expects; number 0 has the PSN b.
Numbered(b, a, r) ==
  /\ sq_psn = PsnAdd(b, a) /\ rq_psn = PsnAdd(b, r)
  /\ a <= r /\ r <= a + Len(outgoing_pkts)
  /\ a + Len(Queued) <= Len(posted) * PktsPerWr
  /\ Len(posted) <= MaxPosts

\* A packet in the network was sent; one that is still kept is there as it is kept.
InFlight(b, a) ==
  \A i \in 1 .. Len(req_net) :
    \E j \in 0 .. a + Len(outgoing_pkts) - 1 :
      /\ req_net[i].psn = PsnAdd(b, j)
      /\ j >= a => req_net[i] = Queued[j - a + 1]

\* Nothing was acknowledged that the responder has not accepted.
AcksBehind(b, r) ==
  \A i \in 1 .. Len(ack_net) :
    \E j \in 0 .. r : ack_net[i].psn = PsnAdd(b, j) /\ (ack_net[i].nak \/ j < r)

LoopBehind(b, r) == ack.on => \E j \in -1 .. r - 1 : ack.psn = PsnAdd(b, j)

Place(b, a, r) ==
  Numbered(b, a, r) /\ InFlight(b, a) /\ AcksBehind(b, r) /\ LoopBehind(b, r)

\* All numbers are less than half of the PSNs apart.
LEMMA FewNumbers ==
  ASSUME ShortLived, TypeInv, NEW b \in PSN, NEW a \in Nat, NEW r \in Nat,
         Numbered(b, a, r)
  PROVE  /\ a + Len(Queued) < PsnHalf - 1 /\ PsnHalf \in Nat
         /\ r <= a + Len(Queued) /\ Len(outgoing_pkts) <= Len(Queued)
         /\ Len(outgoing_pkts) \in Nat /\ Len(Queued) \in Nat
         /\ outgoing_pkts \in Seq(Packet) /\ pending_pkts \in Seq(Packet)
         /\ Queued \in Seq(Packet)
         /\ \A m \in 1 .. Len(outgoing_pkts) :
              m \in 1 .. Len(Queued) /\ Queued[m] = outgoing_pkts[m]
<1>1. outgoing_pkts \in Seq(Packet) /\ pending_pkts \in Seq(Packet) /\ posted \in Seq(SendWR)
  BY DEF TypeInv, ReqInv, ReqTypeOK
<1>2. Queued = outgoing_pkts \o pending_pkts
  BY DEF Queued
<1>3. /\ Queued \in Seq(Packet) /\ Len(outgoing_pkts) <= Len(Queued)
      /\ \A m \in 1 .. Len(outgoing_pkts) :
           m \in 1 .. Len(Queued) /\ Queued[m] = outgoing_pkts[m]
  BY <1>1, <1>2, Joined
<1>4. Len(posted) * PktsPerWr <= MaxPosts * PktsPerWr
  <2>1. Len(posted) \in Nat /\ MaxPosts \in Nat /\ Len(posted) <= MaxPosts /\ PktsPerWr \in Nat
    BY <1>1, PktsPerWrBound, RequesterAssumption DEF Numbered
  <2> QED
    BY <2>1, TimesMonotone
<1>5. /\ Len(posted) * PktsPerWr \in Nat /\ MaxPosts * PktsPerWr \in Nat
      /\ Len(posted) \in Nat /\ Len(Queued) \in Nat /\ Len(outgoing_pkts) \in Nat
  BY <1>1, <1>3, PktsPerWrBound, RequesterAssumption
<1>6. PsnHalf \in Nat /\ MaxPosts * PktsPerWr < PsnHalf - 1
  BY PktsPerWrBound, PsnHalfTwice
<1>7. a + Len(Queued) < PsnHalf - 1
  BY <1>4, <1>5, <1>6 DEF Numbered
<1> QED
  BY <1>1, <1>3, <1>5, <1>6, <1>7 DEF Numbered

\* Packet m of those kept has the number a + m - 1.
LEMMA QueuedNumber ==
  ASSUME ReqInv, NEW b \in PSN, NEW a \in Nat, sq_psn = PsnAdd(b, a),
         NEW m \in 1 .. Len(Queued)
  PROVE  Queued[m].psn = PsnAdd(b, a + (m - 1))
<1>1. Queued[m].psn = PsnAdd(sq_psn, m - 1)
  BY DEF ReqInv, PsnContiguous
<1>2. b \in Int /\ m - 1 \in Int
  BY PsnAssumption DEF PSN
<1> QED
  BY <1>1, <1>2, PsnAddAdd

\* The queue grows at its end, and what is sent is in it.
LEMMA InFlightKept ==
  ASSUME ReqInv', NEW b \in PSN, NEW a \in Nat, InFlight(b, a), SentMore,
         Len(outgoing_pkts) \in Nat,
         outgoing_pkts' \in Seq(Packet), pending_pkts' \in Seq(Packet),
         \A m \in 1 .. Len(outgoing_pkts) : Queued'[m] = Queued[m],
         sq_psn' = PsnAdd(b, a)
  PROVE  InFlight(b, a)'
<1> DEFINE Kept(e) == \E j \in 0 .. a + Len(outgoing_pkts') - 1 :
                        e.psn = PsnAdd(b, j) /\ (j >= a => e = Queued'[j - a + 1])
<1>1. Len(outgoing_pkts') \in Nat /\ Len(outgoing_pkts) <= Len(outgoing_pkts')
  BY DEF SentMore
<1>2. ASSUME NEW m \in 1 .. Len(req_net) PROVE Kept(req_net[m])
  <2>1. PICK j \in 0 .. a + Len(outgoing_pkts) - 1 :
          req_net[m].psn = PsnAdd(b, j) /\ (j >= a => req_net[m] = Queued[j - a + 1])
    BY DEF InFlight
  <2>2. j \in 0 .. a + Len(outgoing_pkts') - 1
    BY <1>1
  <2>3. j >= a => j - a + 1 \in 1 .. Len(outgoing_pkts)
    OBVIOUS
  <2>4. j >= a => req_net[m] = Queued'[j - a + 1]
    BY <2>1, <2>3
  <2> QED
    BY <2>1, <2>2, <2>4
<1>3. ASSUME NEW m \in 1 .. Len(outgoing_pkts') PROVE Kept(outgoing_pkts'[m])
  <2>1. m \in 1 .. Len(Queued') /\ Queued'[m] = outgoing_pkts'[m]
    BY Joined DEF Queued
  <2>2. Queued'[m].psn = PsnAdd(b, a + (m - 1))
    <3>1. Queued'[m].psn = PsnAdd(sq_psn', m - 1)
      BY <2>1 DEF ReqInv, PsnContiguous
    <3>2. b \in Int /\ m - 1 \in Int
      BY PsnAssumption DEF PSN
    <3> QED
      BY <3>1, <3>2, PsnAddAdd
  <2>3. PICK j \in 0 .. a + Len(outgoing_pkts') - 1 : j = a + (m - 1) /\ j - a + 1 = m
    BY <1>1
  <2> QED
    BY <2>1, <2>2, <2>3
<1> HIDE DEF Kept
<1>4. \A i \in 1 .. Len(req_net') : Kept(req_net'[i])
  BY <1>2, <1>3 DEF SentMore
<1> QED
  BY <1>4 DEF InFlight, Kept

\* roce_post_send adds the packets of the WR at the end.
LEMMA PostQueue ==
  ASSUME ReqInv, NEW w \in Requests, PostSend(w)
  PROVE  /\ UNCHANGED <<sq_psn, ack>> /\ Len(posted) < MaxPosts
         /\ NewWr(w) \in SendWR
         /\ \/ UNCHANGED <<outgoing_pkts, pending_pkts, req_net, posted>>
            \/ /\ Queued' = Queued \o NewPkts(w) /\ posted' = Append(posted, NewWr(w))
               /\ \/ NewPkts(w) = <<>>
                  \/ w.op \in PacketOps /\ NewPkts(w) = RcBuildPkts(NewWr(w), req_psn)
               /\ NewPkts(w) \in Seq(Packet) /\ SentMore
<1>1. w \in RequestSet /\ posted \in Seq(SendWR)
  BY RequesterAssumption DEF ReqInv, ReqTypeOK
<1>2. NewWr(w) \in SendWR /\ NewWr(w).op = w.op
  BY <1>1 DEF NewWr, RequestSet, SendWR
<1>3. UNCHANGED <<sq_psn, ack>> /\ Len(posted) < MaxPosts
  BY DEF PostSend
<1>4. CASE NewPkts(w) # <<>> /\ w.fault = "map"
  <2>1. UNCHANGED <<outgoing_pkts, pending_pkts, req_net, posted>>
    BY <1>4 DEF PostSend, NewPkts, NewWr
  <2> QED
    BY <2>1, <1>2, <1>3
<1>5. CASE ~(NewPkts(w) # <<>> /\ w.fault = "map")
  <2>1. /\ posted' = Append(posted, NewWr(w)) /\ abort = "none"
        /\ XmitPkts(sq_psn, PsnAdd(req_psn, Len(NewPkts(w))), outgoing_pkts,
                    pending_pkts \o NewPkts(w), <<>>)
    BY <1>5 DEF PostSend, NewPkts, NewWr
  <2>2. /\ sq_psn \in PSN /\ req_psn \in PSN
        /\ outgoing_pkts \in Seq(Packet) /\ pending_pkts \in Seq(Packet)
        /\ req_net \in Seq(Packet) /\ Len(outgoing_pkts) <= MaxOutgoing + 1
    BY DEF ReqInv, ReqTypeOK, WindowKept
  <2>3. \/ NewPkts(w) = <<>>
        \/ w.op \in PacketOps /\ NewPkts(w) = RcBuildPkts(NewWr(w), req_psn)
    BY DEF NewPkts
  <2>4. NewPkts(w) \in Seq(Packet) /\ NumberedFrom(req_psn, NewPkts(w))
    <3>1. CASE w.op \in PacketOps /\ NewPkts(w) = RcBuildPkts(NewWr(w), req_psn)
      BY <3>1, <1>2, <2>2, BuildPkts DEF NumberedFrom
    <3>2. CASE NewPkts(w) = <<>>
      BY <3>2 DEF NumberedFrom
    <3> QED
      BY <3>1, <3>2, <2>3
  <2>5. Queued \o NewPkts(w) = outgoing_pkts \o (pending_pkts \o NewPkts(w))
    BY ONLY <2>2, <2>4, ConcatAssociative DEF Queued
  <2>6. NumberedFrom(sq_psn, Queued \o NewPkts(w))
    <3>1. /\ NumberedFrom(sq_psn, Queued) /\ Queued \in Seq(Packet)
          /\ req_psn = PsnAdd(sq_psn, Len(Queued))
      BY <2>2 DEF ReqInv, PsnContiguous, NumberedFrom, Queued
    <3>2. NumberedFrom(PsnAdd(sq_psn, Len(Queued)), NewPkts(w))
      BY <3>1, <2>4
    <3> QED
      BY <3>1, <3>2, <2>2, <2>4, AppendNumbered
  <2>7. pending_pkts \o NewPkts(w) \in Seq(Packet) /\ <<>> \in Seq(Packet)
    BY <2>2, <2>4
  <2>8. NumberedFrom(sq_psn, outgoing_pkts \o (pending_pkts \o NewPkts(w)))
    BY <2>5, <2>6
  <2>9. outgoing_pkts' \o pending_pkts' = outgoing_pkts \o (pending_pkts \o NewPkts(w))
    BY <2>1, <2>2, <2>7, <2>8, XmitPktsEffect
  <2>10. SentMore
    BY <2>1, <2>2, <2>7, <2>8, XmitNet
  <2> QED
    BY <1>2, <1>3, <2>1, <2>3, <2>4, <2>5, <2>9, <2>10 DEF Queued
<1> QED
  BY <1>4, <1>5

LEMMA PostPlace ==
  ASSUME ShortLived, TypeInv, TypeInv', NEW b \in PSN, NEW a \in Nat, NEW r \in Nat,
         Place(b, a, r), NEW w \in Requests, Post(w)
  PROVE  Place(b, a, r)'
<1>1. ReqInv /\ ReqInv' /\ Numbered(b, a, r) /\ InFlight(b, a)
  BY DEF TypeInv, Place
<1>2. PostSend(w) /\ UNCHANGED <<rq_psn, ack_net, ack>>
  BY DEF Post, resp_vars, PostSend
<1>3. (AcksBehind(b, r) /\ LoopBehind(b, r))'
  BY <1>2 DEF Place, AcksBehind, LoopBehind
<1>4. CASE UNCHANGED <<outgoing_pkts, pending_pkts, req_net, posted>>
  <2>1. UNCHANGED sq_psn /\ Queued' = Queued
    BY <1>1, <1>2, <1>4, PostQueue DEF Queued
  <2> QED
    BY <1>1, <1>2, <1>3, <1>4, <2>1 DEF Place, Numbered, InFlight
<1>5. CASE ~UNCHANGED <<outgoing_pkts, pending_pkts, req_net, posted>>
  <2>1. /\ UNCHANGED <<sq_psn, ack>> /\ Len(posted) < MaxPosts /\ NewWr(w) \in SendWR
        /\ Queued' = Queued \o NewPkts(w) /\ posted' = Append(posted, NewWr(w))
        /\ \/ NewPkts(w) = <<>>
           \/ w.op \in PacketOps /\ NewPkts(w) = RcBuildPkts(NewWr(w), req_psn)
        /\ NewPkts(w) \in Seq(Packet) /\ SentMore
    BY <1>1, <1>2, <1>5, PostQueue
  <2>2. /\ Queued \in Seq(Packet) /\ Len(outgoing_pkts) \in Nat
        /\ \A m \in 1 .. Len(outgoing_pkts) : m \in 1 .. Len(Queued)
    BY <1>1, FewNumbers
  <2>3. /\ Len(Queued') = Len(Queued) + Len(NewPkts(w))
        /\ \A m \in 1 .. Len(Queued) : Queued'[m] = Queued[m]
    BY <2>1, <2>2, Joined
  <2>4. outgoing_pkts' \in Seq(Packet) /\ pending_pkts' \in Seq(Packet)
        /\ posted \in Seq(SendWR) /\ req_psn \in PSN
    BY <1>1 DEF ReqInv, ReqTypeOK
  <2>5. InFlight(b, a)'
    <3>1. sq_psn' = PsnAdd(b, a)
      BY <1>1, <2>1 DEF Numbered
    <3> QED
      BY <1>1, <2>1, <2>2, <2>3, <2>4, <3>1, InFlightKept
  <2>6. Len(NewPkts(w)) \in Nat /\ Len(NewPkts(w)) <= PktsPerWr
    <3>1. CASE NewPkts(w) = <<>>
      BY <3>1, PktsPerWrBound
    <3>2. CASE w.op \in PacketOps /\ NewPkts(w) = RcBuildPkts(NewWr(w), req_psn)
      <4>1. NewWr(w).op = w.op /\ NewWr(w).len = w.len
        BY DEF NewWr
      <4>2. Len(NewPkts(w)) = NumPkts(w.len)
        BY <3>2, <2>1, <2>4, <4>1, BuildPkts
      <4> QED
        BY <4>2, <2>1, PktsPerWrBound DEF PktsBound
    <3> QED
      BY <2>1, <3>1, <3>2
  <2>7. Len(posted') * PktsPerWr = Len(posted) * PktsPerWr + PktsPerWr
        /\ Len(posted') <= MaxPosts /\ Len(posted) * PktsPerWr \in Nat /\ PktsPerWr \in Nat
    <3>1. Len(posted) \in Nat /\ Len(posted') = Len(posted) + 1 /\ PktsPerWr \in Nat
      BY <2>1, <2>4, PktsPerWrBound
    <3>2. Len(posted') <= MaxPosts
      BY <2>1, <3>1, RequesterAssumption
    <3>3. Len(posted') * PktsPerWr = Len(posted) * PktsPerWr + PktsPerWr
          /\ Len(posted) * PktsPerWr \in Nat
      BY <3>1, TimesMonotone
    <3> QED
      BY <3>1, <3>2, <3>3
  <2>8. Len(Queued) \in Nat /\ a + Len(Queued') <= Len(posted') * PktsPerWr
    <3>1. Len(Queued) \in Nat /\ Len(Queued') = Len(Queued) + Len(NewPkts(w))
      BY <2>2, <2>3
    <3>2. a \in Nat /\ a + Len(Queued) <= Len(posted) * PktsPerWr
      BY <1>1 DEF Numbered
    <3> QED
      BY ONLY <2>6, <2>7, <3>1, <3>2
  <2>9. Len(outgoing_pkts') \in Nat /\ Len(outgoing_pkts) <= Len(outgoing_pkts')
    BY <2>1, <2>4 DEF SentMore
  <2>10. Numbered(b, a, r)'
    BY <1>1, <1>2, <2>1, <2>2, <2>7, <2>8, <2>9 DEF Numbered
  <2> QED
    BY <1>3, <2>5, <2>10 DEF Place
<1> QED
  BY <1>4, <1>5

\* The end of roce_handle_ack and roce_handle_nak sends what is in the queue.
LEMMA AckDonePlace ==
  ASSUME ShortLived, TypeInv, TypeInv', NEW b \in PSN, NEW a \in Nat, NEW r \in Nat,
         Place(b, a, r), AckDone, UNCHANGED <<resp_vars, lost, dup>>
  PROVE  Place(b, a, r)' /\ Queued' = Queued
<1>1. ReqInv /\ ReqInv' /\ Numbered(b, a, r) /\ InFlight(b, a)
  BY DEF TypeInv, Place
<1>2. /\ abort = "none" /\ ack' = NoAck
      /\ XmitPkts(sq_psn, req_psn, outgoing_pkts, pending_pkts, Retransmitted)
      /\ UNCHANGED <<sq_psn, posted, rq_psn, ack_net>>
  BY DEF AckDone, history, resp_vars
<1>3. /\ sq_psn \in PSN /\ outgoing_pkts \in Seq(Packet) /\ pending_pkts \in Seq(Packet)
      /\ req_net \in Seq(Packet) /\ Len(outgoing_pkts) <= MaxOutgoing + 1
      /\ NumberedFrom(sq_psn, outgoing_pkts \o pending_pkts)
  BY <1>1 DEF ReqInv, ReqTypeOK, WindowKept, PsnContiguous, NumberedFrom, Queued
<1>4. Retransmitted \in {<<>>, outgoing_pkts} /\ Retransmitted \in Seq(Packet)
  BY <1>3 DEF Retransmitted
<1>5. Queued' = Queued
  BY <1>2, <1>3, <1>4, XmitPktsEffect DEF Queued
<1>6. SentMore
  BY <1>2, <1>3, <1>4, XmitNet
<1>7. outgoing_pkts' \in Seq(Packet) /\ pending_pkts' \in Seq(Packet)
  BY <1>1 DEF ReqInv, ReqTypeOK
<1>8. Len(outgoing_pkts) \in Nat /\ Len(outgoing_pkts') \in Nat
      /\ Len(outgoing_pkts) <= Len(outgoing_pkts')
  BY <1>3, <1>6, <1>7 DEF SentMore
<1>9. InFlight(b, a)'
  <2>1. sq_psn' = PsnAdd(b, a)
    BY <1>1, <1>2 DEF Numbered
  <2> QED
    BY <1>1, <1>5, <1>6, <1>7, <1>8, <2>1, InFlightKept
<1>10. Numbered(b, a, r)'
  BY <1>1, <1>2, <1>5, <1>8 DEF Numbered
<1>11. (AcksBehind(b, r) /\ LoopBehind(b, r))'
  BY <1>2 DEF Place, AcksBehind, LoopBehind, NoAck
<1> QED
  BY <1>5, <1>9, <1>10, <1>11 DEF Place

\* An iteration of the loop of roce_handle_ack takes a packet the responder accepted.
LEMMA AckOnePlace ==
  ASSUME ShortLived, TypeInv, TypeInv', NEW b \in PSN, NEW a \in Nat, NEW r \in Nat,
         Place(b, a, r), AckOne, UNCHANGED <<resp_vars, lost, dup>>
  PROVE  Place(b, a + 1, r)' /\ a + 1 <= r /\ Queued # <<>> /\ Queued' = Tail(Queued)
<1>1. /\ ReqInv /\ ReqInv' /\ Numbered(b, a, r) /\ InFlight(b, a)
      /\ AcksBehind(b, r) /\ LoopBehind(b, r)
  BY DEF TypeInv, Place
<1>2. /\ abort = "none" /\ ack.on /\ ack.more /\ AckCovers(Head(outgoing_pkts))
      /\ outgoing_pkts' = Tail(outgoing_pkts) /\ sq_psn' = PsnInc(sq_psn)
      /\ ack' = [ack EXCEPT !.more = Len(outgoing_pkts) > 1]
      /\ UNCHANGED <<pending_pkts, req_net, posted, rq_psn, ack_net>>
  BY DEF AckOne, resp_vars
<1>3. /\ outgoing_pkts # <<>> /\ sq_psn = PsnAdd(b, a) /\ rq_psn = PsnAdd(b, r)
      /\ ack \in [on : BOOLEAN, nak : BOOLEAN, psn : PSN, more : BOOLEAN]
      /\ a <= r /\ r <= a + Len(outgoing_pkts)
  BY <1>1, <1>2 DEF ReqInv, ReqTypeOK, LoopHasPacket, Numbered
<1>4. /\ a + Len(Queued) < PsnHalf - 1 /\ PsnHalf \in Nat /\ r <= a + Len(Queued)
      /\ Len(outgoing_pkts) \in Nat /\ Len(Queued) \in Nat
      /\ outgoing_pkts \in Seq(Packet) /\ pending_pkts \in Seq(Packet)
      /\ Queued \in Seq(Packet)
      /\ \A m \in 1 .. Len(outgoing_pkts) :
           m \in 1 .. Len(Queued) /\ Queued[m] = outgoing_pkts[m]
  BY <1>1, FewNumbers
<1>5. Queued' = Tail(Queued) /\ Queued # <<>> /\ Head(outgoing_pkts) = Queued[1]
  <2>1. /\ Tail(outgoing_pkts) \o pending_pkts = Tail(Queued)
        /\ Queued # <<>> /\ Head(Queued) = Head(outgoing_pkts)
    BY <1>3, <1>4, TailOfQueue DEF Queued
  <2>2. Queued' = Tail(Queued)
    BY <1>2, <2>1 DEF Queued
  <2> QED
    BY <1>4, <2>1, <2>2
<1>6. /\ Len(Queued') = Len(Queued) - 1 /\ Len(Queued) >= 1 /\ Len(outgoing_pkts) >= 1
      /\ Len(outgoing_pkts') = Len(outgoing_pkts) - 1
      /\ \A m \in 1 .. Len(Queued) - 1 : Queued'[m] = Queued[m + 1]
  BY <1>2, <1>3, <1>4, <1>5
<1>7. PICK j \in -1 .. r - 1 : ack.psn = PsnAdd(b, j)
  BY <1>1, <1>2 DEF LoopBehind
<1>8. Queued[1].psn = PsnAdd(b, a)
  <2>1. 1 \in 1 .. Len(Queued) /\ a + (1 - 1) = a
    BY <1>6
  <2>2. Queued[1].psn = PsnAdd(b, a + (1 - 1))
    BY ONLY <1>1, <1>3, <2>1, QueuedNumber, b \in PSN, a \in Nat
  <2> QED
    BY <2>1, <2>2
<1>9. a <= j
  <2>1. ComparePsn(PsnAdd(b, a), PsnAdd(b, j)) <= 0
    BY <1>2, <1>5, <1>7, <1>8 DEF AckCovers
  <2>2. a \in Int /\ j \in Int /\ a - j < PsnHalf /\ j - a <= PsnHalf
    BY <1>3, <1>4
  <2>3. ComparePsn(PsnAdd(b, a), PsnAdd(b, j)) = a - j
    BY <2>2, CompareNumbers
  <2> QED
    BY <2>1, <2>2, <2>3
<1>10. a + 1 <= r /\ r \in Nat /\ a + 1 \in Nat
  BY <1>9
<1>11. sq_psn' = PsnAdd(b, a + 1)
  BY <1>2, <1>3, IncNumber
<1>12. Numbered(b, a + 1, r)'
  <2>1. a + Len(Queued) <= Len(posted) * PktsPerWr /\ Len(posted) <= MaxPosts
    BY <1>1 DEF Numbered
  <2>2. r <= (a + 1) + Len(outgoing_pkts')
    BY <1>3, <1>4, <1>6
  <2>3. (a + 1) + Len(Queued') = a + Len(Queued)
    BY <1>4, <1>6
  <2> QED
    BY <1>2, <1>3, <1>10, <1>11, <2>1, <2>2, <2>3 DEF Numbered
<1>13. InFlight(b, a + 1)'
  <2> SUFFICES ASSUME NEW i \in 1 .. Len(req_net)
               PROVE  \E n \in 0 .. (a + 1) + Len(outgoing_pkts') - 1 :
                        /\ req_net[i].psn = PsnAdd(b, n)
                        /\ n >= a + 1 => req_net[i] = Queued'[n - (a + 1) + 1]
    BY <1>2 DEF InFlight
  <2>1. PICK n \in 0 .. a + Len(outgoing_pkts) - 1 :
          /\ req_net[i].psn = PsnAdd(b, n)
          /\ n >= a => req_net[i] = Queued[n - a + 1]
    BY <1>1 DEF InFlight
  <2>2. n \in 0 .. (a + 1) + Len(outgoing_pkts') - 1
    BY <1>4, <1>6
  <2>3. ASSUME n >= a + 1 PROVE req_net[i] = Queued'[n - (a + 1) + 1]
    <3>1. PICK m \in Int : m = n - a
      OBVIOUS
    <3>2. /\ m \in 1 .. Len(outgoing_pkts) - 1 /\ n >= a
          /\ n - (a + 1) + 1 = m /\ n - a + 1 = m + 1
      <4>1. Len(outgoing_pkts) \in Nat
        BY <1>4
      <4> QED
        BY <2>3, <3>1, <4>1
    <3>3. m \in 1 .. Len(Queued) - 1
      <4>1. m + 1 \in 1 .. Len(outgoing_pkts)
        BY <3>2, <1>4
      <4>2. m + 1 \in 1 .. Len(Queued)
        BY <4>1, <1>4
      <4> QED
        BY <4>2, <3>2, <1>4
    <3>4. req_net[i] = Queued[m + 1]
      BY <2>1, <3>2
    <3> QED
      BY <3>2, <3>3, <3>4, <1>6
  <2> QED
    BY <2>1, <2>2, <2>3
<1>14. (AcksBehind(b, r) /\ LoopBehind(b, r))'
  <2>1. ack'.on = ack.on /\ ack'.psn = ack.psn
    BY <1>2, <1>3
  <2> QED
    BY <1>1, <1>2, <2>1 DEF AcksBehind, LoopBehind
<1> QED
  BY <1>5, <1>10, <1>12, <1>13, <1>14 DEF Place

\* roce_recv_bth takes an acknowledgement: it covers nothing the responder did not accept.
LEMMA DeliverAckPlace ==
  ASSUME ShortLived, TypeInv, NEW b \in PSN, NEW a \in Nat, NEW r \in Nat,
         Place(b, a, r), NEW i \in DOMAIN ack_net, DeliverAck(i)
  PROVE  Place(b, a, r)' /\ UNCHANGED <<outgoing_pkts, pending_pkts>>
<1>1. /\ Numbered(b, a, r) /\ InFlight(b, a) /\ AcksBehind(b, r)
      /\ ack_net \in Seq([nak : BOOLEAN, psn : PSN])
  BY DEF TypeInv, RespTypes, Place
<1>2. /\ ack'.psn = AckedUpto(ack_net[i].nak, ack_net[i].psn)
      /\ ack_net' = RemoveAt(ack_net, i)
      /\ UNCHANGED <<sq_psn, outgoing_pkts, pending_pkts, req_net, posted, rq_psn>>
  BY DEF DeliverAck, HandleAcknowledge, queues, history
<1>3. i \in 1 .. Len(ack_net)
  BY <1>1
<1>4. PICK j \in 0 .. r : /\ ack_net[i].psn = PsnAdd(b, j)
                          /\ ack_net[i].nak \/ j < r
  BY <1>1, <1>3 DEF AcksBehind
<1>5. PsnDec(PsnAdd(b, j)) = PsnAdd(b, j - 1)
  BY DecNumber
<1>6. PICK n \in -1 .. r - 1 : ack'.psn = PsnAdd(b, n)
  <2>1. CASE ack_net[i].nak
    <3>1. ack'.psn = PsnAdd(b, j - 1) /\ j - 1 \in -1 .. r - 1
      BY <2>1, <1>2, <1>4, <1>5 DEF AckedUpto
    <3> QED
      BY <3>1
  <2>2. CASE ~ack_net[i].nak
    <3>1. ack'.psn = PsnAdd(b, j) /\ j \in -1 .. r - 1
      BY <2>2, <1>2, <1>4 DEF AckedUpto
    <3> QED
      BY <3>1
  <2> QED
    BY <2>1, <2>2
<1>7. LoopBehind(b, r)'
  BY <1>6 DEF LoopBehind
<1>8. AcksBehind(b, r)'
  <2>1. \A k \in 1 .. Len(ack_net') : \E m \in 1 .. Len(ack_net) : ack_net'[k] = ack_net[m]
    BY <1>1, <1>2, RemoveAtSeq
  <2> QED
    BY <2>1, <1>1 DEF AcksBehind
<1>9. Queued' = Queued
  BY <1>2 DEF Queued
<1>10. (Numbered(b, a, r) /\ InFlight(b, a))'
  BY <1>1, <1>2, <1>9 DEF Numbered, InFlight
<1> QED
  BY <1>2, <1>7, <1>8, <1>10 DEF Place

\* What the responder does to the PSN it expects and to the acknowledgements: it takes
\* the packet and may acknowledge it, or it stays and may send a NAK.
LEMMA RecvRcNet ==
  ASSUME NEW pkt, RecvRc(pkt)
  PROVE  \/ /\ rq_psn' = rq_psn
            /\ ack_net' = ack_net \/ ack_net' = Append(ack_net, [nak |-> TRUE, psn |-> rq_psn])
         \/ /\ IsExpected(pkt) /\ rq_psn' = PsnInc(rq_psn)
            /\ \/ ack_net' = ack_net
               \/ ack_net' = Append(ack_net, [nak |-> FALSE, psn |-> pkt.psn])
<1>1. CASE DuplicatedRequest(pkt)
  BY <1>1 DEF DuplicatedRequest, resp_vars
<1>2. CASE OutOfSeq(pkt)
  BY <1>2 DEF OutOfSeq, SendNak
<1>3. ASSUME NEW mapped, ExpectedRequest(pkt, mapped)
      PROVE  /\ IsExpected(pkt)
             /\ \/ Drop \/ Accept(pkt) \/ (SendNak /\ rq_psn' = rq_psn)
  <2>1. CASE RecvPayload(pkt, mapped)
    BY <2>1, <1>3 DEF ExpectedRequest, RecvPayload
  <2>2. CASE RdmaWritePayload(pkt, mapped)
    BY <2>2, <1>3 DEF ExpectedRequest, RdmaWritePayload
  <2>3. CASE UNCHANGED <<rq_psn, resp_u, writtenlen, ack_net, resp_abort>>
    BY <2>3, <1>3 DEF ExpectedRequest, Drop
  <2> QED
    BY <1>3, <2>1, <2>2, <2>3 DEF ExpectedRequest
<1>4. Accept(pkt) => /\ rq_psn' = PsnInc(rq_psn)
                     /\ \/ ack_net' = ack_net
                        \/ ack_net' = Append(ack_net, [nak |-> FALSE, psn |-> pkt.psn])
  BY DEF Accept, SendAck
<1> QED
  BY <1>1, <1>2, <1>3, <1>4 DEF RecvRc, Drop, SendNak

\* The packet the responder expects is the one the requester keeps under that PSN.
LEMMA ExpectedKept ==
  ASSUME ShortLived, TypeInv, NEW b \in PSN, NEW a \in Nat, NEW r \in Nat,
         Place(b, a, r), NEW i \in DOMAIN req_net, IsExpected(req_net[i])
  PROVE  /\ r + 1 <= a + Len(outgoing_pkts) /\ req_net[i].psn = PsnAdd(b, r)
         /\ r - a + 1 \in 1 .. Len(Queued) /\ req_net[i] = Queued[r - a + 1]
<1>1. /\ Numbered(b, a, r) /\ InFlight(b, a) /\ req_net \in Seq(Packet)
  BY DEF TypeInv, ReqInv, ReqTypeOK, Place
<1>2. i \in 1 .. Len(req_net)
  BY <1>1
<1>3. PICK j \in 0 .. a + Len(outgoing_pkts) - 1 :
        /\ req_net[i].psn = PsnAdd(b, j)
        /\ j >= a => req_net[i] = Queued[j - a + 1]
  BY <1>1, <1>2 DEF InFlight
<1>4. /\ a + Len(Queued) < PsnHalf - 1 /\ PsnHalf \in Nat /\ r <= a + Len(Queued)
      /\ Len(outgoing_pkts) <= Len(Queued)
      /\ Len(outgoing_pkts) \in Nat /\ Len(Queued) \in Nat
  BY <1>1, FewNumbers
<1>5. a <= r /\ rq_psn = PsnAdd(b, r)
  BY <1>1 DEF Numbered
<1>6. ComparePsn(PsnAdd(b, r), PsnAdd(b, j)) = 0
  BY <1>3, <1>5 DEF IsExpected
<1>7. r \in Int /\ j \in Int /\ r - j < PsnHalf /\ j - r <= PsnHalf
  BY <1>4
<1>8. ComparePsn(PsnAdd(b, r), PsnAdd(b, j)) = r - j
  BY <1>7, CompareNumbers
<1>9. j = r
  BY <1>6, <1>7, <1>8
<1> QED
  BY <1>3, <1>4, <1>5, <1>9

\* A packet of the network reaches the responder.
LEMMA DeliverRequestPlace ==
  ASSUME ShortLived, TypeInv, NEW b \in PSN, NEW a \in Nat, NEW r \in Nat,
         Place(b, a, r), NEW i \in DOMAIN req_net, DeliverRequest(i)
  PROVE  /\ UNCHANGED <<outgoing_pkts, pending_pkts>>
         /\ \/ rq_psn' = rq_psn /\ Place(b, a, r)'
            \/ rq_psn' = PsnInc(rq_psn) /\ Place(b, a, r + 1)'
<1>1. /\ Numbered(b, a, r) /\ InFlight(b, a) /\ AcksBehind(b, r) /\ LoopBehind(b, r)
      /\ req_net \in Seq(Packet) /\ ack_net \in Seq([nak : BOOLEAN, psn : PSN])
      /\ rq_psn \in PSN /\ rq_psn = PsnAdd(b, r)
  BY DEF TypeInv, ReqInv, ReqTypeOK, RespTypes, Place, Numbered
<1>2. /\ RecvRc(req_net[i]) /\ req_net' = RemoveAt(req_net, i)
      /\ UNCHANGED <<sq_psn, outgoing_pkts, pending_pkts, ack, posted>>
      /\ Queued' = Queued
  BY DEF DeliverRequest, Queued
<1>3. InFlight(b, a)'
  <2>1. \A k \in 1 .. Len(req_net') : \E m \in 1 .. Len(req_net) : req_net'[k] = req_net[m]
    BY <1>1, <1>2, RemoveAtSeq
  <2>2. outgoing_pkts' = outgoing_pkts /\ Queued' = Queued
    BY <1>2
  <2>3. ASSUME NEW k \in 1 .. Len(req_net')
        PROVE  \E j \in 0 .. a + Len(outgoing_pkts) - 1 :
                 /\ req_net'[k].psn = PsnAdd(b, j)
                 /\ j >= a => req_net'[k] = Queued[j - a + 1]
    <3>1. PICK m \in 1 .. Len(req_net) : req_net'[k] = req_net[m]
      BY <2>1
    <3>2. PICK j \in 0 .. a + Len(outgoing_pkts) - 1 :
            /\ req_net[m].psn = PsnAdd(b, j)
            /\ j >= a => req_net[m] = Queued[j - a + 1]
      BY <1>1 DEF InFlight
    <3> QED
      BY ONLY <3>1, <3>2
  <2> QED
    BY ONLY <2>2, <2>3 DEF InFlight
<1>4. CASE /\ rq_psn' = rq_psn
           /\ ack_net' = ack_net \/ ack_net' = Append(ack_net, [nak |-> TRUE, psn |-> rq_psn])
  <2>1. AcksBehind(b, r)'
    <3>1. CASE ack_net' = ack_net
      BY <3>1, <1>1 DEF AcksBehind
    <3>2. CASE ack_net' = Append(ack_net, [nak |-> TRUE, psn |-> rq_psn])
      <4>1. [nak |-> TRUE, psn |-> rq_psn] \in [nak : BOOLEAN, psn : PSN]
        BY <1>1
      <4>2. \A k \in 1 .. Len(ack_net') :
              \/ ack_net'[k] = [nak |-> TRUE, psn |-> rq_psn]
              \/ \E m \in 1 .. Len(ack_net) : ack_net'[k] = ack_net[m]
        BY <3>2, <4>1, <1>1, AppendElems
      <4>3. r \in 0 .. r /\ rq_psn = PsnAdd(b, r)
        BY <1>1
      <4>4. ASSUME NEW n \in 1 .. Len(ack_net')
            PROVE  \E j \in 0 .. r : /\ ack_net'[n].psn = PsnAdd(b, j)
                                     /\ ack_net'[n].nak \/ j < r
        <5>1. CASE ack_net'[n] = [nak |-> TRUE, psn |-> rq_psn]
          <6>1. ack_net'[n].nak /\ ack_net'[n].psn = PsnAdd(b, r)
            BY <4>3, <5>1
          <6> QED
            BY ONLY <4>3, <6>1
        <5>2. CASE \E m \in 1 .. Len(ack_net) : ack_net'[n] = ack_net[m]
          BY <1>1, <5>2 DEF AcksBehind
        <5> QED
          BY ONLY <4>2, <5>1, <5>2
      <4> QED
        BY ONLY <4>4 DEF AcksBehind
    <3> QED
      BY <1>4, <3>1, <3>2
  <2>2. (Numbered(b, a, r) /\ LoopBehind(b, r))'
    BY <1>1, <1>2, <1>4 DEF Numbered, LoopBehind
  <2> QED
    BY <1>2, <1>3, <1>4, <2>1, <2>2 DEF Place
<1>5. CASE /\ IsExpected(req_net[i]) /\ rq_psn' = PsnInc(rq_psn)
           /\ \/ ack_net' = ack_net
              \/ ack_net' = Append(ack_net, [nak |-> FALSE, psn |-> req_net[i].psn])
  <2>1. r + 1 <= a + Len(outgoing_pkts) /\ req_net[i].psn = PsnAdd(b, r)
    BY <1>5, ExpectedKept
  <2>2. rq_psn' = PsnAdd(b, r + 1)
    BY <1>1, <1>5, IncNumber
  <2>3. Numbered(b, a, r + 1)'
    <3>1. a <= r + 1
      BY <1>1 DEF Numbered
    <3> QED
      BY <1>1, <1>2, <2>1, <2>2, <3>1 DEF Numbered
  <2>4. LoopBehind(b, r + 1)'
    <3>1. \A j \in -1 .. r - 1 : j \in -1 .. (r + 1) - 1
      OBVIOUS
    <3> QED
      BY <1>1, <1>2, <3>1 DEF LoopBehind
  <2>5. \A j \in 0 .. r : j \in 0 .. r + 1 /\ j < r + 1
    OBVIOUS
  <2>6. AcksBehind(b, r + 1)'
    <3>1. CASE ack_net' = ack_net
      BY <3>1, <1>1, <2>5 DEF AcksBehind
    <3>2. CASE ack_net' = Append(ack_net, [nak |-> FALSE, psn |-> req_net[i].psn])
      <4> DEFINE new == [nak |-> FALSE, psn |-> req_net[i].psn]
      <4>1. req_net[i].psn \in PSN
        <5>1. req_net[i] \in Packet
          BY <1>1, ElementOf
        <5> QED
          BY <5>1 DEF Packet
      <4>2. new \in [nak : BOOLEAN, psn : PSN] /\ new.psn = PsnAdd(b, r)
        BY <2>1, <4>1
      <4> HIDE DEF new
      <4>3. \A k \in 1 .. Len(ack_net') :
              \/ ack_net'[k] = new
              \/ \E m \in 1 .. Len(ack_net) : ack_net'[k] = ack_net[m]
        BY <3>2, <4>2, <1>1, AppendElems DEF new
      <4>4. r \in 0 .. r
        OBVIOUS
      <4> QED
        BY <4>2, <4>3, <4>4, <2>5, <1>1 DEF AcksBehind
    <3> QED
      BY <1>5, <3>1, <3>2
  <2> QED
    BY <1>2, <1>3, <1>5, <2>3, <2>4, <2>6 DEF Place
<1> QED
  BY <1>2, <1>4, <1>5, RecvRcNet

\* The network loses or repeats what it holds, and receive WRs are posted: nothing moves.
LEMMA QuietPlace ==
  ASSUME NEW b \in PSN, NEW a \in Nat, NEW r \in Nat, Place(b, a, r),
         UNCHANGED <<sq_psn, outgoing_pkts, pending_pkts, ack, posted, rq_psn>>,
         \A k \in 1 .. Len(req_net') : \E m \in 1 .. Len(req_net) : req_net'[k] = req_net[m],
         \A k \in 1 .. Len(ack_net') : \E m \in 1 .. Len(ack_net) : ack_net'[k] = ack_net[m]
  PROVE  Place(b, a, r)'
<1>1. Queued' = Queued
  BY DEF Queued
<1> QED
  BY <1>1 DEF Place, Numbered, InFlight, AcksBehind, LoopBehind

\* The steps that leave both queues alone and lose or repeat what the network holds.
LEMMA NetPlace ==
  ASSUME TypeInv, NEW b \in PSN, NEW a \in Nat, NEW r \in Nat, Place(b, a, r),
         (\E cap : Recv(cap)) \/ Lose \/ Duplicate \/ UNCHANGED vars
  PROVE  Place(b, a, r)' /\ UNCHANGED <<outgoing_pkts, pending_pkts, posted>>
<1> DEFINE Acks == [nak : BOOLEAN, psn : PSN]
<1>1. req_net \in Seq(Packet) /\ ack_net \in Seq(Acks)
  BY DEF TypeInv, ReqInv, ReqTypeOK, RespTypes
<1> HIDE DEF Acks
<1>2. /\ UNCHANGED <<sq_psn, outgoing_pkts, pending_pkts, ack, posted, rq_psn>>
      /\ \/ req_net' = req_net
         \/ \E i \in DOMAIN req_net : req_net' = RemoveAt(req_net, i)
         \/ \E i \in DOMAIN req_net : req_net' = Append(req_net, req_net[i])
      /\ \/ ack_net' = ack_net
         \/ \E i \in DOMAIN ack_net : ack_net' = RemoveAt(ack_net, i)
         \/ \E i \in DOMAIN ack_net : ack_net' = Append(ack_net, ack_net[i])
  BY DEF Recv, PostRecv, Lose, Duplicate, vars, req_vars, resp_vars, queues, history
<1>3. ASSUME NEW S, NEW s \in Seq(S), NEW i \in DOMAIN s
      PROVE  \A k \in 1 .. Len(Append(s, s[i])) :
               \E m \in 1 .. Len(s) : Append(s, s[i])[k] = s[m]
  <2>1. i \in 1 .. Len(s) /\ s[i] \in S
    OBVIOUS
  <2> QED
    BY <2>1, AppendElems
<1>4. \A k \in 1 .. Len(req_net') : \E m \in 1 .. Len(req_net) : req_net'[k] = req_net[m]
  <2>1. CASE req_net' = req_net
    BY <2>1
  <2>2. CASE \E i \in DOMAIN req_net : req_net' = RemoveAt(req_net, i)
    BY <2>2, <1>1, RemoveAtSeq
  <2>3. CASE \E i \in DOMAIN req_net : req_net' = Append(req_net, req_net[i])
    BY <2>3, <1>1, <1>3
  <2> QED
    BY <1>2, <2>1, <2>2, <2>3
<1>5. \A k \in 1 .. Len(ack_net') : \E m \in 1 .. Len(ack_net) : ack_net'[k] = ack_net[m]
  <2>1. CASE ack_net' = ack_net
    BY <2>1
  <2>2. CASE \E i \in DOMAIN ack_net : ack_net' = RemoveAt(ack_net, i)
    BY <2>2, <1>1, RemoveAtSeq
  <2>3. CASE \E i \in DOMAIN ack_net : ack_net' = Append(ack_net, ack_net[i])
    BY <2>3, <1>1, <1>3
  <2> QED
    BY <1>2, <2>1, <2>2, <2>3
<1> QED
  BY <1>2, <1>4, <1>5, QuietPlace

LEMMA PlaceInit ==
  ASSUME ShortLived, Init
  PROVE  sq_psn \in PSN /\ Place(sq_psn, 0, 0)
<1>1. sq_psn \in PSN /\ rq_psn = sq_psn
  BY RequesterAssumption DEF Init, ReqInit, RespInit
<1>2. /\ Queued = <<>> /\ outgoing_pkts = <<>> /\ posted = <<>> /\ req_net = <<>>
      /\ ack_net = <<>> /\ ~ack.on
  BY DEF Init, ReqInit, RespInit, Queued, NoAck
<1>3. sq_psn = PsnAdd(sq_psn, 0)
  BY <1>1, PsnAddZero
<1>4. Len(posted) * PktsPerWr = 0 /\ Len(posted) = 0 /\ Len(Queued) = 0
      /\ Len(outgoing_pkts) = 0
  BY <1>2, PktsPerWrBound
<1>5. Numbered(sq_psn, 0, 0)
  BY <1>1, <1>3, <1>4, RequesterAssumption DEF Numbered
<1>6. InFlight(sq_psn, 0) /\ AcksBehind(sq_psn, 0) /\ LoopBehind(sq_psn, 0)
  BY <1>2 DEF InFlight, AcksBehind, LoopBehind
<1> QED
  BY <1>1, <1>5, <1>6 DEF Place

PlaceInv == TypeInv /\ \E b \in PSN, a, r \in Nat : Place(b, a, r)

(***************************************************************************)
(* The responder expects one of the requester's outgoing packets or the    *)
(* one after the last, for every window, PSN width, amount of loss and     *)
(* duplication and every order of delivery: duplicated requests are known  *)
(* as such, and no ACK or NAK, however old, moves sq_psn past a packet the *)
(* responder did not take.                                                 *)
(***************************************************************************)
THEOREM WindowHoldsExpected ==
  ASSUME ShortLived
  PROVE  Spec => []RespWithinWindow
<1>1. Init => PlaceInv
  BY TypeInvInit, PlaceInit DEF PlaceInv
<1>2. PlaceInv /\ [Next]_vars => PlaceInv'
  <2> SUFFICES ASSUME PlaceInv, [Next]_vars PROVE PlaceInv'
    OBVIOUS
  <2>1. TypeInv /\ TypeInv'
    BY TypeInvStep DEF PlaceInv
  <2>2. PICK b \in PSN, a \in Nat, r \in Nat : Place(b, a, r)
    BY DEF PlaceInv
  <2>3. a + 1 \in Nat /\ r + 1 \in Nat
    OBVIOUS
  <2>4. ASSUME NEW c \in Nat, NEW n \in Nat, Place(b, c, n)' PROVE PlaceInv'
    BY <2>1, <2>4 DEF PlaceInv
  <2>5. ASSUME NEW w \in Requests, Post(w) PROVE PlaceInv'
    BY <2>1, <2>2, <2>4, <2>5, PostPlace
  <2>6. ASSUME NEW i \in DOMAIN req_net, DeliverRequest(i) PROVE PlaceInv'
    BY <2>1, <2>2, <2>3, <2>4, <2>6, DeliverRequestPlace
  <2>7. ASSUME NEW i \in DOMAIN ack_net, DeliverAck(i) PROVE PlaceInv'
    BY <2>1, <2>2, <2>4, <2>7, DeliverAckPlace
  <2>8. CASE AckLoop
    BY <2>1, <2>2, <2>3, <2>4, <2>8, AckOnePlace, AckDonePlace DEF AckLoop
  <2>9. CASE (\E cap : Recv(cap)) \/ Lose \/ Duplicate \/ UNCHANGED vars
    BY <2>1, <2>2, <2>4, <2>9, NetPlace
  <2> QED
    BY <2>5, <2>6, <2>7, <2>8, <2>9 DEF Next, Deliverable
<1>3. PlaceInv => RespWithinWindow
  <2> SUFFICES ASSUME PlaceInv PROVE RespWithinWindow
    OBVIOUS
  <2>1. PICK b \in PSN, a \in Nat, r \in Nat : Place(b, a, r)
    BY DEF PlaceInv
  <2>2. /\ sq_psn = PsnAdd(b, a) /\ rq_psn = PsnAdd(b, r)
        /\ a <= r /\ r <= a + Len(outgoing_pkts)
        /\ Len(outgoing_pkts) \in Nat
    BY <2>1 DEF Place, Numbered, PlaceInv, TypeInv, ReqInv, ReqTypeOK
  <2>3. r - a \in 0 .. Len(outgoing_pkts) /\ a + (r - a) = r
    BY <2>2
  <2>4. b \in Int
    BY PsnAssumption DEF PSN
  <2>5. PsnAdd(sq_psn, r - a) = PsnAdd(b, a + (r - a))
    BY <2>2, <2>3, <2>4, PsnAddAdd
  <2> QED
    BY <2>2, <2>3, <2>5 DEF RespWithinWindow
<1> QED
  BY <1>1, <1>2, <1>3, PTL DEF Spec

-----------------------------------------------------------------------------
(* The messages in the queue. *)

\* Packet y follows packet x: it starts a later message, or goes on with the same one.
NextInMessage(x, y) ==
  IF EndsMessage(x) THEN ~InProcess(y) /\ x.msg < y.msg
  ELSE /\ InProcess(y) /\ x.op \in {"SEND", "WRITE"} /\ (IsSend(x) <=> IsSend(y))
       /\ y.msg = x.msg /\ y.off = x.off + x.len

\* A packet of a message of list p; only its first one has offset 0.
OfPosted(x, p) ==
  /\ x.msg \in 1 .. Len(p) /\ x.va = p[x.msg].va
  /\ IF InProcess(x) THEN x.off > 0 ELSE x.off = 0

MessagesInOrder(q, p) ==
  /\ \A i \in 1 .. Len(q) : OfPosted(q[i], p)
  /\ \A i \in 1 .. Len(q) - 1 : NextInMessage(q[i], q[i + 1])
  /\ q # <<>> => EndsMessage(q[Len(q)])

\* What roce_rc_build_pkts makes of the WR posted last.
LEMMA MessageOfWr ==
  ASSUME NEW wr \in SendWR, wr.op \in PacketOps, NEW psn \in PSN,
         NEW p \in Seq(SendWR), wr.id \in 1 .. Len(p), p[wr.id] = wr
  PROVE  LET k == RcBuildPkts(wr, psn) IN
         /\ MessagesInOrder(k, p) /\ Len(k) >= 1 /\ ~InProcess(k[1])
         /\ \A i \in 1 .. Len(k) : k[i].msg = wr.id
<1> DEFINE n == NumPkts(wr.len)
           k == RcBuildPkts(wr, psn)
<1>1. n \in Nat \ {0} /\ Mtu \in Nat \ {0}
  BY NumPktsType, RequesterAssumption DEF SendWR
<1> HIDE DEF n
<1>2. k \in Seq(Packet) /\ Len(k) = n
  BY BuildPkts DEF n
<1>3. \A i \in 1 .. n : /\ k[i].op = PacketOp(wr.op, i, n) /\ k[i].pos = Position(i, n)
                        /\ k[i].msg = wr.id /\ k[i].off = (i - 1) * Mtu
                        /\ k[i].len = PacketLen(wr.len, i, n) /\ k[i].va = wr.va
  BY DEF RcBuildPkts, n
<1> HIDE DEF k
<1>4. ASSUME NEW i \in 1 .. n
      PROVE  /\ EndsMessage(k[i]) <=> i = n
             /\ InProcess(k[i]) <=> i # 1
             /\ IF InProcess(k[i]) THEN k[i].off > 0 ELSE k[i].off = 0
  <2>1. k[i].pos = Position(i, n) /\ k[i].off = (i - 1) * Mtu
    BY <1>3
  <2>2. /\ Position(i, n) \in {"LAST", "ONLY"} <=> i = n
        /\ Position(i, n) \in {"MIDDLE", "LAST"} <=> i # 1
    BY <1>1 DEF Position
  <2>3. IF i # 1 THEN (i - 1) * Mtu > 0 ELSE (i - 1) * Mtu = 0
    <3>1. CASE i = 1
      BY <3>1, <1>1
    <3>2. CASE i # 1
      <4>1. PICK m \in Nat : i - 1 = m + 1
        BY <3>2, <1>1
      <4>2. (m + 1) * Mtu = m * Mtu + Mtu /\ m * Mtu \in Nat
        BY <1>1, TimesMonotone
      <4> QED
        BY <4>1, <4>2, <1>1, <3>2
    <3> QED
      BY <3>1, <3>2
  <2> QED
    BY <2>1, <2>2, <2>3 DEF EndsMessage, InProcess
<1>5. \A i \in 1 .. n : OfPosted(k[i], p)
  BY <1>3, <1>4 DEF OfPosted
<1>6. ASSUME NEW i \in 1 .. n - 1 PROVE NextInMessage(k[i], k[i + 1])
  <2>1. i \in 1 .. n /\ i + 1 \in 1 .. n /\ i # n /\ i + 1 # 1 /\ i < n
    BY <1>1
  <2>2. /\ k[i].op = PacketOp(wr.op, i, n) /\ k[i].msg = wr.id
        /\ k[i].off = (i - 1) * Mtu /\ k[i].len = PacketLen(wr.len, i, n)
    BY <1>3, <2>1
  <2>3. /\ k[i + 1].op = PacketOp(wr.op, i + 1, n) /\ k[i + 1].msg = wr.id
        /\ k[i + 1].off = ((i + 1) - 1) * Mtu
    BY <1>3, <2>1
  <2>4. k[i].len = Mtu
    BY <2>1, <2>2 DEF PacketLen
  <2>5. ((i + 1) - 1) * Mtu = (i - 1) * Mtu + Mtu
    <3>1. PICK m \in Nat : i - 1 = m /\ (i + 1) - 1 = m + 1
      OBVIOUS
    <3>2. (m + 1) * Mtu = m * Mtu + Mtu
      BY <1>1, TimesMonotone
    <3> QED
      BY <3>1, <3>2
  <2>6. k[i].op \in {"SEND", "WRITE"} /\ (IsSend(k[i]) <=> IsSend(k[i + 1]))
    <3>1. /\ PacketOp(wr.op, i, n) \in {"SEND", "WRITE"}
          /\ PacketOp(wr.op, i, n) = "WRITE" <=> wr.op \in {"WRITE", "WRITE_IMM"}
          /\ PacketOp(wr.op, i + 1, n) \in {wr.op, PacketOp(wr.op, i, n)}
      BY <2>1 DEF PacketOp
    <3> QED
      BY <3>1, <2>2, <2>3 DEF IsSend, PacketOps
  <2>7. ~EndsMessage(k[i]) /\ InProcess(k[i + 1])
    BY <1>4, <2>1
  <2> QED
    BY <2>2, <2>3, <2>4, <2>5, <2>6, <2>7 DEF NextInMessage
<1>7. 1 \in 1 .. n /\ n \in 1 .. n
  BY <1>1
<1>8. ~InProcess(k[1]) /\ EndsMessage(k[n])
  BY <1>4, <1>7
<1>9. MessagesInOrder(k, p)
  BY <1>2, <1>5, <1>6, <1>8 DEF MessagesInOrder
<1> QED
  BY <1>1, <1>2, <1>3, <1>8, <1>9 DEF k

\* A later message at the end of the queue.
LEMMA AppendMessage ==
  ASSUME NEW q \in Seq(Packet), NEW k \in Seq(Packet), NEW p,
         MessagesInOrder(q, p), MessagesInOrder(k, p), Len(k) >= 1, ~InProcess(k[1]),
         \A i \in 1 .. Len(q), j \in 1 .. Len(k) : q[i].msg < k[j].msg
  PROVE  MessagesInOrder(q \o k, p)
<1>1. PICK w : w = q \o k
  OBVIOUS
<1>2. /\ w \in Seq(Packet) /\ Len(w) = Len(q) + Len(k) /\ Len(q) \in Nat /\ Len(k) \in Nat
      /\ \A m \in 1 .. Len(q) : w[m] = q[m]
      /\ \A m \in 1 .. Len(k) : w[Len(q) + m] = k[m]
      /\ \A i \in 1 .. Len(w) : \/ \E m \in 1 .. Len(q) : w[i] = q[m]
                                \/ \E m \in 1 .. Len(k) : w[i] = k[m]
  BY <1>1, Joined
<1>3. \A i \in 1 .. Len(w) : OfPosted(w[i], p)
  BY <1>2 DEF MessagesInOrder
<1>4. ASSUME NEW i \in 1 .. Len(w) - 1 PROVE NextInMessage(w[i], w[i + 1])
  <2>1. CASE i < Len(q)
    <3>1. i \in 1 .. Len(q) - 1 /\ i \in 1 .. Len(q) /\ i + 1 \in 1 .. Len(q)
      BY <2>1, <1>2
    <3> QED
      BY <3>1, <1>2 DEF MessagesInOrder
  <2>2. CASE i = Len(q)
    <3>1. i \in 1 .. Len(q) /\ 1 \in 1 .. Len(k) /\ q # <<>>
      BY <2>2, <1>2
    <3>2. w[i] = q[i] /\ w[i + 1] = k[1] /\ EndsMessage(q[i])
      BY <2>2, <3>1, <1>2 DEF MessagesInOrder
    <3> QED
      BY <3>1, <3>2 DEF NextInMessage
  <2>3. CASE i > Len(q)
    <3>1. PICK m \in 1 .. Len(k) - 1 : i = Len(q) + m
      <4>1. Len(w) = Len(q) + Len(k) /\ Len(q) \in Nat /\ Len(k) \in Nat
        BY <1>2
      <4>2. i - Len(q) \in 1 .. Len(k) - 1 /\ i = Len(q) + (i - Len(q))
        BY <2>3, <4>1
      <4> QED
        BY <4>2
    <3>2. /\ m \in 1 .. Len(k) /\ m + 1 \in 1 .. Len(k)
          /\ i + 1 = Len(q) + (m + 1)
      <4>1. PICK lq, lk \in Nat : lq = Len(q) /\ lk = Len(k)
        BY <1>2
      <4>2. i = lq + m /\ m \in 1 .. lk - 1
        BY ONLY <3>1, <4>1
      <4>3. m \in 1 .. lk /\ m + 1 \in 1 .. lk /\ i + 1 = lq + (m + 1)
        BY ONLY <4>2, lq \in Nat, lk \in Nat
      <4> QED
        BY ONLY <4>1, <4>3
    <3>3. w[i] = k[m] /\ w[i + 1] = k[m + 1]
      BY <3>1, <3>2, <1>2
    <3> QED
      BY <3>1, <3>3 DEF MessagesInOrder
  <2> QED
    BY <1>2, <2>1, <2>2, <2>3
<1>5. EndsMessage(w[Len(w)])
  <2>1. Len(k) \in 1 .. Len(k) /\ k # <<>>
    BY <1>2
  <2> QED
    BY <2>1, <1>2 DEF MessagesInOrder
<1>6. MessagesInOrder(w, p)
  BY <1>3, <1>4, <1>5 DEF MessagesInOrder
<1> QED
  BY <1>1, <1>6

\* The queue without its oldest packet; the queue when one more WR is posted.
LEMMA FewerMessages ==
  ASSUME NEW q \in Seq(Packet), NEW p \in Seq(SendWR), MessagesInOrder(q, p)
  PROVE  /\ q # <<>> => MessagesInOrder(Tail(q), p)
         /\ \A e \in SendWR : MessagesInOrder(q, Append(p, e))
<1>1. ASSUME q # <<>> PROVE MessagesInOrder(Tail(q), p)
  <2>1. PICK w : w = Tail(q)
    OBVIOUS
  <2>2. /\ Len(w) = Len(q) - 1 /\ Len(q) \in Nat \ {0}
        /\ \A i \in 1 .. Len(w) : w[i] = q[i + 1] /\ i + 1 \in 1 .. Len(q)
        /\ w # <<>> => Len(w) >= 1
    BY <1>1, <2>1
  <2>3. \A i \in 1 .. Len(w) : OfPosted(w[i], p)
    BY <2>2 DEF MessagesInOrder
  <2>4. ASSUME NEW i \in 1 .. Len(w) - 1 PROVE NextInMessage(w[i], w[i + 1])
    <3>1. i \in 1 .. Len(w) /\ i + 1 \in 1 .. Len(w) /\ i + 1 \in 1 .. Len(q) - 1
      BY <2>2
    <3> QED
      BY <3>1, <2>2 DEF MessagesInOrder
  <2>5. w # <<>> => EndsMessage(w[Len(w)])
    BY <1>1, <2>2 DEF MessagesInOrder
  <2> QED
    BY <2>1, <2>3, <2>4, <2>5 DEF MessagesInOrder
<1>2. ASSUME NEW e \in SendWR PROVE MessagesInOrder(q, Append(p, e))
  <2>1. /\ Len(p) \in Nat /\ Len(Append(p, e)) = Len(p) + 1
        /\ \A m \in 1 .. Len(p) : m \in 1 .. Len(p) + 1 /\ Append(p, e)[m] = p[m]
    OBVIOUS
  <2> QED
    BY <2>1 DEF MessagesInOrder, OfPosted
<1> QED
  BY <1>1, <1>2

-----------------------------------------------------------------------------
(* Receive WRs. *)

RecvWR == [id : Nat, cap : Nat, off : Nat, byte_len : Nat, data : Seq(Nat \X Nat)]

IsList(s) == \E S : s \in Seq(S)

\* Is there a receive WR in resp.wr?
Held == IF resp_u.kind = "wr" THEN 1 ELSE 0

\* Receive WRs are completed, held and queued in the order they were posted.
RecvWrs ==
  /\ rq \in Seq(RecvWR) /\ IsList(received) /\ recv_posted \in Nat
  /\ resp_u.kind = "null" => resp_u = NullU
  /\ resp_u.kind = "wr" => resp_u.wr \in RecvWR /\ resp_u.wr.id = Len(received) + 1
  /\ Len(received) + Held + Len(rq) = recv_posted
  /\ \A i \in 1 .. Len(received) : received[i].wr = i
  /\ \A i \in 1 .. Len(rq) : rq[i].id = Len(received) + Held + i

LEMMA AppendList ==
  ASSUME NEW s, IsList(s), NEW e
  PROVE  /\ IsList(Append(s, e)) /\ Len(s) \in Nat /\ Len(Append(s, e)) = Len(s) + 1
         /\ Append(s, e)[Len(s) + 1] = e
         /\ \A i \in 1 .. Len(s) : Append(s, e)[i] = s[i]
<1>1. PICK S : s \in Seq(S)
  BY DEF IsList
<1>2. PICK T : T = S \cup {e}
  OBVIOUS
<1>3. s \in Seq(T) /\ e \in T
  BY <1>1, <1>2
<1>4. Append(s, e) \in Seq(T)
  BY <1>3
<1> QED
  BY <1>3, <1>4 DEF IsList

\* The payload of a packet is counted in the WR it goes to.
LEMMA FilledWr ==
  ASSUME NEW wr \in RecvWR, NEW pkt \in Packet
  PROVE  LET filled == [wr EXCEPT !.off = @ + pkt.len, !.byte_len = @ + pkt.len,
                                  !.data = @ \o Units(pkt)]
             skipped == [wr EXCEPT !.off = @ + pkt.len, !.data = @ \o Untouched(pkt)]
         IN /\ filled \in RecvWR /\ filled.id = wr.id
            /\ skipped \in RecvWR /\ skipped.id = wr.id
<1>1. pkt.len \in Nat /\ pkt.msg \in Nat /\ pkt.off \in Nat
  BY DEF Packet
<1>2. Units(pkt) \in Seq(Nat \X Nat)
  <2>1. \A i \in 1 .. pkt.len : pkt.off + i - 1 \in Nat
    BY <1>1
  <2>2. \A i \in 1 .. pkt.len : <<pkt.msg, pkt.off + i - 1>> \in Nat \X Nat
    BY <1>1, <2>1
  <2> QED
    BY <1>1, <2>2 DEF Units
<1>3. /\ wr.off + pkt.len \in Nat /\ wr.byte_len + pkt.len \in Nat
      /\ wr.data \in Seq(Nat \X Nat)
  BY <1>1 DEF RecvWR
<1>4. Untouched(pkt) \in Seq(Nat \X Nat)
  BY <1>1 DEF Untouched, Blank
<1>5. /\ wr.data \o Units(pkt) \in Seq(Nat \X Nat)
      /\ wr.data \o Untouched(pkt) \in Seq(Nat \X Nat)
  BY <1>2, <1>3, <1>4, ConcatProperties
<1> QED
  BY <1>3, <1>5 DEF RecvWR

\* The receive WR at the head of the queue has the next number.
LEMMA HeadWr ==
  ASSUME NEW q \in Seq(RecvWR), q # <<>>, NEW n \in Nat,
         \A i \in 1 .. Len(q) : q[i].id = n + i
  PROVE  /\ Head(q) \in RecvWR /\ Head(q).id = n + 1
         /\ Tail(q) \in Seq(RecvWR) /\ Len(Tail(q)) = Len(q) - 1 /\ Len(q) \in Nat
         /\ \A i \in 1 .. Len(Tail(q)) : Tail(q)[i].id = n + 1 + i
<1>1. PICK w : w = Tail(q)
  OBVIOUS
<1>2. /\ w \in Seq(RecvWR) /\ Len(w) = Len(q) - 1 /\ Len(q) \in Nat /\ Len(q) >= 1
      /\ Head(q) = q[1] /\ q[1] \in RecvWR /\ 1 \in 1 .. Len(q)
      /\ \A i \in 1 .. Len(w) : w[i] = q[i + 1] /\ i + 1 \in 1 .. Len(q)
  BY <1>1
<1>3. ASSUME NEW i \in 1 .. Len(w) PROVE w[i].id = n + 1 + i
  <2>1. w[i] = q[i + 1] /\ q[i + 1].id = n + (i + 1)
    BY <1>2
  <2> QED
    BY <2>1
<1>4. Head(q).id = n + 1
  BY <1>2
<1> QED
  BY ONLY <1>1, <1>2, <1>3, <1>4

\* One more receive completion.
LEMMA NextReceived ==
  ASSUME NEW s, IsList(s), NEW c, c.wr = Len(s) + 1, \A i \in 1 .. Len(s) : s[i].wr = i
  PROVE  /\ IsList(Append(s, c)) /\ Len(s) \in Nat /\ Len(Append(s, c)) = Len(s) + 1
         /\ \A i \in 1 .. Len(s) + 1 : Append(s, c)[i].wr = i
<1>1. PICK w : w = Append(s, c)
  OBVIOUS
<1>2. /\ IsList(w) /\ Len(s) \in Nat /\ Len(w) = Len(s) + 1 /\ w[Len(s) + 1] = c
      /\ \A i \in 1 .. Len(s) : w[i] = s[i]
  BY <1>1, AppendList
<1>3. ASSUME NEW i \in 1 .. Len(s) + 1 PROVE w[i].wr = i
  <2>1. CASE i = Len(s) + 1
    BY <2>1, <1>2
  <2>2. CASE i # Len(s) + 1
    <3>1. i \in 1 .. Len(s)
      BY <2>2, <1>2
    <3> QED
      BY <3>1, <1>2
  <2> QED
    BY <2>1, <2>2
<1> QED
  BY <1>1, <1>2, <1>3

\* roce_pop_recv_wr takes the WR of the message in progress, or the next one, which
\* is then held or completed.
LEMMA PopWrs ==
  ASSUME RecvWrs, resp_u.kind \in {"null", "wr"}, resp_u # NullU \/ rq # <<>>,
         PopRecvWr, UNCHANGED recv_posted
  PROVE  /\ RecvWr \in RecvWR
         /\ \A x \in RecvWR :
              /\ x.id = RecvWr.id
              /\ \/ resp_u' = WrU(x) /\ received' = received
                 \/ \E c : /\ resp_u' = NullU /\ received' = Append(received, c)
                           /\ c.wr = x.id
              => RecvWrs'
<1> DEFINE n == Len(received)
<1>1. /\ rq \in Seq(RecvWR) /\ IsList(received) /\ recv_posted \in Nat
      /\ n + Held + Len(rq) = recv_posted
      /\ \A i \in 1 .. n : received[i].wr = i
      /\ \A i \in 1 .. Len(rq) : rq[i].id = n + Held + i
  BY DEF RecvWrs
<1>2. n \in Nat /\ Len(rq) \in Nat
  BY <1>1, AppendList
<1>3. /\ RecvWr \in RecvWR /\ RecvWr.id = n + 1
      /\ rq' \in Seq(RecvWR) /\ n + 1 + Len(rq') = recv_posted
      /\ \A i \in 1 .. Len(rq') : rq'[i].id = n + 1 + i
  <2>1. CASE resp_u.kind = "null"
    <3>1. resp_u = NullU /\ Held = 0 /\ rq # <<>>
      BY <2>1 DEF RecvWrs, Held
    <3>2. RecvWr = Head(rq) /\ rq' = Tail(rq)
      BY <3>1 DEF RecvWr, PopRecvWr
    <3>3. \A i \in 1 .. Len(rq) : rq[i].id = n + i
      BY <1>1, <1>2, <3>1
    <3> HIDE DEF n
    <3>4. /\ Head(rq) \in RecvWR /\ Head(rq).id = n + 1
          /\ Tail(rq) \in Seq(RecvWR) /\ Len(Tail(rq)) = Len(rq) - 1
          /\ \A i \in 1 .. Len(Tail(rq)) : Tail(rq)[i].id = n + 1 + i
      BY <1>1, <1>2, <3>1, <3>3, HeadWr
    <3>5. n + Len(rq) = recv_posted
      BY <1>1, <1>2, <3>1
    <3>6. n + 1 + Len(Tail(rq)) = recv_posted
      BY <1>2, <3>4, <3>5
    <3> QED
      BY <3>2, <3>4, <3>6
  <2>2. CASE resp_u.kind = "wr"
    <3>1. resp_u # NullU /\ Held = 1
      BY <2>2, Kinds DEF Held
    <3>2. RecvWr = resp_u.wr /\ rq' = rq
      BY <3>1 DEF RecvWr, PopRecvWr
    <3> QED
      BY <1>1, <1>2, <2>2, <3>1, <3>2 DEF RecvWrs
  <2> QED
    BY <2>1, <2>2
<1>4. ASSUME NEW x \in RecvWR, x.id = RecvWr.id, resp_u' = WrU(x), received' = received
      PROVE  RecvWrs'
  <2>1. resp_u'.kind = "wr" /\ resp_u'.wr = x /\ Held' = 1
    BY <1>4, Kinds DEF Held
  <2> QED
    BY <1>1, <1>2, <1>3, <1>4, <2>1 DEF RecvWrs
<1>5. ASSUME NEW c, resp_u' = NullU, received' = Append(received, c), c.wr = RecvWr.id
      PROVE  RecvWrs'
  <2>1. resp_u'.kind = "null" /\ Held' = 0
    BY <1>5, Kinds DEF Held
  <2>2. /\ IsList(received') /\ Len(received') = n + 1
        /\ \A i \in 1 .. n + 1 : received'[i].wr = i
    BY <1>1, <1>3, <1>5, NextReceived
  <2> QED
    BY <1>1, <1>2, <1>3, <1>5, <2>1, <2>2 DEF RecvWrs
<1> QED
  BY <1>3, <1>4, <1>5

\* The union holds no receive WR before and after: the receive queue may lose its head
\* to the receive history.
LEMMA KeepWrs ==
  ASSUME RecvWrs, UNCHANGED recv_posted,
         resp_u'.kind = "null" => resp_u' = NullU,
         \/ UNCHANGED <<rq, received>> /\ (resp_u' = resp_u \/ (Held = 0 /\ Held' = 0))
         \/ \E c : /\ Held = 0 /\ Held' = 0 /\ rq # <<>> /\ rq' = Tail(rq)
                   /\ received' = Append(received, c) /\ c.wr = Head(rq).id
  PROVE  RecvWrs'
<1> DEFINE n == Len(received)
<1>1. /\ rq \in Seq(RecvWR) /\ IsList(received) /\ recv_posted \in Nat
      /\ n + Held + Len(rq) = recv_posted
      /\ \A i \in 1 .. n : received[i].wr = i
      /\ \A i \in 1 .. Len(rq) : rq[i].id = n + Held + i
  BY DEF RecvWrs
<1>2. n \in Nat /\ Len(rq) \in Nat
  BY <1>1, AppendList
<1>3. Held' = 0 => resp_u'.kind # "wr"
  BY DEF Held
<1>4. CASE UNCHANGED <<rq, received>> /\ resp_u' = resp_u
  BY <1>4 DEF RecvWrs, Held
<1>5. CASE UNCHANGED <<rq, received>> /\ Held = 0 /\ Held' = 0
  BY <1>1, <1>3, <1>5 DEF RecvWrs
<1>6. ASSUME NEW c, Held = 0, Held' = 0, rq # <<>>, rq' = Tail(rq),
             received' = Append(received, c), c.wr = Head(rq).id
      PROVE  RecvWrs'
  <2>1. \A i \in 1 .. Len(rq) : rq[i].id = n + i
    BY <1>1, <1>2, <1>6
  <2>2. n + Len(rq) = recv_posted
    BY <1>1, <1>2, <1>6
  <2>3. /\ IsList(received) /\ rq \in Seq(RecvWR) /\ n \in Nat
        /\ \A i \in 1 .. n : received[i].wr = i
    BY <1>1, <1>2
  <2>4. /\ Head(rq).id = n + 1
        /\ Tail(rq) \in Seq(RecvWR) /\ Len(Tail(rq)) = Len(rq) - 1
        /\ \A i \in 1 .. Len(Tail(rq)) : Tail(rq)[i].id = n + 1 + i
    BY <1>6, <2>1, <2>3, HeadWr
  <2>5. /\ IsList(received') /\ Len(received') = n + 1
        /\ \A i \in 1 .. n + 1 : received'[i].wr = i
    BY <1>6, <2>3, <2>4, NextReceived
  <2>6. recv_posted' = recv_posted /\ recv_posted \in Nat /\ rq' = Tail(rq) /\ Held' = 0
        /\ Len(rq) \in Nat
    BY <1>1, <1>2, <1>6
  <2>7. (n + 1) + Held' + Len(rq') = recv_posted'
    BY ONLY <2>2, <2>3, <2>4, <2>6
  <2>8. \A i \in 1 .. Len(rq') : rq'[i].id = (n + 1) + Held' + i
    BY ONLY <2>3, <2>4, <2>6
  <2> HIDE DEF n
  <2> QED
    BY <1>3, <2>4, <2>5, <2>6, <2>7, <2>8 DEF RecvWrs
<1> QED
  BY <1>4, <1>5, <1>6

\* roce_recv_payload: the packet is dropped, perhaps with a receive WR left in resp.wr,
\* or taken.
LEMMA SendEffect ==
  ASSUME RecvWrs, resp_u.kind \in {"null", "wr", "iova"}, NEW pkt \in Packet, NEW mapped,
         InProcess(pkt) => resp_u.kind # "iova",
         RecvPayload(pkt, mapped), UNCHANGED recv_posted
  PROVE  /\ RecvWrs'
         /\ \/ /\ rq_psn' = rq_psn /\ received' = received
               /\ resp_u' = resp_u \/ resp_u'.kind = "wr"
            \/ /\ rq_psn' = PsnInc(rq_psn)
               /\ IF EndsMessage(pkt)
                  THEN resp_u' = NullU /\ Len(received') = Len(received) + 1
                  ELSE resp_u'.kind = "wr" /\ received' = received
<1> DEFINE filled == [RecvWr EXCEPT !.off = @ + pkt.len, !.byte_len = @ + pkt.len,
                                    !.data = @ \o Units(pkt)]
           skipped == [RecvWr EXCEPT !.off = @ + pkt.len, !.data = @ \o Untouched(pkt)]
           done == [wr |-> RecvWr.id, op |-> pkt.op, msg |-> pkt.msg,
                    data |-> SubSeq(filled.data, 1, filled.byte_len)]
<1>1. IsList(received) /\ (resp_u.kind = "null" => resp_u = NullU)
  BY DEF RecvWrs
<1>2. CASE UNCHANGED <<rq, resp_u, received>> /\ Drop
  <2>1. RecvWrs'
    BY <1>1, <1>2, KeepWrs
  <2> QED
    BY <1>2, <2>1 DEF Drop
<1> DEFINE Kept == /\ Drop /\ received' = received
                   /\ resp_u' = WrU(RecvWr) \/ resp_u' = WrU(skipped)
           Taken == /\ Accept(pkt)
                    /\ resp_u' = IF EndsMessage(pkt) THEN NullU ELSE WrU(filled)
                    /\ received' = IF EndsMessage(pkt) THEN Append(received, done)
                                                       ELSE received
<1>3. CASE ~NoRecvWr(pkt) /\ PopRecvWr /\ (Kept \/ Taken)
  <2> HIDE DEF Kept, Taken
  <2>1. resp_u.kind \in {"null", "wr"} /\ (resp_u # NullU \/ rq # <<>>)
    BY <1>1, <1>3, Kinds DEF NoRecvWr, InProcess
  <2>2. RecvWr \in RecvWR
    BY <1>3, <2>1, PopWrs
  <2>3. /\ filled \in RecvWR /\ filled.id = RecvWr.id
        /\ skipped \in RecvWR /\ skipped.id = RecvWr.id
    BY <2>2, FilledWr
  <2> HIDE DEF filled, skipped
  <2>4. \A x \in RecvWR : x.id = RecvWr.id /\ resp_u' = WrU(x) /\ received' = received
                          => RecvWrs'
    BY <1>3, <2>1, PopWrs
  <2>5. /\ done.wr = RecvWr.id
        /\ resp_u' = NullU /\ received' = Append(received, done) => RecvWrs'
    <3>1. done.wr = RecvWr.id
      OBVIOUS
    <3> HIDE DEF done
    <3> QED
      BY <1>3, <2>1, <2>2, <3>1, PopWrs
  <2>6. received' = Append(received, done) => Len(received') = Len(received) + 1
    BY <1>1, AppendList
  <2>7. CASE Kept
    BY <2>2, <2>3, <2>4, <2>7, Kinds DEF Drop, Kept
  <2>8. CASE Taken
    <3> HIDE DEF done
    <3> QED
      BY <2>3, <2>4, <2>5, <2>6, <2>8, Kinds DEF Accept, Taken
  <2> QED
    BY <1>3, <2>7, <2>8
<1>4. \/ UNCHANGED <<rq, resp_u, received>> /\ Drop
      \/ ~NoRecvWr(pkt) /\ PopRecvWr /\ (Kept \/ Taken)
  BY DEF RecvPayload
<1> QED
  BY ONLY <1>2, <1>3, <1>4

\* roce_rdma_write_payload never touches a receive WR in progress.
LEMMA WriteEffect ==
  ASSUME RecvWrs, resp_u.kind \in {"null", "iova"}, NEW pkt \in Packet, NEW mapped,
         RdmaWritePayload(pkt, mapped), UNCHANGED recv_posted
  PROVE  /\ RecvWrs' /\ resp_u'.kind # "wr"
         /\ \/ rq_psn' = rq_psn /\ received' = received
            \/ /\ rq_psn' = PsnInc(rq_psn)
               /\ IF pkt.op = "WRITE_IMM" THEN Len(received') = Len(received) + 1
                                          ELSE received' = received
<1>1. /\ IsList(received) /\ Held = 0 /\ (resp_u.kind = "null" => resp_u = NullU)
  BY DEF RecvWrs, Held
<1>2. /\ WriteUnit(pkt).kind \in {"null", "iova"}
      /\ WriteUnit(pkt).kind = "null" => WriteUnit(pkt) = NullU
  BY <1>1, Kinds DEF WriteUnit, IovaU
<1>3. NullU.kind # "wr"
  BY Kinds
<1>4. CASE /\ UNCHANGED <<rq, received>> /\ resp_u' \in {resp_u, WriteUnit(pkt)}
           /\ rq_psn' = rq_psn \/ (Accept(pkt) /\ pkt.op # "WRITE_IMM")
  <2>1. resp_u'.kind # "wr" /\ (resp_u'.kind = "null" => resp_u' = NullU)
    BY <1>1, <1>2, <1>4
  <2>2. Held' = 0
    BY <2>1 DEF Held
  <2>3. RecvWrs'
    BY <1>1, <1>4, <2>1, <2>2, KeepWrs
  <2> QED
    BY <1>4, <2>1, <2>3 DEF Accept
<1>5. ASSUME NEW c, rq # <<>>, rq' = Tail(rq), received' = Append(received, c),
             c.wr = Head(rq).id, resp_u' = NullU, Accept(pkt), pkt.op = "WRITE_IMM"
      PROVE  /\ RecvWrs' /\ resp_u'.kind # "wr" /\ rq_psn' = PsnInc(rq_psn)
             /\ Len(received') = Len(received) + 1
  <2>1. Held' = 0 /\ resp_u'.kind # "wr"
    BY <1>3, <1>5 DEF Held
  <2>2. RecvWrs'
    BY <1>1, <1>5, <2>1, KeepWrs
  <2>3. Len(received') = Len(received) + 1
    BY <1>1, <1>5, AppendList
  <2> QED
    BY <1>5, <2>1, <2>2, <2>3 DEF Accept
<1>6. \/ /\ UNCHANGED <<rq, received>> /\ resp_u' \in {resp_u, WriteUnit(pkt)}
         /\ rq_psn' = rq_psn \/ (Accept(pkt) /\ pkt.op # "WRITE_IMM")
      \/ \E c : /\ rq # <<>> /\ rq' = Tail(rq) /\ received' = Append(received, c)
                /\ c.wr = Head(rq).id /\ resp_u' = NullU /\ Accept(pkt)
                /\ pkt.op = "WRITE_IMM"
  BY DEF RdmaWritePayload, Drop
<1> QED
  BY <1>4, <1>5, <1>6

-----------------------------------------------------------------------------
(* What the responder keeps between two packets, and the packet it expects. *)

\* The union and packet k of the queue, the one expected.
RespPlace(k) ==
  /\ resp_u.kind = "wr" => k <= Len(Queued) /\ IsSend(Queued[k])
  /\ k <= Len(Queued) /\ InProcess(Queued[k]) /\ IsSend(Queued[k])
       => resp_u.kind # "iova"

\* Only messages before that packet's own were received.
Delivered(k) ==
  /\ Len(received) <= Len(posted)
  /\ k <= Len(Queued) => Len(received) < Queued[k].msg

\* Steps of the requester: the responder stands where it stood.
LEMMA SameQueue ==
  ASSUME NEW k \in Nat, RespPlace(k), Delivered(k), UNCHANGED <<resp_u, received, posted>>,
         Queued' = Queued
  PROVE  (RespPlace(k) /\ Delivered(k))'
  BY DEF RespPlace, Delivered

LEMMA TailQueue ==
  ASSUME NEW k \in Nat \ {0}, RespPlace(k + 1), Delivered(k + 1),
         UNCHANGED <<resp_u, received, posted>>,
         Queued \in Seq(Packet), Queued # <<>>, Queued' = Tail(Queued)
  PROVE  (RespPlace(k) /\ Delivered(k))'
<1>1. /\ Len(Queued') = Len(Queued) - 1 /\ Len(Queued) \in Nat
      /\ \A i \in 1 .. Len(Queued') : Queued'[i] = Queued[i + 1]
  OBVIOUS
<1>2. k <= Len(Queued') <=> k + 1 <= Len(Queued)
  BY <1>1
<1>3. k <= Len(Queued') => Queued'[k] = Queued[k + 1]
  BY <1>1
<1> QED
  BY <1>2, <1>3 DEF RespPlace, Delivered

\* What follows the packet just taken.
LEMMA NextExpected ==
  ASSUME NEW k \in Nat, Queued \in Seq(Packet), MessagesInOrder(Queued, posted),
         k \in 1 .. Len(Queued), Delivered(k), IsList(received), posted \in Seq(SendWR)
  PROVE  LET x == Queued[k]
             y == Queued[k + 1]
             n == Len(received)
         IN /\ n \in Nat /\ n + 1 <= Len(posted) /\ n < x.msg
            /\ k + 1 <= Len(Queued) =>
                 /\ InProcess(y) <=> ~EndsMessage(x)
                 /\ ~EndsMessage(x) => (IsSend(y) <=> IsSend(x)) /\ n < y.msg
                 /\ EndsMessage(x) => n + 1 < y.msg
            /\ ~EndsMessage(x) => k + 1 <= Len(Queued) /\ x.op \in {"SEND", "WRITE"}
<1> DEFINE x == Queued[k]
           y == Queued[k + 1]
           n == Len(received)
<1>1. x.msg \in 1 .. Len(posted) /\ n < x.msg /\ n \in Nat /\ Len(posted) \in Nat
      /\ Len(Queued) \in Nat
  BY AppendList DEF MessagesInOrder, OfPosted, Delivered
<1>2. ASSUME k + 1 <= Len(Queued) PROVE NextInMessage(x, y) /\ y.msg \in 1 .. Len(posted)
  <2>1. k \in 1 .. Len(Queued) - 1 /\ k + 1 \in 1 .. Len(Queued)
    BY <1>1, <1>2
  <2> QED
    BY <2>1 DEF MessagesInOrder, OfPosted
<1>3. CASE k + 1 <= Len(Queued)
  <2>1. EndsMessage(x) \in BOOLEAN /\ InProcess(y) \in BOOLEAN
    BY DEF EndsMessage, InProcess
  <2> HIDE DEF x, y, n
  <2>2. /\ InProcess(y) <=> ~EndsMessage(x)
        /\ ~EndsMessage(x) => /\ IsSend(y) <=> IsSend(x)
                              /\ y.msg = x.msg /\ x.op \in {"SEND", "WRITE"}
        /\ EndsMessage(x) => x.msg < y.msg
    BY <1>2, <1>3, <2>1 DEF NextInMessage
  <2>3. /\ n + 1 <= Len(posted)
        /\ ~EndsMessage(x) => n < y.msg
        /\ EndsMessage(x) => n + 1 < y.msg
    BY <1>1, <1>2, <1>3, <2>2
  <2> QED
    BY <1>1, <1>3, <2>2, <2>3 DEF x, y, n
<1>4. CASE ~(k + 1 <= Len(Queued))
  <2>1. k = Len(Queued) /\ Queued # <<>>
    BY <1>1, <1>4
  <2>2. EndsMessage(x)
    BY <2>1 DEF MessagesInOrder
  <2> QED
    BY <1>1, <1>4, <2>2
<1> QED
  BY <1>3, <1>4

\* The packet expected is refused, and everything stays, or it is taken, and the
\* responder stands at the next one.
LEMMA ExpectedStep ==
  ASSUME TypeInv, RecvWrs, MessagesInOrder(Queued, posted), NEW k \in Nat,
         RespPlace(k), Delivered(k), k \in 1 .. Len(Queued), NEW mapped,
         ExpectedRequest(Queued[k], mapped), UNCHANGED <<posted, recv_posted>>,
         Queued' = Queued, Queued \in Seq(Packet)
  PROVE  /\ RecvWrs'
         /\ \/ rq_psn' = rq_psn /\ (RespPlace(k) /\ Delivered(k))'
            \/ rq_psn' = PsnInc(rq_psn) /\ (RespPlace(k + 1) /\ Delivered(k + 1))'
<1>1. /\ resp_u.kind \in {"null", "wr", "iova"} /\ posted \in Seq(SendWR)
      /\ IsList(received) /\ Queued[k] \in Packet /\ Len(Queued) \in Nat
  BY DEF TypeInv, ReqInv, ReqTypeOK, RespTypes, RecvWrs
<1>2. PICK x, y : x = Queued[k] /\ y = Queued[k + 1]
  OBVIOUS
<1>3. PICK n \in Nat : n = Len(received)
  BY <1>1, AppendList
<1>4. /\ n + 1 <= Len(posted) /\ n < x.msg
      /\ k + 1 <= Len(Queued) =>
           /\ InProcess(y) <=> ~EndsMessage(x)
           /\ ~EndsMessage(x) => (IsSend(y) <=> IsSend(x)) /\ n < y.msg
           /\ EndsMessage(x) => n + 1 < y.msg
      /\ ~EndsMessage(x) => k + 1 <= Len(Queued) /\ x.op \in {"SEND", "WRITE"}
  BY <1>1, <1>2, <1>3, NextExpected
<1>5. /\ resp_u.kind = "wr" => IsSend(x)
      /\ InProcess(x) /\ IsSend(x) => resp_u.kind # "iova"
      /\ x \in Packet /\ k <= Len(Queued)
  BY <1>1, <1>2 DEF RespPlace
<1>6. Len(posted) \in Nat /\ n <= Len(posted) /\ x.msg \in Nat /\ IsSend(x) \in BOOLEAN
  <2>1. Len(posted) \in Nat
    BY <1>1
  <2>2. x.msg \in Nat
    BY <1>5 DEF Packet
  <2>3. IsSend(x) \in BOOLEAN
    BY DEF IsSend
  <2> QED
    BY <1>4, <2>1, <2>2, <2>3
<1>7. ASSUME received' = received, ~IsSend(x) => resp_u'.kind # "wr",
             IsSend(x) => resp_u' = resp_u \/ resp_u'.kind = "wr"
      PROVE  (RespPlace(k) /\ Delivered(k))'
  <2>1. Delivered(k)'
    BY <1>7 DEF Delivered
  <2>2. RespPlace(k)'
    BY <1>2, <1>5, <1>7 DEF RespPlace
  <2> QED
    BY <2>1, <2>2
<1>8. CASE x.op \in {"SEND", "SEND_IMM"} /\ RecvPayload(x, mapped)
  <2>1. /\ RecvWrs' /\ IsSend(x)
        /\ \/ /\ rq_psn' = rq_psn /\ received' = received
              /\ resp_u' = resp_u \/ resp_u'.kind = "wr"
           \/ /\ rq_psn' = PsnInc(rq_psn)
              /\ IF EndsMessage(x)
                 THEN resp_u' = NullU /\ Len(received') = n + 1
                 ELSE resp_u'.kind = "wr" /\ received' = received
    BY <1>1, <1>3, <1>5, <1>8, SendEffect DEF IsSend
  <2>2. ASSUME EndsMessage(x), resp_u' = NullU, Len(received') = n + 1
        PROVE  (RespPlace(k + 1) /\ Delivered(k + 1))'
    <3>1. resp_u'.kind = "null"
      BY <2>2, Kinds
    <3>2. RespPlace(k + 1)'
      BY <3>1 DEF RespPlace
    <3>3. Delivered(k + 1)'
      BY <1>2, <1>4, <2>2 DEF Delivered
    <3> QED
      BY <3>2, <3>3
  <2>3. ASSUME ~EndsMessage(x), resp_u'.kind = "wr", received' = received
        PROVE  (RespPlace(k + 1) /\ Delivered(k + 1))'
    <3>1. RespPlace(k + 1)'
      BY <1>2, <1>4, <2>1, <2>3 DEF RespPlace
    <3>2. Delivered(k + 1)'
      BY <1>2, <1>3, <1>4, <1>6, <2>3 DEF Delivered
    <3> QED
      BY <3>1, <3>2
  <2> QED
    BY <1>7, <2>1, <2>2, <2>3
<1>9. CASE x.op \in {"WRITE", "WRITE_IMM"} /\ RdmaWritePayload(x, mapped)
  <2>1. ~IsSend(x) /\ resp_u.kind \in {"null", "iova"}
    BY <1>1, <1>5, <1>9 DEF IsSend
  <2>2. /\ RecvWrs' /\ resp_u'.kind # "wr"
        /\ \/ rq_psn' = rq_psn /\ received' = received
           \/ /\ rq_psn' = PsnInc(rq_psn)
              /\ IF x.op = "WRITE_IMM" THEN Len(received') = n + 1
                                       ELSE received' = received
    BY <1>3, <1>5, <1>9, <2>1, WriteEffect
  <2>3. x.op = "WRITE_IMM" => EndsMessage(x)
    BY <1>4
  <2>4. RespPlace(k + 1)'
    <3>1. k + 1 <= Len(Queued) /\ InProcess(y) => ~IsSend(y)
      BY <1>4, <2>1
    <3> QED
      BY <1>2, <2>2, <3>1 DEF RespPlace
  <2>5. \/ received' = received
        \/ Len(received') = n + 1 /\ EndsMessage(x)
        => Delivered(k + 1)'
    <3>1. CASE Len(received') = n + 1 /\ EndsMessage(x)
      BY <1>2, <1>4, <3>1 DEF Delivered
    <3>2. CASE received' = received
      <4>1. k + 1 <= Len(Queued) => n < y.msg
        <5> SUFFICES ASSUME k + 1 <= Len(Queued) PROVE n < y.msg
          OBVIOUS
        <5>1. k + 1 \in 1 .. Len(Queued)
          BY <1>1
        <5>2. y.msg \in Nat
          <6>1. y \in Packet
            BY <5>1, <1>2
          <6> QED
            BY <6>1 DEF Packet
        <5> QED
          BY <1>4, <5>2
      <4> QED
        BY <1>2, <1>3, <1>6, <3>2, <4>1 DEF Delivered
    <3> QED
      BY <3>1, <3>2
  <2> QED
    BY <1>7, <2>1, <2>2, <2>3, <2>4, <2>5
<1>10. CASE x.op = "SEND_INV" /\ UNCHANGED <<rq, rq_psn, resp_u, received>>
  <2>1. RecvWrs'
    BY <1>10 DEF RecvWrs, Held
  <2>2. IsSend(x)
    BY <1>10 DEF IsSend
  <2> QED
    BY <1>7, <1>10, <2>1, <2>2
<1> QED
  BY <1>2, <1>8, <1>9, <1>10 DEF ExpectedRequest

\* roce_post_send adds the packets of a later message, or none.
LEMMA PostMessages ==
  ASSUME ReqInv, MessagesInOrder(Queued, posted), NEW w \in Requests, PostSend(w)
  PROVE  /\ MessagesInOrder(Queued', posted')
         /\ Len(Queued) <= Len(Queued') /\ Len(posted) <= Len(posted')
         /\ Queued \in Seq(Packet) /\ Queued' \in Seq(Packet)
         /\ posted \in Seq(SendWR) /\ posted' \in Seq(SendWR)
         /\ \A m \in 1 .. Len(Queued) : Queued'[m] = Queued[m]
         /\ \A m \in 1 .. Len(posted) : posted'[m] = posted[m]
         /\ Len(Queued) < Len(Queued') =>
              /\ ~InProcess(Queued'[Len(Queued) + 1])
              /\ Queued'[Len(Queued) + 1].msg = Len(posted) + 1
<1>1. /\ NewWr(w) \in SendWR /\ Len(posted) < MaxPosts
      /\ \/ UNCHANGED <<outgoing_pkts, pending_pkts, req_net, posted>>
         \/ /\ Queued' = Queued \o NewPkts(w) /\ posted' = Append(posted, NewWr(w))
            /\ \/ NewPkts(w) = <<>>
               \/ w.op \in PacketOps /\ NewPkts(w) = RcBuildPkts(NewWr(w), req_psn)
            /\ NewPkts(w) \in Seq(Packet)
  BY PostQueue
<1>2. /\ outgoing_pkts \in Seq(Packet) /\ pending_pkts \in Seq(Packet)
      /\ posted \in Seq(SendWR) /\ req_psn \in PSN
  BY DEF ReqInv, ReqTypeOK
<1>3. Queued \in Seq(Packet) /\ Len(Queued) \in Nat /\ Len(posted) \in Nat
  BY <1>2, Joined DEF Queued
<1>4. CASE UNCHANGED <<outgoing_pkts, pending_pkts, req_net, posted>>
  <2>1. Queued' = Queued /\ posted' = posted
    BY <1>4 DEF Queued
  <2> QED
    BY <1>2, <1>3, <2>1
<1>5. CASE /\ Queued' = Queued \o NewPkts(w) /\ posted' = Append(posted, NewWr(w))
           /\ \/ NewPkts(w) = <<>>
              \/ w.op \in PacketOps /\ NewPkts(w) = RcBuildPkts(NewWr(w), req_psn)
           /\ NewPkts(w) \in Seq(Packet)
  <2>1. PICK new, k, p : new = NewWr(w) /\ k = NewPkts(w) /\ p = Append(posted, new)
    OBVIOUS
  <2>2. /\ posted' = p /\ p \in Seq(SendWR) /\ Len(p) = Len(posted) + 1
        /\ p[Len(posted) + 1] = new
        /\ \A m \in 1 .. Len(posted) : p[m] = posted[m]
    BY <1>1, <1>2, <1>5, <2>1
  <2>3. MessagesInOrder(Queued, p)
    BY <1>1, <1>2, <1>3, <2>1, FewerMessages
  <2>4. new.id = Len(posted) + 1 /\ new.op = w.op /\ new \in SendWR
    BY <1>1, <2>1 DEF NewWr
  <2>5. CASE k = <<>>
    <3>1. Queued' = Queued
      BY <1>3, <1>5, <2>1, <2>5
    <3> QED
      BY <1>2, <1>3, <2>2, <2>3, <3>1
  <2>6. CASE w.op \in PacketOps /\ k = RcBuildPkts(new, req_psn)
    <3>1. new.id \in 1 .. Len(p) /\ p[new.id] = new
      BY <1>3, <2>2, <2>4
    <3>2. /\ MessagesInOrder(k, p) /\ Len(k) >= 1 /\ ~InProcess(k[1])
          /\ \A i \in 1 .. Len(k) : k[i].msg = Len(posted) + 1
      BY <1>2, <2>2, <2>4, <2>6, <3>1, MessageOfWr
    <3>3. k \in Seq(Packet) /\ Queued' = Queued \o k
      BY <1>5, <2>1
    <3>4. \A i \in 1 .. Len(Queued), j \in 1 .. Len(k) : Queued[i].msg < k[j].msg
      BY <1>3, <3>2 DEF MessagesInOrder, OfPosted
    <3>5. MessagesInOrder(Queued', p)
      BY <1>3, <2>3, <3>2, <3>3, <3>4, AppendMessage
    <3>6. /\ Queued' \in Seq(Packet) /\ Len(Queued) <= Len(Queued')
          /\ \A m \in 1 .. Len(Queued) : Queued'[m] = Queued[m]
          /\ \A m \in 1 .. Len(k) : Queued'[Len(Queued) + m] = k[m]
      BY <1>3, <3>3, Joined
    <3>7. 1 \in 1 .. Len(k)
      BY <3>2, <3>3
    <3>8. Queued'[Len(Queued) + 1] = k[1] /\ k[1].msg = Len(posted) + 1
      BY <3>2, <3>6, <3>7
    <3>9. Len(posted) <= Len(posted')
      BY <1>3, <2>2
    <3>10. /\ posted' = p /\ p \in Seq(SendWR) /\ \A m \in 1 .. Len(posted) : p[m] = posted[m]
      BY <2>2
    <3> QED
      BY ONLY <1>2, <1>3, <3>2, <3>5, <3>6, <3>8, <3>9, <3>10
  <2> QED
    BY <1>5, <2>1, <2>5, <2>6
<1> QED
  BY <1>1, <1>4, <1>5

LEMMA PostExpected ==
  ASSUME ReqInv, MessagesInOrder(Queued, posted), NEW w \in Requests, PostSend(w),
         NEW k \in Nat, k \in 1 .. Len(Queued) + 1, RespPlace(k), Delivered(k),
         IsList(received), UNCHANGED <<resp_u, received>>
  PROVE  (RespPlace(k) /\ Delivered(k))'
<1>1. /\ Len(Queued) <= Len(Queued') /\ Len(posted) <= Len(posted')
      /\ Len(Queued) \in Nat /\ Len(Queued') \in Nat /\ Len(posted) \in Nat
      /\ Len(posted') \in Nat
      /\ \A m \in 1 .. Len(Queued) : Queued'[m] = Queued[m]
      /\ Len(Queued) < Len(Queued') =>
           /\ ~InProcess(Queued'[Len(Queued) + 1])
           /\ Queued'[Len(Queued) + 1].msg = Len(posted) + 1
  BY PostMessages
<1>2. Len(received) \in Nat /\ Len(received) <= Len(posted)
  BY AppendList DEF Delivered
<1>3. CASE k \in 1 .. Len(Queued)
  <2>1. Queued'[k] = Queued[k] /\ k <= Len(Queued) /\ k <= Len(Queued')
    BY <1>1, <1>3
  <2> QED
    BY <1>1, <1>2, <2>1 DEF RespPlace, Delivered
<1>4. CASE k = Len(Queued) + 1
  <2>1. resp_u.kind # "wr"
    BY <1>1, <1>4 DEF RespPlace
  <2>2. k <= Len(Queued') => /\ ~InProcess(Queued'[k]) /\ Queued'[k].msg = Len(posted) + 1
    BY <1>1, <1>4
  <2> QED
    BY <1>1, <1>2, <2>1, <2>2 DEF RespPlace, Delivered
<1> QED
  BY <1>1, <1>3, <1>4

\* roce_post_recv numbers the receive WRs in the order they come.
LEMMA PostRecvWrs ==
  ASSUME RecvWrs, NEW cap \in Capacities, PostRecv(cap)
  PROVE  RecvWrs'
<1> DEFINE new == NewRecvWr(recv_posted + 1, cap)
<1>1. /\ rq \in Seq(RecvWR) /\ IsList(received) /\ recv_posted \in Nat
      /\ Len(received) + Held + Len(rq) = recv_posted
      /\ \A i \in 1 .. Len(rq) : rq[i].id = Len(received) + Held + i
  BY DEF RecvWrs
<1>2. new \in RecvWR /\ new.id = recv_posted + 1
  <2>1. cap \in Nat /\ recv_posted + 1 \in Nat
    BY <1>1, ResponderAssumption
  <2> QED
    BY <2>1 DEF NewRecvWr, RecvWR
<1> HIDE DEF new
<1>3. /\ rq' = Append(rq, new) /\ recv_posted' = recv_posted + 1
      /\ UNCHANGED <<resp_u, received>>
  BY DEF PostRecv, new
<1>4. /\ rq' \in Seq(RecvWR) /\ Len(rq') = Len(rq) + 1 /\ Len(rq) \in Nat
      /\ rq'[Len(rq) + 1] = new /\ \A i \in 1 .. Len(rq) : rq'[i] = rq[i]
  BY <1>1, <1>2, <1>3
<1>5. PICK h \in {0, 1} : h = Held /\ Held' = h
  BY <1>3 DEF Held
<1>6. PICK n \in Nat : n = Len(received)
  BY <1>1, AppendList
<1>7. ASSUME NEW i \in 1 .. Len(rq) + 1 PROVE rq'[i].id = n + h + i
  <2>1. CASE i = Len(rq) + 1
    BY <1>1, <1>2, <1>4, <1>5, <1>6, <2>1
  <2>2. CASE i # Len(rq) + 1
    <3>1. i \in 1 .. Len(rq)
      BY <1>4, <2>2
    <3> QED
      BY <1>1, <1>4, <1>5, <1>6, <3>1
  <2> QED
    BY <2>1, <2>2
<1>8. n + h + Len(rq') = recv_posted' /\ recv_posted' \in Nat
  <2>1. PICK l, r \in Nat : l = Len(rq) /\ r = recv_posted
    BY <1>1, <1>4
  <2>2. n + h + l = r /\ Len(rq') = l + 1 /\ recv_posted' = r + 1
    <3>1. n + h + l = r
      BY <1>1, <1>5, <1>6, <2>1
    <3> QED
      BY <1>3, <1>4, <2>1, <3>1
  <2>3. n + h + (l + 1) = r + 1
    BY ONLY <2>2, n \in Nat, h \in {0, 1}, l \in Nat, r \in Nat
  <2> QED
    BY ONLY <2>2, <2>3, r \in Nat
<1> QED
  BY <1>3, <1>4, <1>5, <1>6, <1>7, <1>8 DEF RecvWrs

LEMMA RecvWrsInit == ASSUME Init PROVE RecvWrs /\ Held = 0
<1>1. /\ rq = [i \in 1 .. Len(Preposted) |-> NewRecvWr(i, Preposted[i])]
      /\ resp_u = NullU /\ received = <<>> /\ recv_posted = Len(Preposted)
  BY DEF Init, RespInit
<1>2. Len(Preposted) \in Nat /\ \A i \in 1 .. Len(Preposted) : Preposted[i] \in Nat
  BY ResponderAssumption
<1>3. \A i \in 1 .. Len(Preposted) : /\ NewRecvWr(i, Preposted[i]) \in RecvWR
                                     /\ NewRecvWr(i, Preposted[i]).id = i
  BY <1>2 DEF NewRecvWr, RecvWR
<1>4. /\ rq \in Seq(RecvWR) /\ Len(rq) = Len(Preposted)
      /\ \A i \in 1 .. Len(rq) : rq[i].id = i
  BY <1>1, <1>2, <1>3
<1>5. received \in Seq({}) /\ Len(received) = 0
  BY <1>1
<1>6. resp_u.kind = "null" /\ Held = 0
  BY <1>1, Kinds DEF Held
<1> QED
  BY <1>1, <1>2, <1>4, <1>5, <1>6 DEF RecvWrs, IsList

\* Both sides: the numbers, the messages in the queue, the receive WRs, and packet k of
\* the queue, number r, which the responder expects.
ConnPlace(b, a, r, k) ==
  r + 1 = a + k /\ Place(b, a, r) /\ RespPlace(k) /\ Delivered(k)

ConnInv ==
  /\ TypeInv /\ RecvWrs /\ MessagesInOrder(Queued, posted)
  /\ \E b \in PSN, a, r, k \in Nat : ConnPlace(b, a, r, k)

LEMMA ConnFacts ==
  ASSUME ShortLived, ConnInv
  PROVE  /\ TypeInv /\ ReqInv /\ RecvWrs /\ MessagesInOrder(Queued, posted)
         /\ Queued \in Seq(Packet) /\ posted \in Seq(SendWR) /\ req_net \in Seq(Packet)
         /\ IsList(received) /\ rq_psn \in PSN
         /\ \E b \in PSN, a, r, k \in Nat :
              ConnPlace(b, a, r, k) /\ k \in 1 .. Len(Queued) + 1
<1>1. TypeInv /\ ReqInv /\ posted \in Seq(SendWR) /\ req_net \in Seq(Packet)
      /\ RecvWrs /\ MessagesInOrder(Queued, posted) /\ IsList(received) /\ rq_psn \in PSN
  BY DEF ConnInv, TypeInv, ReqInv, ReqTypeOK, RecvWrs, RespTypes
<1>2. PICK b \in PSN, a \in Nat, r \in Nat, k \in Nat : ConnPlace(b, a, r, k)
  BY DEF ConnInv
<1>3. Numbered(b, a, r)
  BY <1>2 DEF ConnPlace, Place
<1>4. Queued \in Seq(Packet) /\ r <= a + Len(Queued) /\ Len(Queued) \in Nat
  BY <1>1, <1>3, FewNumbers
<1>5. a <= r /\ r + 1 = a + k
  BY <1>2, <1>3 DEF Numbered, ConnPlace
<1>6. k \in 1 .. Len(Queued) + 1
  BY <1>4, <1>5
<1> QED
  BY <1>1, <1>2, <1>4, <1>6

\* The PSN after the one expected is another one.
LEMMA IncMoves ==
  ASSUME NEW p \in PSN
  PROVE  PsnInc(p) # p
<1>1. PsnHalf \in Nat /\ 1 < PsnHalf
  BY PsnHalfTwice, PsnAssumption
<1>2. PsnAdd(p, 0) # PsnAdd(p, 1)
  BY <1>1, EqualNumbers
<1> QED
  BY <1>2, PsnAddZero DEF PsnInc

\* A packet of the network reaches the responder.
LEMMA DeliverRequestConn ==
  ASSUME ShortLived, ConnInv, TypeInv', NEW i \in DOMAIN req_net, DeliverRequest(i)
  PROVE  ConnInv'
<1>1. /\ TypeInv /\ ReqInv /\ RecvWrs /\ MessagesInOrder(Queued, posted)
      /\ Queued \in Seq(Packet) /\ rq_psn \in PSN
  BY ConnFacts
<1>2. PICK b \in PSN, a \in Nat, r \in Nat, k \in Nat :
        ConnPlace(b, a, r, k) /\ k \in 1 .. Len(Queued) + 1
  BY ConnFacts
<1>3. r + 1 = a + k /\ Place(b, a, r) /\ RespPlace(k) /\ Delivered(k)
  BY <1>2 DEF ConnPlace
<1>4. /\ RecvRc(req_net[i]) /\ UNCHANGED <<outgoing_pkts, pending_pkts, posted>>
      /\ Queued' = Queued
  BY DEF DeliverRequest, Queued
<1>5. MessagesInOrder(Queued', posted')
  BY <1>1, <1>4
<1>6. \/ rq_psn' = rq_psn /\ Place(b, a, r)'
      \/ rq_psn' = PsnInc(rq_psn) /\ Place(b, a, r + 1)'
  BY <1>1, <1>3, DeliverRequestPlace
<1>7. CASE UNCHANGED <<rq_psn, rq, resp_u, received, recv_posted>>
  <2>1. RecvWrs'
    BY <1>1, <1>7 DEF RecvWrs, Held
  <2>2. (RespPlace(k) /\ Delivered(k))'
    BY <1>3, <1>4, <1>7, SameQueue
  <2>3. Place(b, a, r)'
    BY <1>1, <1>6, <1>7, IncMoves
  <2> QED
    BY <1>3, <1>5, <2>1, <2>2, <2>3 DEF ConnInv, ConnPlace
<1>8. ASSUME NEW mapped, ExpectedRequest(req_net[i], mapped) PROVE ConnInv'
  <2>1. IsExpected(req_net[i]) /\ recv_posted' = recv_posted
    BY <1>8 DEF ExpectedRequest
  <2>2. r - a + 1 \in 1 .. Len(Queued) /\ req_net[i] = Queued[r - a + 1]
    BY <1>1, <1>3, <2>1, ExpectedKept
  <2>3. r - a + 1 = k
    BY <1>3
  <2>4. k \in 1 .. Len(Queued) /\ ExpectedRequest(Queued[k], mapped)
    BY <1>8, <2>2, <2>3
  <2>5. /\ RecvWrs'
        /\ \/ rq_psn' = rq_psn /\ (RespPlace(k) /\ Delivered(k))'
           \/ rq_psn' = PsnInc(rq_psn) /\ (RespPlace(k + 1) /\ Delivered(k + 1))'
    BY <1>1, <1>3, <1>4, <2>1, <2>4, ExpectedStep
  <2>6. PsnInc(rq_psn) # rq_psn
    BY <1>1, IncMoves
  <2>7. (r + 1) + 1 = a + (k + 1) /\ r + 1 \in Nat /\ k + 1 \in Nat
    BY <1>3
  <2>8. ConnPlace(b, a, r, k)' \/ ConnPlace(b, a, r + 1, k + 1)'
    BY <1>3, <1>6, <2>5, <2>6, <2>7 DEF ConnPlace
  <2> QED
    BY <1>5, <2>5, <2>7, <2>8 DEF ConnInv
<1>9. DuplicatedRequest(req_net[i]) \/ OutOfSeq(req_net[i])
        => UNCHANGED <<rq_psn, rq, resp_u, received, recv_posted>>
  BY DEF DuplicatedRequest, OutOfSeq, resp_vars
<1> QED
  BY <1>4, <1>7, <1>8, <1>9 DEF RecvRc

\* An acknowledgement, the loss or repetition of a packet, or nothing.
LEMMA QuietConn ==
  ASSUME ConnInv, TypeInv', UNCHANGED <<resp_u, received, posted>>, Queued' = Queued, RecvWrs',
         NEW b \in PSN, NEW a \in Nat, NEW r \in Nat, NEW k \in Nat,
         ConnPlace(b, a, r, k), Place(b, a, r)'
  PROVE  ConnInv'
<1>1. r + 1 = a + k /\ RespPlace(k) /\ Delivered(k)
  BY DEF ConnPlace
<1>2. (RespPlace(k) /\ Delivered(k))'
  BY <1>1, SameQueue
<1>3. MessagesInOrder(Queued', posted')
  BY DEF ConnInv
<1> QED
  BY <1>1, <1>2, <1>3 DEF ConnInv, ConnPlace

LEMMA ConnInvStep ==
  ASSUME ShortLived, ConnInv, [Next]_vars
  PROVE  ConnInv'
<1>1. /\ TypeInv /\ ReqInv /\ RecvWrs /\ MessagesInOrder(Queued, posted)
      /\ Queued \in Seq(Packet) /\ posted \in Seq(SendWR) /\ IsList(received)
  BY ConnFacts
<1>2. PICK b \in PSN, a \in Nat, r \in Nat, k \in Nat :
        ConnPlace(b, a, r, k) /\ k \in 1 .. Len(Queued) + 1
  BY ConnFacts
<1>3. r + 1 = a + k /\ Place(b, a, r) /\ RespPlace(k) /\ Delivered(k)
  BY <1>2 DEF ConnPlace
<1>4. TypeInv'
  BY <1>1, TypeInvStep
<1>5. UNCHANGED <<rq, resp_u, received, recv_posted>> => RecvWrs'
  BY <1>1 DEF RecvWrs, Held
<1>6. ASSUME NEW w \in Requests, Post(w) PROVE ConnInv'
  <2>1. PostSend(w) /\ UNCHANGED <<rq, resp_u, received, recv_posted>>
    BY <1>6 DEF Post, resp_vars
  <2>2. Place(b, a, r)'
    BY <1>1, <1>3, <1>4, <1>6, PostPlace
  <2>3. MessagesInOrder(Queued', posted')
    BY <1>1, <2>1, PostMessages
  <2>4. (RespPlace(k) /\ Delivered(k))'
    BY <1>1, <1>2, <1>3, <2>1, PostExpected
  <2> QED
    BY <1>3, <1>4, <1>5, <2>1, <2>2, <2>3, <2>4 DEF ConnInv, ConnPlace
<1>7. ASSUME NEW i \in DOMAIN req_net, DeliverRequest(i) PROVE ConnInv'
  BY <1>4, <1>7, DeliverRequestConn
<1>8. ASSUME NEW i \in DOMAIN ack_net, DeliverAck(i) PROVE ConnInv'
  <2>1. Place(b, a, r)' /\ Queued' = Queued
    BY <1>1, <1>3, <1>8, DeliverAckPlace DEF Queued
  <2>2. UNCHANGED <<rq, resp_u, received, recv_posted, posted>>
    BY <1>8 DEF DeliverAck, HandleAcknowledge, history
  <2> QED
    BY <1>2, <1>4, <1>5, <2>1, <2>2, QuietConn
<1>9. ASSUME AckOne, UNCHANGED <<resp_vars, lost, dup>> PROVE ConnInv'
  <2>1. /\ Place(b, a + 1, r)' /\ a + 1 <= r /\ Queued # <<>> /\ Queued' = Tail(Queued)
        /\ UNCHANGED <<rq, resp_u, received, recv_posted, posted>>
    BY <1>1, <1>3, <1>4, <1>9, AckOnePlace DEF resp_vars, AckOne
  <2>2. PICK m \in Nat \ {0} : k = m + 1
    <3>1. k - 1 \in Nat \ {0} /\ k = (k - 1) + 1
      BY <1>3, <2>1
    <3> QED
      BY <3>1
  <2>3. (RespPlace(m) /\ Delivered(m))'
    BY <1>1, <1>3, <2>1, <2>2, TailQueue
  <2>4. r + 1 = (a + 1) + m /\ a + 1 \in Nat
    BY <1>3, <2>2
  <2>5. MessagesInOrder(Queued', posted')
    BY <1>1, <2>1, FewerMessages
  <2>6. ConnPlace(b, a + 1, r, m)'
    BY <2>1, <2>3, <2>4 DEF ConnPlace
  <2> QED
    BY <1>4, <1>5, <2>1, <2>4, <2>5, <2>6 DEF ConnInv
<1>10. ASSUME AckDone, UNCHANGED <<resp_vars, lost, dup>> PROVE ConnInv'
  <2>1. Place(b, a, r)' /\ Queued' = Queued
    BY <1>1, <1>3, <1>4, <1>10, AckDonePlace
  <2>2. UNCHANGED <<rq, resp_u, received, recv_posted, posted>>
    BY <1>10 DEF AckDone, resp_vars, history
  <2> QED
    BY <1>2, <1>4, <1>5, <2>1, <2>2, QuietConn
<1>11. ASSUME NEW cap \in Capacities, Recv(cap) PROVE ConnInv'
  <2>1. Place(b, a, r)' /\ Queued' = Queued
    BY <1>1, <1>3, <1>11, NetPlace DEF Queued
  <2>2. UNCHANGED <<resp_u, received, posted>> /\ RecvWrs'
    BY <1>1, <1>11, PostRecvWrs DEF Recv, PostRecv, req_vars
  <2> QED
    BY <1>2, <1>4, <2>1, <2>2, QuietConn
<1>12. CASE Lose \/ Duplicate \/ UNCHANGED vars
  <2>1. Place(b, a, r)' /\ Queued' = Queued /\ posted' = posted
    BY <1>1, <1>3, <1>12, NetPlace DEF Queued
  <2>2. UNCHANGED <<rq, resp_u, received, recv_posted>>
    BY <1>12 DEF Lose, Duplicate, vars, resp_vars
  <2> QED
    BY <1>2, <1>4, <1>5, <2>1, <2>2, QuietConn
<1> QED
  BY <1>6, <1>7, <1>8, <1>9, <1>10, <1>11, <1>12 DEF Next, Deliverable, AckLoop

LEMMA ConnInvInit == ASSUME ShortLived, Init PROVE ConnInv
<1>1. TypeInv /\ RecvWrs /\ sq_psn \in PSN /\ Place(sq_psn, 0, 0)
  BY TypeInvInit, RecvWrsInit, PlaceInit
<1>2. /\ Queued = <<>> /\ posted = <<>> /\ received = <<>> /\ resp_u = NullU
  BY DEF Init, ReqInit, RespInit, Queued
<1>3. Len(Queued) = 0 /\ Len(posted) = 0 /\ Len(received) = 0
  BY <1>2
<1>4. MessagesInOrder(Queued, posted)
  BY <1>2, <1>3 DEF MessagesInOrder
<1>5. RespPlace(1) /\ Delivered(1)
  BY <1>2, <1>3, Kinds DEF RespPlace, Delivered
<1>6. ConnPlace(sq_psn, 0, 0, 1)
  BY <1>1, <1>5 DEF ConnPlace
<1> QED
  BY <1>1, <1>4, <1>6 DEF ConnInv

\* The inductive invariant of the connection.
THEOREM ConnectionInvariant ==
  ASSUME ShortLived
  PROVE  Spec => []ConnInv
<1>1. Init => ConnInv
  BY ConnInvInit
<1>2. ConnInv /\ [Next]_vars => ConnInv'
  BY ConnInvStep
<1> QED
  BY <1>1, <1>2, PTL DEF Spec

(***************************************************************************)
(* resp.wr is never taken for resp.iova, nor the reverse, with any mixture *)
(* of opcodes and lengths, mappings that fail, receive WRs that are too    *)
(* short, late or missing, and packets lost, repeated and reordered:       *)
(* nothing in the QP records which of the two is stored, and it is the     *)
(* order of the packets, message after message, that tells.                *)
(***************************************************************************)
THEOREM UnionNeverMistaken ==
  ASSUME ShortLived
  PROVE  Spec => []UnionSound
<1>1. ConnInv => UnionSound
  <2> SUFFICES ASSUME ConnInv, NEW i \in 1 .. Len(Queued),
                      Queued[i].psn = rq_psn, InProcess(Queued[i])
               PROVE  IF IsSend(Queued[i]) THEN resp_u.kind # "iova"
                                           ELSE resp_u.kind # "wr"
    BY DEF UnionSound
  <2>1. PICK b \in PSN, a \in Nat, r \in Nat, k \in Nat :
          ConnPlace(b, a, r, k) /\ k \in 1 .. Len(Queued) + 1
    BY ConnFacts
  <2>2. ReqInv /\ TypeInv
    BY ConnFacts
  <2>3. /\ r + 1 = a + k /\ RespPlace(k)
        /\ Numbered(b, a, r) /\ sq_psn = PsnAdd(b, a) /\ rq_psn = PsnAdd(b, r)
    BY <2>1 DEF ConnPlace, Place, Numbered
  <2>4. Queued[i].psn = PsnAdd(b, a + (i - 1))
    BY <2>2, <2>3, QueuedNumber
  <2>5. a + Len(Queued) < PsnHalf - 1 /\ PsnHalf \in Nat /\ Len(Queued) \in Nat
    BY <2>2, <2>3, FewNumbers
  <2>6. PICK j \in Int : j = a + (i - 1)
    BY <2>5
  <2>7. r - j < PsnHalf /\ j - r < PsnHalf /\ PsnAdd(b, j) = PsnAdd(b, r)
    BY <2>1, <2>3, <2>4, <2>5, <2>6
  <2>8. j = r
    BY <2>7, EqualNumbers
  <2>9. i = k
    BY <2>3, <2>5, <2>6, <2>8
  <2> QED
    BY <2>3, <2>5, <2>9 DEF RespPlace
<1> QED
  BY <1>1, ConnectionInvariant, PTL

\* Every receive WR that was posted is completed, held for the message in progress or
\* still queued, in this order and with none lost: also those that a FIRST packet left
\* in resp.wr when its message could not be stored.
THEOREM RecvWrsAlwaysConserved ==
  ASSUME ShortLived
  PROVE  Spec => []RecvWrsConserved
<1>1. RecvWrs => RecvWrsConserved
  <2> SUFFICES ASSUME RecvWrs PROVE RecvWrsConserved
    OBVIOUS
  <2> DEFINE held == IF resp_u.kind = "wr" THEN <<resp_u.wr.id>> ELSE <<>>
             used == [i \in DOMAIN received |-> received[i].wr]
             left == [i \in DOMAIN rq |-> rq[i].id]
  <2>1. /\ rq \in Seq(RecvWR) /\ IsList(received) /\ recv_posted \in Nat
        /\ resp_u.kind = "wr" => resp_u.wr.id = Len(received) + 1
        /\ Len(received) + Held + Len(rq) = recv_posted
        /\ \A i \in 1 .. Len(received) : received[i].wr = i
        /\ \A i \in 1 .. Len(rq) : rq[i].id = Len(received) + Held + i
    BY DEF RecvWrs
  <2>2. PICK n \in Nat, h \in {0, 1} :
          n = Len(received) /\ DOMAIN received = 1 .. n /\ h = Held
    BY <2>1, AppendList DEF Held, IsList
  <2>3. PICK m \in Nat : m = Len(rq) /\ DOMAIN rq = 1 .. m
    BY <2>1
  <2>4. /\ used \in Seq(Nat) /\ Len(used) = n /\ \A i \in 1 .. n : used[i] = i
    <3>1. \A i \in 1 .. n : received[i].wr = i
      BY <2>1, <2>2
    <3>2. used = [i \in 1 .. n |-> i]
      BY <2>2, <3>1
    <3> QED
      BY <3>2
  <2>5. /\ held \in Seq(Nat) /\ Len(held) = h /\ \A i \in 1 .. h : held[i] = n + i
    <3>1. CASE resp_u.kind = "wr"
      <4>1. h = 1 /\ held = <<n + 1>>
        BY <2>1, <2>2, <3>1 DEF Held
      <4> HIDE DEF held
      <4> QED
        BY <4>1
    <3>2. CASE resp_u.kind # "wr"
      <4>1. h = 0 /\ held = <<>>
        BY <2>2, <3>2 DEF Held
      <4> HIDE DEF held
      <4> QED
        BY <4>1
    <3> QED
      BY <3>1, <3>2
  <2>6. /\ left \in Seq(Nat) /\ Len(left) = m /\ \A i \in 1 .. m : left[i] = n + h + i
    <3>1. \A i \in 1 .. m : rq[i].id = n + h + i
      BY <2>1, <2>2, <2>3
    <3>2. left = [i \in 1 .. m |-> n + h + i]
      BY <2>3, <3>1
    <3> QED
      BY <3>2
  <2> HIDE DEF held, used, left
  <2>7. PICK uh : uh = used \o held
    OBVIOUS
  <2>8. /\ uh \in Seq(Nat) /\ Len(uh) = n + h
        /\ \A i \in 1 .. n + h : uh[i] = i
    <3>1. uh \in Seq(Nat) /\ Len(uh) = n + h
      BY <2>4, <2>5, <2>7, Joined
    <3>2. ASSUME NEW i \in 1 .. n + h PROVE uh[i] = i
      <4>1. uh[i] = IF i <= n THEN used[i] ELSE held[i - n]
        BY <2>4, <2>5, <2>7, ConcatProperties
      <4>2. CASE i <= n
        BY <2>4, <4>1, <4>2
      <4>3. CASE ~(i <= n)
        <5>1. i - n \in 1 .. h /\ n + (i - n) = i
          BY <4>3
        <5> QED
          BY <2>5, <4>1, <4>3, <5>1
      <4> QED
        BY <4>2, <4>3
    <3> QED
      BY <3>1, <3>2
  <2>9. PICK all : all = uh \o left
    OBVIOUS
  <2>10. /\ all \in Seq(Nat) /\ Len(all) = recv_posted
         /\ \A i \in 1 .. recv_posted : all[i] = i
    <3>1. all \in Seq(Nat) /\ Len(all) = n + h + m /\ recv_posted = n + h + m
      BY <2>1, <2>2, <2>3, <2>6, <2>8, <2>9, Joined
    <3>2. ASSUME NEW i \in 1 .. n + h + m PROVE all[i] = i
      <4>1. all[i] = IF i <= n + h THEN uh[i] ELSE left[i - (n + h)]
        BY <2>6, <2>8, <2>9, ConcatProperties
      <4>2. CASE i <= n + h
        BY <2>8, <4>1, <4>2
      <4>3. CASE ~(i <= n + h)
        <5>1. i - (n + h) \in 1 .. m /\ n + h + (i - (n + h)) = i
          BY <4>3
        <5> QED
          BY <2>6, <4>1, <4>3, <5>1
      <4> QED
        BY <4>2, <4>3
    <3> QED
      BY <3>1, <3>2
  <2>11. all = [i \in 1 .. recv_posted |-> i]
    BY <2>1, <2>10
  <2>12. all = used \o held \o left
    BY <2>7, <2>9
  <2> QED
    BY <2>11, <2>12 DEF RecvWrsConserved, used, held, left
<1>2. ConnInv => RecvWrs
  BY DEF ConnInv
<1> QED
  BY <1>1, <1>2, ConnectionInvariant, PTL

-----------------------------------------------------------------------------
(* Where RDMA WRITEs are stored. *)

\* A receive WR is there before the first message: without one, the last packet of a
\* WRITE with immediate data is stored and counted in writtenlen but not accepted, and
\* is stored further on when it is sent again.
EnoughRecvs == MaxPosts <= Len(Preposted)

\* Rest of a WRITE: resp.iova and resp.writtenlen are those of the packet expected.
WritePlace ==
  \A k \in 1 .. Len(Queued) :
    Queued[k].psn = rq_psn /\ InProcess(Queued[k]) /\ ~IsSend(Queued[k]) =>
      writtenlen = Queued[k].off /\ resp_u = IovaU(Queued[k].va)

\* A unit in memory is at its place, and of a message that was posted.
CellsInPlace ==
  \A c \in DOMAIN mem :
    mem[c] # Blank => /\ mem[c][1] \in 1 .. Len(posted)
                      /\ c = posted[mem[c][1]].va + mem[c][2]

WriteInv == /\ WritePlace /\ CellsInPlace /\ DOMAIN mem = 0 .. MemSize - 1
            /\ Len(Preposted) <= recv_posted

\* The packets of the queue have different PSNs; the one expected is the one after the
\* last, or one of them.
Expecting(k) ==
  /\ k \in 1 .. Len(Queued) + 1
  /\ \A i \in 1 .. Len(Queued) + 1 : PsnAdd(sq_psn, i - 1) = rq_psn <=> i = k
  /\ \A i \in 1 .. Len(Queued) : Queued[i].psn = rq_psn <=> i = k
  /\ \A i \in 1 .. Len(Queued) : Queued[i].psn = PsnInc(rq_psn) <=> i = k + 1

OneExpected == \E k \in Nat : Expecting(k) /\ RespPlace(k) /\ Delivered(k)

LEMMA ConnOneExpected == ASSUME ShortLived, ConnInv PROVE OneExpected
<1>1. /\ TypeInv /\ ReqInv
  BY ConnFacts
<1>2. PICK b \in PSN, a \in Nat, r \in Nat, k \in Nat :
        ConnPlace(b, a, r, k) /\ k \in 1 .. Len(Queued) + 1
  BY ConnFacts
<1>3. /\ r + 1 = a + k /\ RespPlace(k) /\ Delivered(k)
      /\ Numbered(b, a, r) /\ sq_psn = PsnAdd(b, a) /\ rq_psn = PsnAdd(b, r)
  BY <1>2 DEF ConnPlace, Place, Numbered
<1>4. a + Len(Queued) < PsnHalf - 1 /\ PsnHalf \in Nat /\ Len(Queued) \in Nat
  BY <1>1, <1>3, FewNumbers
<1>5. PsnInc(rq_psn) = PsnAdd(b, r + 1)
  BY <1>3, IncNumber
<1>6. ASSUME NEW i \in 1 .. Len(Queued)
      PROVE  /\ Queued[i].psn = rq_psn <=> i = k
             /\ Queued[i].psn = PsnInc(rq_psn) <=> i = k + 1
  <2>1. PICK j \in Int : j = a + (i - 1)
    BY <1>4
  <2>2. Queued[i].psn = PsnAdd(b, j)
    BY <1>1, <1>3, <2>1, QueuedNumber
  <2>3. /\ r \in Int /\ r + 1 \in Int
        /\ r - j < PsnHalf /\ j - r < PsnHalf
        /\ (r + 1) - j < PsnHalf /\ j - (r + 1) < PsnHalf
    BY <1>2, <1>3, <1>4, <2>1
  <2>4. PsnAdd(b, j) = PsnAdd(b, r) <=> j = r
    BY <2>3, EqualNumbers
  <2>5. PsnAdd(b, j) = PsnAdd(b, r + 1) <=> j = r + 1
    BY <2>3, EqualNumbers
  <2>6. (j = r <=> i = k) /\ (j = r + 1 <=> i = k + 1)
    BY <1>3, <2>1
  <2> QED
    BY <1>3, <1>5, <2>2, <2>4, <2>5, <2>6
<1>7. ASSUME NEW i \in 1 .. Len(Queued) + 1
      PROVE  PsnAdd(sq_psn, i - 1) = rq_psn <=> i = k
  <2>1. PICK j \in Int : j = a + (i - 1)
    BY <1>4
  <2>2. PsnAdd(sq_psn, i - 1) = PsnAdd(b, j)
    <3>1. b \in Int /\ a \in Int /\ i - 1 \in Int
      BY <1>4, PsnAssumption DEF PSN
    <3> QED
      BY <1>3, <2>1, <3>1, PsnAddAdd
  <2>3. r \in Int /\ r - j < PsnHalf /\ j - r < PsnHalf /\ (j = r <=> i = k)
    BY <1>2, <1>3, <1>4, <2>1
  <2>4. PsnAdd(b, j) = PsnAdd(b, r) <=> j = r
    BY <2>3, EqualNumbers
  <2> QED
    BY <1>3, <2>2, <2>3, <2>4
<1> QED
  BY <1>2, <1>3, <1>6, <1>7 DEF OneExpected, Expecting

LEMMA PlaceOfUnit ==
  ASSUME NEW v \in Int, NEW o \in Int, NEW c \in Int
  PROVE  v + (o + (c - (v + o) + 1) - 1) = c
  OBVIOUS

\* The address at which roce_rdma_write_payload stores the packet expected.
LEMMA WriteAddrPlace ==
  ASSUME TypeInv, WriteInv, posted \in Seq(SendWR),
         NEW k \in 1 .. Len(Queued), NEW x \in Packet, x = Queued[k], OfPosted(x, posted),
         x.psn = rq_psn, ~IsSend(x), InProcess(x) = (writtenlen # 0)
  PROVE  /\ writtenlen = x.off /\ WriteUnit(x) = IovaU(x.va)
         /\ WriteAddr(x) = x.va + x.off
<1>1. /\ x.off \in Nat /\ x.va \in Nat /\ writtenlen \in Nat
      /\ IF InProcess(x) THEN x.off > 0 ELSE x.off = 0
  BY DEF OfPosted, Packet, TypeInv, RespTypes
<1>2. writtenlen = x.off /\ WriteUnit(x) = IovaU(x.va)
  <2>1. CASE writtenlen = 0
    BY <1>1, <2>1 DEF WriteUnit
  <2>2. CASE writtenlen # 0
    BY <2>2 DEF WriteInv, WritePlace, WriteUnit
  <2> QED
    BY <2>1, <2>2
<1>3. CASE x.va = 0
  BY <1>1, <1>2, <1>3 DEF WriteAddr, IovaU, NullU
<1>4. CASE x.va # 0
  BY <1>1, <1>2, <1>4 DEF WriteAddr, IovaU
<1> QED
  BY <1>2, <1>3, <1>4

\* What roce_rdma_write_payload stores goes to the place of its units.
LEMMA CellsWritten ==
  ASSUME TypeInv, WriteInv, posted \in Seq(SendWR),
         NEW k \in 1 .. Len(Queued), NEW x \in Packet, x = Queued[k], OfPosted(x, posted),
         x.psn = rq_psn, ~IsSend(x), InProcess(x) = (writtenlen # 0),
         mem' = Written(WriteAddr(x), x), posted' = posted
  PROVE  CellsInPlace' /\ DOMAIN mem' = 0 .. MemSize - 1
<1>1. /\ x.msg \in 1 .. Len(posted) /\ x.va = posted[x.msg].va
      /\ x.off \in Nat /\ x.va \in Nat /\ x.len \in Nat /\ MemSize \in Nat
  BY ResponderAssumption DEF OfPosted, Packet
<1>2. PICK addr \in Nat : addr = WriteAddr(x) /\ addr = x.va + x.off
  BY <1>1, WriteAddrPlace
<1>3. mem' = [c \in 0 .. MemSize - 1 |-> IF c \in addr .. addr + x.len - 1
                                          THEN Units(x)[c - addr + 1] ELSE mem[c]]
  BY <1>2 DEF Written
<1>4. ASSUME NEW c \in 0 .. MemSize - 1, mem'[c] # Blank
      PROVE  mem'[c][1] \in 1 .. Len(posted) /\ c = posted[mem'[c][1]].va + mem'[c][2]
  <2>1. CASE c \in addr .. addr + x.len - 1
    <3>1. c - addr + 1 \in 1 .. x.len
      <4>1. PICK n \in Nat : n = x.len
        BY <1>1
      <4>2. c - addr + 1 \in 1 .. n
        BY <1>1, <2>1, <4>1
      <4> QED
        BY <4>1, <4>2
    <3>2. mem'[c] = <<x.msg, x.off + (c - addr + 1) - 1>>
      BY <1>3, <2>1, <3>1 DEF Units
    <3>3. x.va + (x.off + (c - addr + 1) - 1) = c
      <4>1. c \in Int /\ x.va \in Int /\ x.off \in Int /\ addr = x.va + x.off
        BY <1>1, <1>2
      <4> QED
        BY <4>1, PlaceOfUnit
    <3> QED
      BY <1>1, <3>2, <3>3
  <2>2. CASE ~(c \in addr .. addr + x.len - 1)
    <3>1. mem'[c] = mem[c] /\ c \in DOMAIN mem
      BY <1>3, <2>2 DEF WriteInv
    <3> QED
      BY <1>4, <3>1 DEF WriteInv, CellsInPlace
  <2> QED
    BY <2>1, <2>2
<1>5. DOMAIN mem' = 0 .. MemSize - 1
  BY <1>3
<1> QED
  BY <1>4, <1>5 DEF CellsInPlace

\* The place of a WRITE in memory outlives every step that leaves the responder alone.
LEMMA WritePlaceKept ==
  ASSUME WritePlace, UNCHANGED <<rq_psn, resp_u, writtenlen>>,
         \A i \in 1 .. Len(Queued') :
           \E m \in 1 .. Len(Queued) : Queued'[i] = Queued[m]
  PROVE  WritePlace'
  BY DEF WritePlace

LEMMA CellsKept ==
  ASSUME CellsInPlace, UNCHANGED mem, posted \in Seq(SendWR), posted' \in Seq(SendWR),
         Len(posted) <= Len(posted'),
         \A m \in 1 .. Len(posted) : posted'[m] = posted[m]
  PROVE  CellsInPlace'
<1>1. Len(posted) \in Nat /\ Len(posted') \in Nat
  OBVIOUS
<1> QED
  BY <1>1 DEF CellsInPlace

\* Each receive completion is that of a message, so that one is left for the next.
LEMMA RecvWrLeft ==
  ASSUME EnoughRecvs, RecvWrs, WriteInv, posted \in Seq(SendWR), Len(posted) <= MaxPosts,
         NEW m \in 1 .. Len(posted), Len(received) < m, resp_u.kind # "wr"
  PROVE  rq # <<>>
<1>1. Held = 0 /\ Len(received) + Held + Len(rq) = recv_posted /\ Len(received) \in Nat
  BY AppendList DEF Held, RecvWrs
<1>2. /\ MaxPosts \in Nat /\ Len(posted) \in Nat /\ Len(Preposted) \in Nat
      /\ recv_posted \in Nat /\ rq \in Seq(RecvWR) /\ Len(Preposted) <= recv_posted
  BY RequesterAssumption, ResponderAssumption DEF RecvWrs, WriteInv
<1>3. Len(rq) > 0
  BY <1>1, <1>2 DEF EnoughRecvs
<1> QED
  BY <1>2, <1>3

\* A packet that is not taken leaves the place of the WRITE in progress as it is; one
\* that is taken makes it that of the next.
LEMMA ExpectedWrite ==
  ASSUME TypeInv, WriteInv, EnoughRecvs, RecvWrs, MessagesInOrder(Queued, posted),
         Queued \in Seq(Packet), posted \in Seq(SendWR), Len(posted) <= MaxPosts,
         NEW k \in 1 .. Len(Queued), Expecting(k), RespPlace(k), Delivered(k),
         NEW mapped, ExpectedRequest(Queued[k], mapped),
         Queued' = Queued, posted' = posted
  PROVE  WriteInv'
<1>1. PICK x, y : x = Queued[k] /\ y = Queued[k + 1]
  OBVIOUS
<1>2. /\ x \in Packet /\ OfPosted(x, posted) /\ x.psn = rq_psn /\ recv_posted' = recv_posted
      /\ Len(Preposted) <= recv_posted /\ DOMAIN mem = 0 .. MemSize - 1
      /\ x.va \in Nat /\ x.off \in Nat /\ x.len \in Nat /\ writtenlen \in Nat
  <2>1. x \in Packet /\ OfPosted(x, posted)
    BY <1>1 DEF MessagesInOrder
  <2>2. x.psn = rq_psn
    BY <1>1 DEF Expecting
  <2>3. x.va \in Nat /\ x.off \in Nat /\ x.len \in Nat
    BY <2>1 DEF Packet
  <2>4. Len(Preposted) <= recv_posted /\ DOMAIN mem = 0 .. MemSize - 1
    BY DEF WriteInv
  <2>5. writtenlen \in Nat /\ recv_posted' = recv_posted
    BY DEF TypeInv, RespTypes, ExpectedRequest
  <2> QED
    BY <2>1, <2>2, <2>3, <2>4, <2>5
\* Another packet than the one expected, or the one expected when the PSN moved.
<1>3. ASSUME rq_psn' = rq_psn,
             InProcess(x) /\ ~IsSend(x) => writtenlen' = x.off /\ resp_u' = IovaU(x.va)
      PROVE  WritePlace'
  BY <1>1, <1>3 DEF WritePlace, Expecting
<1>4. ASSUME rq_psn' = PsnInc(rq_psn),
             k + 1 <= Len(Queued) /\ InProcess(y) /\ ~IsSend(y)
               => writtenlen' = y.off /\ resp_u' = IovaU(y.va)
      PROVE  WritePlace'
  <2> SUFFICES ASSUME NEW i \in 1 .. Len(Queued), Queued[i].psn = PsnInc(rq_psn),
                      InProcess(Queued[i]), ~IsSend(Queued[i])
               PROVE  writtenlen' = Queued[i].off /\ resp_u' = IovaU(Queued[i].va)
    BY <1>4 DEF WritePlace
  <2>1. i = k + 1
    BY DEF Expecting
  <2> QED
    BY <1>1, <1>4, <2>1
<1>5. /\ k + 1 <= Len(Queued) => NextInMessage(x, y) /\ OfPosted(y, posted)
      /\ InProcess(x) /\ ~IsSend(x) => writtenlen = x.off /\ resp_u = IovaU(x.va)
  <2>1. ASSUME k + 1 <= Len(Queued) PROVE NextInMessage(x, y) /\ OfPosted(y, posted)
    <3>1. k \in 1 .. Len(Queued) - 1 /\ k + 1 \in 1 .. Len(Queued)
      BY <2>1
    <3> QED
      BY <1>1, <3>1 DEF MessagesInOrder
  <2> QED
    BY <1>1, <1>2, <2>1 DEF WriteInv, WritePlace
<1>6. k + 1 <= Len(Queued) /\ InProcess(y) =>
        /\ ~EndsMessage(x) /\ (IsSend(x) <=> IsSend(y)) /\ y.va = x.va
        /\ y.off = x.off + x.len /\ (~IsSend(x) => x.op = "WRITE")
  <2>1. EndsMessage(x) \in BOOLEAN /\ IsSend(x) \in BOOLEAN
    BY DEF EndsMessage, IsSend
  <2>2. IsSend(x) <=> x.op \in {"SEND", "SEND_IMM", "SEND_INV"}
    BY DEF IsSend
  <2> QED
    BY <1>2, <1>5, <2>1, <2>2 DEF NextInMessage, OfPosted
<1>7. CASE IsSend(x)
  <2>1. UNCHANGED <<writtenlen, mem>>
    BY <1>1, <1>7 DEF ExpectedRequest, IsSend
  <2>2. rq_psn' = rq_psn \/ rq_psn' = PsnInc(rq_psn)
    BY <1>1, <1>7 DEF ExpectedRequest, RecvPayload, Drop, Accept, IsSend
  <2>3. WritePlace'
    <3>1. k + 1 <= Len(Queued) /\ InProcess(y) => IsSend(y)
      BY <1>6, <1>7
    <3> QED
      BY <1>3, <1>4, <1>7, <2>2, <3>1
  <2>4. CellsInPlace'
    BY <2>1 DEF WriteInv, CellsInPlace
  <2> QED
    BY <1>2, <2>1, <2>3, <2>4 DEF WriteInv
<1>8. CASE ~IsSend(x)
  <2>1. RdmaWritePayload(x, mapped) /\ x.op \in {"WRITE", "WRITE_IMM"}
    BY <1>1, <1>8 DEF ExpectedRequest, IsSend
  <2>2. rq # <<>>
    BY <1>1, <1>2, <1>8, RecvWrLeft DEF RespPlace, Delivered, OfPosted
  <2>3. CASE /\ rq_psn' = rq_psn /\ UNCHANGED <<writtenlen, mem>>
             /\ \/ resp_u' = resp_u
                \/ InProcess(x) = (writtenlen # 0) /\ resp_u' = WriteUnit(x)
    <3>1. InProcess(x) => resp_u' = resp_u
      BY <2>3 DEF WriteUnit, InProcess
    <3>2. WritePlace'
      BY <1>3, <1>5, <2>3, <3>1
    <3>3. CellsInPlace'
      BY <2>3 DEF WriteInv, CellsInPlace
    <3> QED
      BY <1>2, <2>3, <3>2, <3>3 DEF WriteInv
  <2>4. CASE /\ InProcess(x) = (writtenlen # 0) /\ rq_psn' = PsnInc(rq_psn)
             /\ mem' = Written(WriteAddr(x), x)
             /\ \/ resp_u' = WriteUnit(x) /\ writtenlen' = writtenlen + x.len
                \/ x.op = "WRITE_IMM"
    <3>1. CellsInPlace' /\ DOMAIN mem' = 0 .. MemSize - 1
      BY <1>1, <1>2, <1>8, <2>4, CellsWritten
    <3>2. ASSUME k + 1 <= Len(Queued), InProcess(y)
          PROVE  writtenlen' = y.off /\ resp_u' = IovaU(y.va)
      <4>1. /\ y.va = x.va /\ y.off = x.off + x.len
            /\ resp_u' = WriteUnit(x) /\ writtenlen' = writtenlen + x.len
        BY <1>6, <1>8, <2>4, <3>2
      <4>2. CASE writtenlen = 0
        <5>1. ~InProcess(x) /\ x.off = 0
          BY <1>2, <2>4, <4>2 DEF OfPosted
        <5> QED
          BY <4>1, <4>2, <5>1 DEF WriteUnit
      <4>3. CASE writtenlen # 0
        <5>1. InProcess(x)
          BY <2>4, <4>3
        <5> QED
          BY <1>5, <1>8, <4>1, <4>3, <5>1 DEF WriteUnit
      <4> QED
        BY <4>2, <4>3
    <3>3. WritePlace'
      BY <1>4, <2>4, <3>2
    <3> QED
      BY <1>2, <3>1, <3>3 DEF WriteInv
  <2>5. \/ /\ rq_psn' = rq_psn /\ UNCHANGED <<writtenlen, mem>>
           /\ \/ resp_u' = resp_u
              \/ InProcess(x) = (writtenlen # 0) /\ resp_u' = WriteUnit(x)
        \/ /\ InProcess(x) = (writtenlen # 0) /\ rq_psn' = PsnInc(rq_psn)
           /\ mem' = Written(WriteAddr(x), x)
           /\ \/ resp_u' = WriteUnit(x) /\ writtenlen' = writtenlen + x.len
              \/ x.op = "WRITE_IMM"
    BY <2>1, <2>2 DEF RdmaWritePayload, Drop, Accept
  <2> QED
    BY <2>3, <2>4, <2>5
<1> QED
  BY <1>7, <1>8

\* The packets of a new message are not expected, but for the first, which starts it.
LEMMA PostWrite ==
  ASSUME ReqInv, MessagesInOrder(Queued, posted), OneExpected, OneExpected', WriteInv,
         NEW w \in Requests, PostSend(w),
         UNCHANGED <<rq_psn, resp_u, writtenlen, mem, recv_posted>>
  PROVE  WriteInv'
<1>1. /\ Len(Queued) <= Len(Queued') /\ Len(posted) <= Len(posted')
      /\ Queued \in Seq(Packet) /\ Queued' \in Seq(Packet)
      /\ posted \in Seq(SendWR) /\ posted' \in Seq(SendWR)
      /\ \A m \in 1 .. Len(Queued) : Queued'[m] = Queued[m]
      /\ \A m \in 1 .. Len(posted) : posted'[m] = posted[m]
      /\ Len(Queued) < Len(Queued') => ~InProcess(Queued'[Len(Queued) + 1])
  BY PostMessages
<1>2. Len(Queued) \in Nat /\ Len(Queued') \in Nat
  BY <1>1
<1>3. sq_psn' = sq_psn
  BY PostQueue
<1>4. CellsInPlace'
  BY <1>1, CellsKept DEF WriteInv
<1>5. PICK k \in 1 .. Len(Queued) + 1 : PsnAdd(sq_psn, k - 1) = rq_psn
  BY DEF OneExpected, Expecting
<1>6. PICK n \in Nat :
        /\ \A i \in 1 .. Len(Queued') + 1 : PsnAdd(sq_psn, i - 1) = rq_psn <=> i = n
        /\ \A i \in 1 .. Len(Queued') : Queued'[i].psn = rq_psn <=> i = n
  BY <1>3 DEF OneExpected, Expecting
<1>7. k = n
  <2>1. k \in 1 .. Len(Queued') + 1
    BY <1>1, <1>2, <1>5
  <2> QED
    BY <1>5, <1>6, <2>1
<1>8. ASSUME NEW i \in 1 .. Len(Queued'), Queued'[i].psn = rq_psn,
             InProcess(Queued'[i]), ~IsSend(Queued'[i])
      PROVE  writtenlen = Queued'[i].off /\ resp_u = IovaU(Queued'[i].va)
  <2>1. i = k
    BY <1>6, <1>7, <1>8
  <2>2. CASE i \in 1 .. Len(Queued)
    BY <1>1, <1>8, <2>2 DEF WriteInv, WritePlace
  <2>3. CASE i = Len(Queued) + 1
    BY <1>1, <1>2, <1>8, <2>3
  <2> QED
    BY <1>5, <2>1, <2>2, <2>3
<1>9. WritePlace'
  BY <1>8 DEF WritePlace
<1> QED
  BY <1>4, <1>9 DEF WriteInv

LEMMA WriteInvStep ==
  ASSUME ShortLived, EnoughRecvs, ConnInv, OneExpected, OneExpected', WriteInv, [Next]_vars
  PROVE  WriteInv'
<1>1. /\ TypeInv /\ ReqInv /\ RecvWrs /\ MessagesInOrder(Queued, posted)
      /\ Queued \in Seq(Packet) /\ posted \in Seq(SendWR) /\ recv_posted \in Nat
      /\ req_net \in Seq(Packet)
  BY ConnFacts DEF RecvWrs
<1>2. ASSUME UNCHANGED <<rq_psn, resp_u, writtenlen, mem, posted>>, recv_posted' \in Nat,
             recv_posted <= recv_posted',
             \A i \in 1 .. Len(Queued') : \E m \in 1 .. Len(Queued) : Queued'[i] = Queued[m]
      PROVE  WriteInv'
  <2>1. WritePlace'
    BY <1>2, WritePlaceKept DEF WriteInv
  <2>2. CellsInPlace'
    BY <1>2 DEF WriteInv, CellsInPlace
  <2>3. Len(Preposted) \in Nat
    BY ResponderAssumption
  <2>4. Len(Preposted) <= recv_posted'
    BY <1>1, <1>2, <2>3 DEF WriteInv
  <2> QED
    BY <1>2, <2>1, <2>2, <2>4 DEF WriteInv
<1>3. ASSUME UNCHANGED <<rq_psn, resp_u, writtenlen, mem, posted, recv_posted>>,
             Queued' = Queued
      PROVE  WriteInv'
  BY <1>1, <1>2, <1>3
<1>4. ASSUME NEW w \in Requests, Post(w) PROVE WriteInv'
  BY <1>1, <1>4, PostWrite DEF Post, resp_vars
<1>5. ASSUME NEW i \in DOMAIN req_net, DeliverRequest(i) PROVE WriteInv'
  <2>1. RecvRc(req_net[i]) /\ posted' = posted /\ Queued' = Queued
    BY <1>5 DEF DeliverRequest, Queued
  <2>2. CASE DuplicatedRequest(req_net[i]) \/ OutOfSeq(req_net[i])
    BY <1>3, <2>1, <2>2 DEF DuplicatedRequest, OutOfSeq, resp_vars
  <2>3. ASSUME NEW mapped, ExpectedRequest(req_net[i], mapped) PROVE WriteInv'
    <3>1. PICK b \in PSN, a \in Nat, r \in Nat, k \in Nat :
            ConnPlace(b, a, r, k) /\ k \in 1 .. Len(Queued) + 1
      BY ConnFacts
    <3>2. r + 1 = a + k /\ Place(b, a, r)
      BY <3>1 DEF ConnPlace
    <3>3. IsExpected(req_net[i]) /\ rq_psn = PsnAdd(b, r) /\ Len(posted) <= MaxPosts
      BY <2>3, <3>2 DEF ExpectedRequest, Place, Numbered
    <3>4. PICK m \in 1 .. Len(Queued) : req_net[i] = Queued[m] /\ Queued[m].psn = rq_psn
      BY <1>1, <3>2, <3>3, ExpectedKept
    <3>5. Expecting(m) /\ RespPlace(m) /\ Delivered(m)
      <4>1. PICK n \in Nat : Expecting(n) /\ RespPlace(n) /\ Delivered(n)
        BY DEF OneExpected
      <4>2. m = n
        BY <3>4, <4>1 DEF Expecting
      <4> QED
        BY <4>1, <4>2
    <3>6. ExpectedRequest(Queued[m], mapped)
      BY <2>3, <3>4
    <3> QED
      BY <1>1, <2>1, <3>3, <3>5, <3>6, ExpectedWrite
  <2> QED
    BY <2>1, <2>2, <2>3 DEF RecvRc
<1>6. ASSUME NEW i \in DOMAIN ack_net, DeliverAck(i) PROVE WriteInv'
  <2>1. /\ HandleAcknowledge(ack_net[i].nak, ack_net[i].psn)
        /\ UNCHANGED <<rq_psn, resp_u, writtenlen, mem, recv_posted>>
    BY <1>6 DEF DeliverAck
  <2>2. Queued' = Queued /\ posted' = posted
    BY <2>1 DEF HandleAcknowledge, queues, history, Queued
  <2> QED
    BY <1>3, <2>1, <2>2
<1>7. ASSUME AckOne, UNCHANGED <<resp_vars, lost, dup>> PROVE WriteInv'
  <2>1. /\ Queued # <<>> /\ Queued' = Tail(Queued)
        /\ UNCHANGED <<rq_psn, resp_u, writtenlen, mem, recv_posted, posted>>
    <3>1. PICK b \in PSN, a \in Nat, r \in Nat, k \in Nat : ConnPlace(b, a, r, k)
      BY ConnFacts
    <3>2. TypeInv'
      BY <1>1, TypeInvStep
    <3> QED
      BY <1>1, <1>7, <3>1, <3>2, AckOnePlace DEF resp_vars, AckOne, ConnPlace
  <2>2. \A i \in 1 .. Len(Queued') : \E m \in 1 .. Len(Queued) : Queued'[i] = Queued[m]
    <3>1. PICK q \in Seq(Packet) : q = Queued /\ q # <<>>
      BY <1>1, <2>1
    <3>2. \A i \in 1 .. Len(Tail(q)) : i + 1 \in 1 .. Len(q) /\ Tail(q)[i] = q[i + 1]
      BY <3>1
    <3> QED
      BY <2>1, <3>1, <3>2
  <2> QED
    BY <1>1, <1>2, <2>1, <2>2
<1>8. ASSUME AckDone, UNCHANGED <<resp_vars, lost, dup>> PROVE WriteInv'
  <2>1. PICK b \in PSN, a \in Nat, r \in Nat, k \in Nat : ConnPlace(b, a, r, k)
    BY ConnFacts
  <2>2. Queued' = Queued
    <3>1. TypeInv'
      BY <1>1, TypeInvStep
    <3> QED
      BY <1>1, <1>8, <2>1, <3>1, AckDonePlace DEF ConnPlace
  <2> QED
    BY <1>3, <1>8, <2>2 DEF AckDone, resp_vars, history
<1>9. ASSUME NEW cap \in Capacities, Recv(cap) PROVE WriteInv'
  <2>1. /\ UNCHANGED <<rq_psn, resp_u, writtenlen, mem, posted>> /\ Queued' = Queued
        /\ recv_posted' = recv_posted + 1
    BY <1>9 DEF Recv, PostRecv, req_vars, queues, history, Queued
  <2>2. recv_posted' \in Nat /\ recv_posted <= recv_posted'
    BY <1>1, <2>1
  <2> QED
    BY <1>2, <2>1, <2>2
<1>10. CASE Lose \/ Duplicate \/ UNCHANGED vars
  <2>1. Queued' = Queued
    BY <1>10 DEF Lose, Duplicate, vars, req_vars, queues, Queued
  <2>2. UNCHANGED <<rq_psn, resp_u, writtenlen, mem, posted, recv_posted>>
    BY <1>10 DEF Lose, Duplicate, vars, req_vars, resp_vars, history
  <2> QED
    BY <1>3, <2>1, <2>2
<1> QED
  BY <1>4, <1>5, <1>6, <1>7, <1>8, <1>9, <1>10 DEF Next, Deliverable, AckLoop

LEMMA WriteInvInit == ASSUME Init PROVE WriteInv
<1>1. /\ Queued = <<>> /\ mem = [c \in 0 .. MemSize - 1 |-> Blank]
      /\ recv_posted = Len(Preposted)
  BY DEF Init, ReqInit, RespInit, Queued
<1>2. Len(Queued) = 0 /\ Len(Preposted) \in Nat
  BY <1>1, ResponderAssumption
<1>3. WritePlace
  BY <1>2 DEF WritePlace
<1>4. CellsInPlace
  BY <1>1 DEF CellsInPlace
<1> QED
  BY <1>1, <1>2, <1>3, <1>4 DEF WriteInv

(***************************************************************************)
(* An RDMA WRITE stores its bytes at the address it names plus their       *)
(* offset in the message and nowhere else, whatever is lost, repeated,     *)
(* reordered or refused on the way: resp.iova and resp.writtenlen, which   *)
(* nothing in the QP ties to a message, are those of the message that goes *)
(* on.                                                                     *)
(***************************************************************************)
THEOREM WritesAlwaysConfined ==
  ASSUME ShortLived, EnoughRecvs
  PROVE  Spec => []WriteConfined
<1>1. Init => WriteInv
  BY WriteInvInit
<1>2. ConnInv => OneExpected
  BY ConnOneExpected
<1>3. ConnInv /\ OneExpected /\ OneExpected' /\ WriteInv /\ [Next]_vars => WriteInv'
  BY WriteInvStep
<1>4. WriteInv => WriteConfined
  BY DEF WriteInv, CellsInPlace, WriteConfined
<1> QED
  BY <1>1, <1>2, <1>3, <1>4, ConnectionInvariant, PTL DEF Spec

-----------------------------------------------------------------------------
(* Between two messages. *)

(***************************************************************************)
(* What the application has to do for no packet to be refused: receive WRs *)
(* in time and long enough, RDMA WRITEs with immediate data only and       *)
(* inside the MR, no SEND WITH_INVALIDATE, MRs that can be mapped.         *)
(***************************************************************************)
WellUsed ==
  /\ EnoughRecvs /\ MapOutcomes \subseteq {TRUE}
  /\ \A w \in Requests :
       /\ w.op \notin {"WRITE", "SEND_INV"}
       /\ w.op = "WRITE_IMM" => w.va + w.len <= MemSize
       /\ \A i \in 1 .. Len(Preposted) : w.len <= Preposted[i]
       /\ \A cap \in Capacities : w.len <= cap

\* A packet of a request: inside it, and of its opcode where it ends.
OfRequest(x) ==
  \E w \in Requests :
    /\ x.va = w.va /\ x.off + x.len <= w.len
    /\ InProcess(x) => x.len > 0
    /\ IF IsSend(x) THEN x.op # "SEND_INV"
       ELSE w.op = "WRITE_IMM" /\ (EndsMessage(x) => x.op = "WRITE_IMM")

QueueOfRequests == \A i \in 1 .. Len(Queued) : OfRequest(Queued[i])

\* A receive WR that holds any message.
Roomy(r) == r.cap > 0 /\ \A w \in Requests : w.len <= r.cap

RoomyWrs == /\ \A i \in 1 .. Len(rq) : Roomy(rq[i]) /\ rq[i].off = 0
            /\ resp_u.kind = "wr" => Roomy(resp_u.wr)

\* Packet k is expected: the responder is at a boundary, or stopped where it goes on.
AtBoundary(k) ==
  /\ ~(k <= Len(Queued) /\ InProcess(Queued[k])) => resp_u = NullU /\ writtenlen = 0
  /\ k <= Len(Queued) /\ InProcess(Queued[k]) =>
       IF IsSend(Queued[k])
       THEN resp_u.kind = "wr" /\ resp_u.wr.off = Queued[k].off /\ writtenlen = 0
       ELSE resp_u.kind # "wr" /\ writtenlen = Queued[k].off

BoundaryInv == /\ QueueOfRequests /\ RoomyWrs
               /\ \A k \in Nat : Expecting(k) => AtBoundary(k)

\* The last packet of several is not empty.
LEMMA LastPacketFull ==
  ASSUME NEW len \in Nat, NumPkts(len) > 1
  PROVE  (NumPkts(len) - 1) * Mtu < len
<1> DEFINE n == (len + Mtu - 1) \div Mtu
           r == (len + Mtu - 1) % Mtu
<1>1. n \in Int /\ r \in 0 .. Mtu - 1 /\ len + Mtu - 1 = Mtu * n + r
  <2>1. PICK c \in Int : c = len + Mtu - 1
    BY RequesterAssumption
  <2>2. /\ c \div Mtu \in Int /\ c % Mtu \in 0 .. Mtu - 1
        /\ c = Mtu * (c \div Mtu) + (c % Mtu)
    BY DivMod, RequesterAssumption
  <2> QED
    BY <2>1, <2>2
<1>2. NumPkts(len) = n
  BY DEF NumPkts
<1> HIDE DEF n, r
<1>3. Mtu * n \in Int /\ (n - 1) * Mtu = Mtu * n - Mtu
  BY <1>1, RequesterAssumption
<1> QED
  BY <1>1, <1>2, <1>3, RequesterAssumption

LEMMA PacketsFit ==
  ASSUME NEW wr \in SendWR, wr.op \in PacketOps, NEW psn \in PSN
  PROVE  \A i \in 1 .. Len(RcBuildPkts(wr, psn)) :
           LET x == RcBuildPkts(wr, psn)[i] IN
           /\ x.va = wr.va /\ x.off + x.len <= wr.len
           /\ InProcess(x) => x.len > 0
           /\ IF wr.op \in {"WRITE", "WRITE_IMM"}
              THEN ~IsSend(x) /\ (EndsMessage(x) => x.op = wr.op)
              ELSE x.op \in {"SEND", wr.op}
<1> DEFINE n == NumPkts(wr.len)
           k == RcBuildPkts(wr, psn)
<1>1. /\ n \in Nat \ {0} /\ Mtu \in Nat \ {0} /\ (n - 1) * Mtu <= wr.len
      /\ n > 1 => (n - 1) * Mtu < wr.len
      /\ wr.len \in Nat
  BY NumPktsType, LastPacketFull, RequesterAssumption DEF SendWR
<1> HIDE DEF n
<1>2. Len(k) = n
  BY BuildPkts DEF n
<1>3. \A i \in 1 .. n : /\ k[i].op = PacketOp(wr.op, i, n) /\ k[i].pos = Position(i, n)
                        /\ k[i].off = (i - 1) * Mtu
                        /\ k[i].len = PacketLen(wr.len, i, n) /\ k[i].va = wr.va
  BY DEF RcBuildPkts, n
<1> HIDE DEF k
<1>4. ASSUME NEW i \in 1 .. n
      PROVE  /\ k[i].off + k[i].len <= wr.len
             /\ InProcess(k[i]) => k[i].len > 0
  <2>1. k[i].off = (i - 1) * Mtu /\ k[i].len = PacketLen(wr.len, i, n)
    BY <1>3
  <2>2. PICK d \in Nat : d = i - 1 /\ d <= n - 1 /\ d * Mtu \in Nat
    <3>1. i - 1 \in Nat /\ (i - 1) * Mtu \in Nat
      BY <1>1
    <3> QED
      BY <1>1, <3>1
  <2>3. CASE i = n
    <3>1. k[i].len = wr.len - (n - 1) * Mtu
      BY <2>1, <2>3 DEF PacketLen
    <3>2. InProcess(k[i]) => n > 1
      BY <1>1, <1>3, <2>3 DEF InProcess, Position
    <3>3. d = n - 1
      BY <2>2, <2>3
    <3> QED
      BY <1>1, <2>1, <2>2, <3>1, <3>2, <3>3
  <2>4. CASE i < n
    <3>1. k[i].len = Mtu
      BY <2>1, <2>4 DEF PacketLen
    <3>2. d + 1 <= n - 1 /\ d + 1 \in Nat /\ n - 1 \in Nat
      BY <1>1, <2>2, <2>4
    <3>3. (d + 1) * Mtu = d * Mtu + Mtu /\ (d + 1) * Mtu <= (n - 1) * Mtu
      BY <1>1, <3>2, TimesMonotone
    <3>4. (n - 1) * Mtu \in Nat
      BY <1>1
    <3> QED
      BY <1>1, <2>1, <2>2, <3>1, <3>3, <3>4
  <2> QED
    BY <1>1, <2>3, <2>4
<1>5. ASSUME NEW i \in 1 .. n
      PROVE  IF wr.op \in {"WRITE", "WRITE_IMM"}
             THEN ~IsSend(k[i]) /\ (EndsMessage(k[i]) => k[i].op = wr.op)
             ELSE k[i].op \in {"SEND", wr.op}
  <2>1. k[i].op = PacketOp(wr.op, i, n) /\ k[i].pos = Position(i, n)
    BY <1>3
  <2>2. EndsMessage(k[i]) => i = n
    BY <1>1, <2>1 DEF EndsMessage, Position
  <2>3. CASE i = n
    <3>1. k[i].op = wr.op
      BY <2>1, <2>3 DEF PacketOp
    <3> QED
      BY <3>1 DEF IsSend
  <2>4. CASE i # n
    <3>1. k[i].op = IF wr.op \in {"WRITE", "WRITE_IMM"} THEN "WRITE" ELSE "SEND"
      BY <2>1, <2>4 DEF PacketOp
    <3> QED
      BY <2>2, <2>4, <3>1 DEF IsSend
  <2> QED
    BY <2>3, <2>4
<1> QED
  BY <1>2, <1>3, <1>4, <1>5 DEF k

\* roce_post_send adds packets of its request.
LEMMA PostRequests ==
  ASSUME WellUsed, ReqInv, QueueOfRequests, NEW w \in Requests, PostSend(w)
  PROVE  QueueOfRequests'
<1>1. /\ NewWr(w) \in SendWR
      /\ \/ UNCHANGED <<outgoing_pkts, pending_pkts, req_net, posted>>
         \/ /\ Queued' = Queued \o NewPkts(w)
            /\ \/ NewPkts(w) = <<>>
               \/ w.op \in PacketOps /\ NewPkts(w) = RcBuildPkts(NewWr(w), req_psn)
            /\ NewPkts(w) \in Seq(Packet)
  BY PostQueue
<1>2. /\ outgoing_pkts \in Seq(Packet) /\ pending_pkts \in Seq(Packet) /\ req_psn \in PSN
  BY DEF ReqInv, ReqTypeOK
<1>3. Queued \in Seq(Packet)
  BY <1>2, Joined DEF Queued
<1>4. CASE UNCHANGED <<outgoing_pkts, pending_pkts, req_net, posted>>
  <2>1. Queued' = Queued
    BY <1>4 DEF Queued
  <2> QED
    BY <2>1 DEF QueueOfRequests
<1>5. CASE /\ Queued' = Queued \o NewPkts(w)
           /\ \/ NewPkts(w) = <<>>
              \/ w.op \in PacketOps /\ NewPkts(w) = RcBuildPkts(NewWr(w), req_psn)
           /\ NewPkts(w) \in Seq(Packet)
  <2>1. PICK new, k, q : new = NewWr(w) /\ k = NewPkts(w) /\ q = Queued'
    OBVIOUS
  <2>2. \A i \in 1 .. Len(q) : \/ \E m \in 1 .. Len(Queued) : q[i] = Queued[m]
                               \/ \E m \in 1 .. Len(k) : q[i] = k[m]
    <3>1. q = Queued \o k /\ k \in Seq(Packet)
      BY <1>5, <2>1
    <3> QED
      BY <1>3, <3>1, Joined
  <2>3. new.op = w.op /\ new.va = w.va /\ new.len = w.len /\ new \in SendWR
    BY <1>1, <2>1 DEF NewWr
  <2>4. ASSUME NEW m \in 1 .. Len(k) PROVE OfRequest(k[m])
    <3>1. w.op \in PacketOps /\ k = RcBuildPkts(new, req_psn)
      <4>1. k # <<>>
        OBVIOUS
      <4> QED
        BY <1>5, <2>1, <4>1
    <3>2. /\ k[m].va = w.va /\ k[m].off + k[m].len <= w.len
          /\ InProcess(k[m]) => k[m].len > 0
          /\ IF w.op \in {"WRITE", "WRITE_IMM"}
             THEN ~IsSend(k[m]) /\ (EndsMessage(k[m]) => k[m].op = w.op)
             ELSE k[m].op \in {"SEND", w.op}
      BY <1>2, <2>3, <3>1, PacketsFit
    <3>3. w.op \in {"SEND", "SEND_IMM", "WRITE_IMM"}
      BY <3>1 DEF WellUsed, PacketOps
    <3>4. IF IsSend(k[m]) THEN k[m].op # "SEND_INV"
          ELSE w.op = "WRITE_IMM" /\ (EndsMessage(k[m]) => k[m].op = "WRITE_IMM")
      BY <3>2, <3>3 DEF IsSend
    <3> QED
      BY <3>2, <3>4 DEF OfRequest
  <2> QED
    BY <2>1, <2>2, <2>4 DEF QueueOfRequests
<1> QED
  BY <1>1, <1>4, <1>5

\* roce_recv_payload takes the packet when the receive WR has room for the message.
LEMMA SendTaken ==
  ASSUME WellUsed, RoomyWrs, rq \in Seq(RecvWR), NEW x \in Packet, OfRequest(x),
         resp_u.kind = "wr" => resp_u.wr \in RecvWR,
         IF InProcess(x) THEN resp_u.kind = "wr" /\ resp_u.wr.off = x.off
                         ELSE resp_u = NullU /\ rq # <<>> /\ x.off = 0,
         RecvPayload(x, TRUE)
  PROVE  /\ RoomyWrs' /\ rq_psn' = PsnInc(rq_psn)
         /\ IF EndsMessage(x) THEN resp_u' = NullU
            ELSE resp_u'.kind = "wr" /\ resp_u'.wr.off = x.off + x.len
<1> DEFINE filled == [RecvWr EXCEPT !.off = @ + x.len, !.byte_len = @ + x.len,
                                    !.data = @ \o Units(x)]
<1>1. /\ ~NoRecvWr(x) /\ RecvWr \in RecvWR /\ Roomy(RecvWr) /\ RecvWr.off = x.off
      /\ PopRecvWr => (rq' = rq) \/ (rq' = Tail(rq) /\ rq # <<>>)
  <2>1. CASE InProcess(x)
    <3>1. resp_u.kind = "wr" /\ resp_u.wr.off = x.off /\ resp_u # NullU
      BY <2>1, Kinds
    <3>2. ~NoRecvWr(x) /\ RecvWr = resp_u.wr /\ (PopRecvWr => rq' = rq)
      BY <2>1, <3>1 DEF NoRecvWr, RecvWr, PopRecvWr, InProcess
    <3> QED
      <4>1. resp_u.wr \in RecvWR /\ Roomy(resp_u.wr)
        BY <3>1 DEF RoomyWrs
      <4> QED
        BY ONLY <3>1, <3>2, <4>1
  <2>2. CASE ~InProcess(x)
    <3>1. Head(rq) = rq[1] /\ 1 \in 1 .. Len(rq) /\ Head(rq) \in RecvWR
      BY <2>2
    <3> QED
      BY <2>2, <3>1 DEF NoRecvWr, RecvWr, RoomyWrs, InProcess, PopRecvWr
  <2> QED
    BY <2>1, <2>2
<1>2. PICK cap, off, len \in Nat : cap = RecvWr.cap /\ off = RecvWr.off /\ len = x.len
  BY <1>1 DEF RecvWR, Packet
<1>3. off < cap /\ cap - off >= len
  <2>1. PICK w \in Requests : x.off + x.len <= w.len /\ (InProcess(x) => x.len > 0)
    BY DEF OfRequest
  <2>2. PICK max \in Nat : max = w.len
    BY RequesterAssumption DEF RequestSet
  <2>3. off + len <= max /\ max <= cap /\ cap > 0
    BY <1>1, <1>2, <2>1, <2>2 DEF Roomy
  <2>4. off = 0 \/ len > 0
    BY <1>1, <1>2, <2>1
  <2>5. cap \in Nat /\ off \in Nat /\ len \in Nat /\ max \in Nat
    OBVIOUS
  <2> QED
    BY ONLY <2>3, <2>4, <2>5
<1>4. ~(RecvWr.off = RecvWr.cap) /\ ~(RecvWr.cap - RecvWr.off < x.len)
  BY <1>2, <1>3
<1>5. /\ PopRecvWr /\ Accept(x)
      /\ resp_u' = IF EndsMessage(x) THEN NullU ELSE WrU(filled)
  BY <1>1, <1>4 DEF RecvPayload
<1>6. filled.off = x.off + x.len /\ filled.cap = RecvWr.cap
  BY <1>1 DEF RecvWR
<1> HIDE DEF filled
<1>7. Roomy(filled)
  BY <1>1, <1>6 DEF Roomy
<1>8. \A i \in 1 .. Len(rq') : Roomy(rq'[i]) /\ rq'[i].off = 0
  <2>1. CASE rq' = rq
    BY <2>1 DEF RoomyWrs
  <2>2. CASE rq' = Tail(rq) /\ rq # <<>>
    <3>1. \A i \in 1 .. Len(Tail(rq)) : i + 1 \in 1 .. Len(rq) /\ Tail(rq)[i] = rq[i + 1]
      BY <2>2
    <3> QED
      BY <2>2, <3>1 DEF RoomyWrs
  <2> QED
    BY <1>1, <1>5, <2>1, <2>2
<1>9. RoomyWrs'
  BY <1>5, <1>7, <1>8, Kinds DEF RoomyWrs
<1> QED
  BY <1>5, <1>6, <1>9, Kinds DEF Accept

\* roce_rdma_write_payload takes the packet when it lies in the MR.
LEMMA WriteTaken ==
  ASSUME WellUsed, TypeInv, WriteInv, RoomyWrs, rq \in Seq(RecvWR), rq # <<>>,
         posted \in Seq(SendWR), NEW k \in 1 .. Len(Queued), NEW x \in Packet,
         x = Queued[k], OfPosted(x, posted), x.psn = rq_psn, OfRequest(x), ~IsSend(x),
         resp_u.kind # "wr", InProcess(x) = (writtenlen # 0), RdmaWritePayload(x, TRUE)
  PROVE  /\ RoomyWrs' /\ rq_psn' = PsnInc(rq_psn) /\ resp_u'.kind # "wr"
         /\ IF x.op = "WRITE_IMM" THEN resp_u' = NullU /\ writtenlen' = 0
                                  ELSE writtenlen' = x.off + x.len
<1>1. /\ writtenlen = x.off /\ WriteUnit(x) = IovaU(x.va)
      /\ WriteAddr(x) = x.va + x.off
  BY WriteAddrPlace
<1>2. PICK va, off, len \in Nat : va = x.va /\ off = x.off /\ len = x.len
  BY DEF Packet
<1>3. InMr(WriteAddr(x), x.len)
  <2>1. PICK w \in Requests : x.va = w.va /\ x.off + x.len <= w.len /\ w.op = "WRITE_IMM"
    BY DEF OfRequest
  <2>2. PICK max \in Nat : max = w.len
    BY RequesterAssumption DEF RequestSet
  <2>3. va + max <= MemSize /\ off + len <= max /\ MemSize \in Nat
    BY <1>2, <2>1, <2>2, ResponderAssumption DEF WellUsed
  <2>4. va + off >= 0 /\ (va + off) + len <= MemSize
    <3>1. va \in Nat /\ off \in Nat /\ len \in Nat /\ max \in Nat
      OBVIOUS
    <3> QED
      BY ONLY <2>3, <3>1
  <2> QED
    BY <1>1, <1>2, <2>4 DEF InMr
<1>4. /\ Accept(x)
      /\ \/ /\ x.op # "WRITE_IMM" /\ rq' = rq /\ resp_u' = WriteUnit(x)
            /\ writtenlen' = writtenlen + x.len
         \/ x.op = "WRITE_IMM" /\ rq' = Tail(rq) /\ resp_u' = NullU /\ writtenlen' = 0
  BY <1>3 DEF RdmaWritePayload
<1>5. resp_u'.kind # "wr"
  BY <1>1, <1>4, Kinds
<1>6. \A i \in 1 .. Len(rq') : Roomy(rq'[i]) /\ rq'[i].off = 0
  <2>1. \A i \in 1 .. Len(Tail(rq)) : i + 1 \in 1 .. Len(rq) /\ Tail(rq)[i] = rq[i + 1]
    OBVIOUS
  <2> QED
    BY <1>4, <2>1 DEF RoomyWrs
<1>7. RoomyWrs'
  BY <1>5, <1>6 DEF RoomyWrs
<1> QED
  BY <1>1, <1>4, <1>5, <1>7 DEF Accept

\* The packet expected is taken, and the responder stands at the next one.
LEMMA ExpectedTaken ==
  ASSUME WellUsed, TypeInv, WriteInv, RecvWrs, MessagesInOrder(Queued, posted),
         QueueOfRequests, RoomyWrs,
         Queued \in Seq(Packet), posted \in Seq(SendWR), Len(posted) <= MaxPosts,
         NEW k \in 1 .. Len(Queued), Expecting(k), Delivered(k), AtBoundary(k),
         NEW mapped \in MapOutcomes, ExpectedRequest(Queued[k], mapped), Queued' = Queued
  PROVE  RoomyWrs' /\ rq_psn' = PsnInc(rq_psn) /\ AtBoundary(k + 1)'
<1>1. PICK x, y : x = Queued[k] /\ y = Queued[k + 1]
  OBVIOUS
<1>2. x \in Packet /\ OfPosted(x, posted) /\ x.psn = rq_psn /\ OfRequest(x)
  BY <1>1 DEF Expecting, MessagesInOrder, QueueOfRequests
<1>3. /\ mapped = TRUE /\ EnoughRecvs /\ rq \in Seq(RecvWR) /\ IsList(received)
      /\ resp_u.kind = "wr" => resp_u.wr \in RecvWR
  BY DEF WellUsed, RecvWrs
<1>4. /\ InProcess(x) \in BOOLEAN /\ EndsMessage(x) \in BOOLEAN /\ IsSend(x) \in BOOLEAN
      /\ IF InProcess(x)
         THEN IF IsSend(x)
              THEN resp_u.kind = "wr" /\ resp_u.wr.off = x.off /\ writtenlen = 0
              ELSE resp_u.kind # "wr" /\ writtenlen = x.off /\ writtenlen # 0
         ELSE resp_u = NullU /\ resp_u.kind # "wr" /\ writtenlen = 0 /\ x.off = 0
  <2>1. k <= Len(Queued) /\ (InProcess(x) => x.off > 0) /\ (~InProcess(x) => x.off = 0)
    BY <1>2 DEF OfPosted
  <2>2. x.off \in Nat
    BY <1>2 DEF Packet
  <2> QED
    BY <1>1, <2>1, <2>2, Kinds DEF AtBoundary, InProcess, EndsMessage, IsSend
<1>5. resp_u.kind # "wr" => rq # <<>>
  BY <1>1, <1>2, <1>3, RecvWrLeft DEF Delivered, OfPosted
\* What follows the packet, if anything does.
<1>6. /\ ~EndsMessage(x) => /\ k + 1 <= Len(Queued) /\ InProcess(y)
                            /\ (IsSend(y) <=> IsSend(x)) /\ y.off = x.off + x.len
      /\ EndsMessage(x) => ~(k + 1 <= Len(Queued) /\ InProcess(y))
  <2>1. CASE k + 1 <= Len(Queued)
    <3>1. k \in 1 .. Len(Queued) - 1
      BY <2>1
    <3>2. NextInMessage(x, y)
      BY <1>1, <3>1 DEF MessagesInOrder
    <3>3. IsSend(y) \in BOOLEAN /\ InProcess(y) \in BOOLEAN
      BY DEF IsSend, InProcess
    <3> QED
      BY <1>4, <2>1, <3>2, <3>3 DEF NextInMessage
  <2>2. CASE ~(k + 1 <= Len(Queued))
    <3>1. k = Len(Queued) /\ Queued # <<>>
      BY <2>2
    <3>2. EndsMessage(x)
      BY <1>1, <3>1 DEF MessagesInOrder
    <3> QED
      BY <2>2, <3>2
  <2> QED
    BY <2>1, <2>2
<1>7. ASSUME IF EndsMessage(x)
             THEN resp_u' = NullU /\ writtenlen' = 0
             ELSE IF IsSend(x)
             THEN resp_u'.kind = "wr" /\ resp_u'.wr.off = x.off + x.len /\ writtenlen' = 0
             ELSE resp_u'.kind # "wr" /\ writtenlen' = x.off + x.len
      PROVE  AtBoundary(k + 1)'
  <2>1. CASE EndsMessage(x)
    BY <1>1, <1>6, <1>7, <2>1 DEF AtBoundary
  <2>2. CASE ~EndsMessage(x)
    BY <1>1, <1>6, <1>7, <2>2 DEF AtBoundary
  <2> QED
    BY <1>4, <2>1, <2>2
<1>8. CASE IsSend(x)
  <2>1. x.op # "SEND_INV"
    BY <1>2, <1>8 DEF OfRequest
  <2>2. RecvPayload(x, TRUE) /\ UNCHANGED writtenlen
    BY <1>1, <1>3, <1>8, <2>1 DEF ExpectedRequest, IsSend
  <2>3. IF InProcess(x) THEN resp_u.kind = "wr" /\ resp_u.wr.off = x.off
                        ELSE resp_u = NullU /\ rq # <<>> /\ x.off = 0
    BY <1>4, <1>5, <1>8
  <2>4. /\ RoomyWrs' /\ rq_psn' = PsnInc(rq_psn)
        /\ IF EndsMessage(x) THEN resp_u' = NullU
           ELSE resp_u'.kind = "wr" /\ resp_u'.wr.off = x.off + x.len
    BY <1>2, <1>3, <2>2, <2>3, SendTaken
  <2>5. writtenlen' = 0
    BY <1>4, <1>8, <2>2
  <2> QED
    BY <1>7, <1>8, <2>4, <2>5
<1>9. CASE ~IsSend(x)
  <2>1. RdmaWritePayload(x, TRUE)
    BY <1>1, <1>3, <1>9 DEF ExpectedRequest, IsSend
  <2>2. resp_u.kind # "wr" /\ InProcess(x) = (writtenlen # 0)
    BY <1>4, <1>9
  <2>3. /\ RoomyWrs' /\ rq_psn' = PsnInc(rq_psn) /\ resp_u'.kind # "wr"
        /\ IF x.op = "WRITE_IMM" THEN resp_u' = NullU /\ writtenlen' = 0
                                 ELSE writtenlen' = x.off + x.len
    BY <1>1, <1>2, <1>3, <1>5, <1>9, <2>1, <2>2, WriteTaken
  <2>4. EndsMessage(x) <=> x.op = "WRITE_IMM"
    <3>1. EndsMessage(x) => x.op = "WRITE_IMM"
      BY <1>2, <1>9 DEF OfRequest
    <3>2. ~EndsMessage(x) => x.op \in {"SEND", "WRITE"}
      BY <1>1, <1>2, <1>3, <1>6, NextExpected
    <3> QED
      BY <3>1, <3>2
  <2> QED
    BY <1>4, <1>7, <1>9, <2>3, <2>4
<1> QED
  BY <1>4, <1>8, <1>9

\* A PSN tells where the responder stands, also after the queue has grown or lost its
\* head.
LEMMA BoundaryKept ==
  ASSUME OneExpected, BoundaryInv, RoomyWrs', QueueOfRequests', sq_psn \in PSN,
         Queued \in Seq(Packet),
         UNCHANGED <<rq_psn, resp_u, writtenlen>>,
         \/ Queued' = Queued /\ sq_psn' = sq_psn
         \/ Queued' = Tail(Queued) /\ sq_psn' = PsnInc(sq_psn) /\ Queued # <<>>
  PROVE  BoundaryInv'
<1>1. CASE Queued' = Queued /\ sq_psn' = sq_psn
  BY <1>1 DEF BoundaryInv, Expecting, AtBoundary
<1>2. CASE Queued' = Tail(Queued) /\ sq_psn' = PsnInc(sq_psn) /\ Queued # <<>>
  <2> SUFFICES ASSUME NEW k \in Nat, Expecting(k)' PROVE AtBoundary(k)'
    BY DEF BoundaryInv
  <2>1. /\ Len(Queued') = Len(Queued) - 1 /\ Len(Queued) \in Nat
        /\ \A i \in 1 .. Len(Queued') : Queued'[i] = Queued[i + 1]
    BY <1>2
  <2>2. k \in 1 .. Len(Queued') + 1 /\ PsnAdd(sq_psn', k - 1) = rq_psn
    BY DEF Expecting
  <2>3. k + 1 \in 1 .. Len(Queued) + 1 /\ PsnAdd(sq_psn, (k + 1) - 1) = rq_psn
    <3>1. PsnInc(sq_psn) = PsnAdd(sq_psn, 1) /\ sq_psn \in Int
      BY PsnAssumption DEF PsnInc, PSN
    <3>2. PsnAdd(PsnAdd(sq_psn, 1), k - 1) = PsnAdd(sq_psn, 1 + (k - 1))
      BY <3>1, PsnAddAdd
    <3>3. 1 + (k - 1) = (k + 1) - 1
      OBVIOUS
    <3>4. PsnAdd(sq_psn, (k + 1) - 1) = rq_psn
      BY <1>2, <2>2, <3>1, <3>2, <3>3
    <3>5. k + 1 \in 1 .. Len(Queued) + 1
      BY <2>1, <2>2
    <3> QED
      BY <3>4, <3>5
  <2>4. Expecting(k + 1)
    <3>1. PICK n \in Nat : Expecting(n)
      BY DEF OneExpected
    <3>2. n = k + 1
      BY <2>3, <3>1 DEF Expecting
    <3> QED
      BY <3>1, <3>2
  <2>5. AtBoundary(k + 1)
    BY <2>4 DEF BoundaryInv
  <2>6. /\ k <= Len(Queued') <=> k + 1 <= Len(Queued)
        /\ k <= Len(Queued') => Queued'[k] = Queued[k + 1]
    <3>1. k \in Nat /\ 1 <= k
      BY <2>1, <2>2
    <3>2. k <= Len(Queued') <=> k + 1 <= Len(Queued)
      BY <2>1, <3>1
    <3>3. k <= Len(Queued') => k \in 1 .. Len(Queued')
      BY <2>1, <3>1
    <3> QED
      BY <2>1, <3>2, <3>3
  <2> QED
    BY <2>5, <2>6 DEF AtBoundary
<1> QED
  BY <1>1, <1>2

LEMMA PostBoundary ==
  ASSUME WellUsed, ReqInv, MessagesInOrder(Queued, posted), OneExpected, BoundaryInv,
         NEW w \in Requests, PostSend(w), UNCHANGED <<rq_psn, rq, resp_u, writtenlen>>
  PROVE  BoundaryInv'
<1>1. /\ Len(Queued) <= Len(Queued')
      /\ Queued \in Seq(Packet) /\ Queued' \in Seq(Packet)
      /\ \A m \in 1 .. Len(Queued) : Queued'[m] = Queued[m]
      /\ Len(Queued) < Len(Queued') => ~InProcess(Queued'[Len(Queued) + 1])
  BY PostMessages
<1>2. Len(Queued) \in Nat /\ Len(Queued') \in Nat
  BY <1>1
<1>3. sq_psn' = sq_psn
  BY PostQueue
<1>4. QueueOfRequests' /\ RoomyWrs'
  BY PostRequests DEF BoundaryInv, RoomyWrs
<1>5. PICK k \in Nat : Expecting(k)
  BY DEF OneExpected
<1>6. k \in 1 .. Len(Queued) + 1 /\ PsnAdd(sq_psn, k - 1) = rq_psn /\ AtBoundary(k)
  BY <1>5 DEF Expecting, BoundaryInv
<1>7. ASSUME NEW n \in Nat, Expecting(n)' PROVE AtBoundary(n)'
  <2>1. k \in 1 .. Len(Queued') + 1
    BY <1>1, <1>2, <1>6
  <2>2. n = k
    BY <1>3, <1>6, <1>7, <2>1 DEF Expecting
  <2>3. CASE k <= Len(Queued)
    <3>1. k <= Len(Queued') /\ Queued'[k] = Queued[k]
      BY <1>1, <1>2, <1>6, <2>3
    <3> QED
      BY <1>6, <2>2, <2>3, <3>1 DEF AtBoundary
  <2>4. CASE ~(k <= Len(Queued))
    <3>1. k = Len(Queued) + 1
      BY <1>2, <1>6, <2>4
    <3>2. resp_u = NullU /\ writtenlen = 0
      BY <1>6, <2>4 DEF AtBoundary
    <3>3. ~(k <= Len(Queued') /\ InProcess(Queued'[k]))
      BY <1>1, <1>2, <3>1
    <3> QED
      BY <2>2, <3>2, <3>3 DEF AtBoundary
  <2> QED
    BY <2>3, <2>4
<1> QED
  BY <1>4, <1>7 DEF BoundaryInv

LEMMA BoundaryStep ==
  ASSUME WellUsed, ShortLived, ConnInv, OneExpected, WriteInv, BoundaryInv, [Next]_vars
  PROVE  BoundaryInv'
<1>1. /\ TypeInv /\ ReqInv /\ RecvWrs /\ MessagesInOrder(Queued, posted)
      /\ Queued \in Seq(Packet) /\ posted \in Seq(SendWR) /\ req_net \in Seq(Packet)
      /\ sq_psn \in PSN
  BY ConnFacts DEF ReqInv, ReqTypeOK
<1>2. QueueOfRequests /\ RoomyWrs
  BY DEF BoundaryInv
<1>3. TypeInv'
  BY <1>1, TypeInvStep
<1>4. PICK b \in PSN, a \in Nat, r \in Nat, k \in Nat :
        ConnPlace(b, a, r, k) /\ k \in 1 .. Len(Queued) + 1
  BY ConnFacts
<1>5. r + 1 = a + k /\ Place(b, a, r) /\ rq_psn = PsnAdd(b, r) /\ Len(posted) <= MaxPosts
  BY <1>4 DEF ConnPlace, Place, Numbered
<1>6. ASSUME UNCHANGED <<sq_psn, rq_psn, resp_u, writtenlen, rq>>, Queued' = Queued
      PROVE  BoundaryInv'
  BY <1>1, <1>2, <1>6, BoundaryKept DEF QueueOfRequests, RoomyWrs
<1>7. ASSUME NEW w \in Requests, Post(w) PROVE BoundaryInv'
  BY <1>1, <1>7, PostBoundary DEF Post, resp_vars
<1>8. ASSUME NEW i \in DOMAIN req_net, DeliverRequest(i) PROVE BoundaryInv'
  <2>1. RecvRc(req_net[i]) /\ sq_psn' = sq_psn /\ Queued' = Queued
    BY <1>8 DEF DeliverRequest, Queued
  <2>2. CASE DuplicatedRequest(req_net[i]) \/ OutOfSeq(req_net[i])
    BY <1>6, <2>1, <2>2 DEF DuplicatedRequest, OutOfSeq, resp_vars
  <2>3. ASSUME NEW mapped \in MapOutcomes, ExpectedRequest(req_net[i], mapped)
        PROVE  BoundaryInv'
    <3>1. IsExpected(req_net[i])
      BY <2>3 DEF ExpectedRequest
    <3>2. PICK m \in 1 .. Len(Queued) : req_net[i] = Queued[m] /\ Queued[m].psn = rq_psn
      <4>1. /\ r - a + 1 \in 1 .. Len(Queued) /\ req_net[i] = Queued[r - a + 1]
            /\ req_net[i].psn = PsnAdd(b, r)
        BY ONLY ShortLived, <1>1, <1>4, <1>5, <1>8, <3>1, ExpectedKept
      <4>2. Queued[r - a + 1].psn = rq_psn
        BY <1>5, <4>1
      <4> QED
        BY <4>1, <4>2
    <3>3. Expecting(m) /\ Delivered(m) /\ PsnAdd(sq_psn, m - 1) = rq_psn
      <4>1. PICK n \in Nat : Expecting(n) /\ Delivered(n)
        BY DEF OneExpected
      <4>2. m = n
        BY <3>2, <4>1 DEF Expecting
      <4> QED
        BY <4>1, <4>2 DEF Expecting
    <3>4. AtBoundary(m) /\ ExpectedRequest(Queued[m], mapped)
      BY <2>3, <3>2, <3>3 DEF BoundaryInv
    <3>5. RoomyWrs' /\ rq_psn' = PsnInc(rq_psn) /\ AtBoundary(m + 1)'
      BY <1>1, <1>2, <1>5, <2>1, <3>3, <3>4, ExpectedTaken
    <3>6. PsnAdd(sq_psn, (m + 1) - 1) = rq_psn'
      <4>1. sq_psn \in Int /\ m - 1 \in Int /\ (m - 1) + 1 = (m + 1) - 1
        BY <1>1, PsnAssumption DEF PSN
      <4>2. PsnInc(PsnAdd(sq_psn, m - 1)) = PsnAdd(sq_psn, (m - 1) + 1)
        BY <1>1, <4>1, IncNumber
      <4> QED
        BY <3>3, <3>5, <4>1, <4>2
    <3>7. ASSUME NEW n \in Nat, Expecting(n)' PROVE AtBoundary(n)'
      <4>1. m + 1 \in 1 .. Len(Queued) + 1
        BY <1>1
      <4>2. n = m + 1
        BY <2>1, <3>6, <3>7, <4>1 DEF Expecting
      <4> QED
        BY <3>5, <4>2
    <3> QED
      BY <1>2, <2>1, <3>5, <3>7 DEF BoundaryInv, QueueOfRequests
  <2> QED
    BY <2>1, <2>2, <2>3 DEF RecvRc
<1>9. ASSUME NEW i \in DOMAIN ack_net, DeliverAck(i) PROVE BoundaryInv'
  <2>1. /\ HandleAcknowledge(ack_net[i].nak, ack_net[i].psn)
        /\ UNCHANGED <<rq_psn, resp_u, writtenlen, rq>>
    BY <1>9 DEF DeliverAck
  <2>2. Queued' = Queued /\ sq_psn' = sq_psn
    BY <2>1 DEF HandleAcknowledge, queues, Queued
  <2> QED
    BY <1>6, <2>1, <2>2
<1>10. ASSUME AckOne, UNCHANGED <<resp_vars, lost, dup>> PROVE BoundaryInv'
  <2>1. /\ Queued # <<>> /\ Queued' = Tail(Queued) /\ sq_psn' = PsnInc(sq_psn)
        /\ UNCHANGED <<rq_psn, resp_u, writtenlen, rq>>
    BY <1>1, <1>3, <1>5, <1>10, AckOnePlace DEF resp_vars, AckOne
  <2>2. RoomyWrs'
    BY <1>2, <2>1 DEF RoomyWrs
  <2>3. QueueOfRequests'
    <3>1. PICK q \in Seq(Packet) : q = Queued /\ q # <<>>
      BY <1>1, <2>1
    <3>2. \A i \in 1 .. Len(Tail(q)) : i + 1 \in 1 .. Len(q) /\ Tail(q)[i] = q[i + 1]
      BY <3>1
    <3> QED
      BY <1>2, <2>1, <3>1, <3>2 DEF QueueOfRequests
  <2> QED
    BY <1>1, <2>1, <2>2, <2>3, BoundaryKept
<1>11. ASSUME AckDone, UNCHANGED <<resp_vars, lost, dup>> PROVE BoundaryInv'
  <2>1. Queued' = Queued
    BY <1>1, <1>3, <1>5, <1>11, AckDonePlace
  <2> QED
    BY <1>6, <1>11, <2>1 DEF AckDone, resp_vars
<1>12. ASSUME NEW cap \in Capacities, Recv(cap) PROVE BoundaryInv'
  <2>1. /\ UNCHANGED <<sq_psn, rq_psn, resp_u, writtenlen>> /\ Queued' = Queued
        /\ rq' = Append(rq, NewRecvWr(recv_posted + 1, cap)) /\ rq \in Seq(RecvWR)
    BY <1>1, <1>12 DEF Recv, PostRecv, req_vars, Queued, RecvWrs
  <2>2. PICK new : new = NewRecvWr(recv_posted + 1, cap)
    OBVIOUS
  <2>3. Roomy(new) /\ new.off = 0
    <3>1. new.cap = cap /\ new.off = 0 /\ cap \in Nat \ {0}
      BY <2>2, ResponderAssumption DEF NewRecvWr
    <3> QED
      BY <3>1 DEF Roomy, WellUsed
  <2>4. \A i \in 1 .. Len(rq') : rq'[i] = new \/ (i \in 1 .. Len(rq) /\ rq'[i] = rq[i])
    BY <2>1, <2>2
  <2>5. RoomyWrs'
    BY <1>2, <2>1, <2>3, <2>4 DEF RoomyWrs
  <2>6. QueueOfRequests'
    BY <1>2, <2>1 DEF QueueOfRequests
  <2> QED
    BY <1>1, <2>1, <2>5, <2>6, BoundaryKept
<1>13. CASE Lose \/ Duplicate \/ UNCHANGED vars
  <2>1. Queued' = Queued /\ sq_psn' = sq_psn
    BY <1>13 DEF Lose, Duplicate, vars, req_vars, queues, Queued
  <2>2. UNCHANGED <<rq_psn, resp_u, writtenlen, rq>>
    BY <1>13 DEF Lose, Duplicate, vars, resp_vars
  <2> QED
    BY <1>6, <2>1, <2>2
<1> QED
  BY <1>7, <1>8, <1>9, <1>10, <1>11, <1>12, <1>13 DEF Next, Deliverable, AckLoop

LEMMA BoundaryInit == ASSUME WellUsed, Init PROVE BoundaryInv
<1>1. /\ Queued = <<>> /\ resp_u = NullU /\ writtenlen = 0
      /\ rq = [i \in 1 .. Len(Preposted) |-> NewRecvWr(i, Preposted[i])]
  BY DEF Init, ReqInit, RespInit, Queued
<1>2. Len(Queued) = 0
  BY <1>1
<1>3. QueueOfRequests /\ \A k \in Nat : Expecting(k) => AtBoundary(k)
  BY <1>1, <1>2 DEF QueueOfRequests, Expecting, AtBoundary
<1>4. /\ Len(Preposted) \in Nat /\ \A i \in 1 .. Len(Preposted) : Preposted[i] \in Nat \ {0}
  BY ResponderAssumption
<1>5. \A i \in 1 .. Len(rq) : i \in 1 .. Len(Preposted) /\ rq[i] = NewRecvWr(i, Preposted[i])
  BY <1>1, <1>4
<1>6. \A i \in 1 .. Len(rq) : rq[i].cap = Preposted[i] /\ rq[i].off = 0
  <2> SUFFICES ASSUME NEW i \in 1 .. Len(rq) PROVE rq[i].cap = Preposted[i] /\ rq[i].off = 0
    OBVIOUS
  <2>1. rq[i] = NewRecvWr(i, Preposted[i])
    BY <1>5
  <2>2. NewRecvWr(i, Preposted[i]).cap = Preposted[i] /\ NewRecvWr(i, Preposted[i]).off = 0
    BY DEF NewRecvWr
  <2> QED
    BY <2>1, <2>2
<1>7. RoomyWrs
  BY <1>1, <1>4, <1>5, <1>6, Kinds DEF RoomyWrs, Roomy, WellUsed
<1> QED
  BY <1>3, <1>7 DEF BoundaryInv

(***************************************************************************)
(* When the application posts receive WRs in time and long enough, no      *)
(* packet that arrives in its turn is refused, and between two messages    *)
(* resp.wr, resp.iova and resp.writtenlen are clear: a SEND or an RDMA     *)
(* WRITE with immediate data never meets the rest of an earlier one,       *)
(* whatever is lost, repeated or reordered.  Without those conditions a    *)
(* run shows what is left behind (an RDMA WRITE without immediate data).   *)
(***************************************************************************)
THEOREM MessagesAlwaysApart ==
  ASSUME WellUsed, ShortLived
  PROVE  Spec => []MessageBoundary
<1>0. EnoughRecvs
  BY DEF WellUsed
<1>1. Init => WriteInv /\ BoundaryInv
  BY WriteInvInit, BoundaryInit
<1>2. ConnInv => OneExpected
  BY ConnOneExpected
<1>3. ConnInv /\ OneExpected /\ OneExpected' /\ WriteInv /\ BoundaryInv /\ [Next]_vars
        => WriteInv' /\ BoundaryInv'
  BY <1>0, WriteInvStep, BoundaryStep
<1>4. ConnInv /\ OneExpected /\ BoundaryInv => MessageBoundary
  <2> SUFFICES ASSUME ConnInv, OneExpected, BoundaryInv,
                      NEW i \in 1 .. Len(Queued), Queued[i].psn = rq_psn
               PROVE  /\ ~InProcess(Queued[i]) => resp_u = NullU /\ writtenlen = 0
                      /\ InProcess(Queued[i]) =>
                           IF IsSend(Queued[i])
                           THEN resp_u.kind = "wr" /\ writtenlen = 0
                           ELSE resp_u.kind # "wr" /\ writtenlen > 0
    BY DEF MessageBoundary
  <2>1. Expecting(i) /\ i <= Len(Queued)
    <3>1. PICK n \in Nat : Expecting(n)
      BY DEF OneExpected
    <3>2. i = n
      BY <3>1 DEF Expecting
    <3> QED
      BY <3>1, <3>2
  <2>2. AtBoundary(i)
    BY <2>1 DEF BoundaryInv
  <2>3. InProcess(Queued[i]) => Queued[i].off > 0
    BY ConnFacts DEF MessagesInOrder, OfPosted
  <2> QED
    BY <2>1, <2>2, <2>3 DEF AtBoundary
<1> QED
  BY <1>1, <1>2, <1>3, <1>4, ConnectionInvariant, PTL DEF Spec

=============================================================================
