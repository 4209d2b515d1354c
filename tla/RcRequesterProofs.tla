-------------------------- MODULE RcRequesterProofs --------------------------
(***************************************************************************)
(* What the requester guarantees for every PSN width, window, MTU and set  *)
(* of requests, against any network and any acknowledgements: first the    *)
(* packets it builds, then the WRs of its send queue.                      *)
(***************************************************************************)
EXTENDS RcRequester, PsnProofs, SequenceTheorems, WellFoundedInduction

-----------------------------------------------------------------------------
(* Building packets. *)

\* A message is at least one packet, and its packets but the last are full.
LEMMA NumPktsType ==
  ASSUME NEW len \in Nat
  PROVE  /\ NumPkts(len) \in Nat \ {0}
         /\ (NumPkts(len) - 1) * Mtu <= len
<1>1. CASE len <= Mtu
  BY <1>1, RequesterAssumption DEF NumPkts
<1>2. CASE len > Mtu
  <2> DEFINE n == (len + Mtu - 1) \div Mtu
             r == (len + Mtu - 1) % Mtu
  <2>1. n \in Int /\ r \in 0 .. Mtu - 1 /\ len + Mtu - 1 = Mtu * n + r
    BY DivMod, RequesterAssumption
  <2>2. NumPkts(len) = n
    BY <1>2, RequesterAssumption DEF NumPkts
  <2> HIDE DEF n, r
  <2>3. Mtu * n \in Int /\ (n - 1) * Mtu = Mtu * n - Mtu
    BY <2>1, RequesterAssumption
  <2>4. n > 0
    <3> SUFFICES ASSUME n <= 0 PROVE FALSE
      BY <2>1
    <3>1. Mtu * n <= 0
      BY <2>1, RequesterAssumption
    <3> QED
      BY <3>1, <2>1, <2>3, <1>2, RequesterAssumption
  <2> QED
    BY <2>1, <2>2, <2>3, <2>4, RequesterAssumption
<1> QED
  BY <1>1, <1>2, RequesterAssumption

\* What roce_rc_build_pkts appends: a nonempty run of packets numbered from
\* psn, of which the last, and those on a multiple of the window, ask for an
\* ACK.
LEMMA BuildPkts ==
  ASSUME NEW wr \in SendWR, wr.op \in PacketOps, NEW psn \in PSN
  PROVE  LET pkts == RcBuildPkts(wr, psn) IN
         /\ pkts \in Seq(Packet)
         /\ Len(pkts) = NumPkts(wr.len) /\ Len(pkts) > 0
         /\ pkts[Len(pkts)].ack
         /\ \A i \in 1 .. Len(pkts) :
              /\ pkts[i].psn = PsnAdd(psn, i - 1)
              /\ pkts[i].psn % MaxOutgoing = 0 => pkts[i].ack
<1> DEFINE n == NumPkts(wr.len)
           pkts == RcBuildPkts(wr, psn)
<1>1. n \in Nat \ {0} /\ (n - 1) * Mtu <= wr.len
  BY NumPktsType DEF SendWR
<1> HIDE DEF n
<1>2. ASSUME NEW i \in 1 .. n
      PROVE  /\ PacketPsn(psn, i) \in PSN
             /\ PacketOp(wr.op, i, n) \in PacketOps
             /\ Position(i, n) \in {"FIRST", "MIDDLE", "LAST", "ONLY"}
             /\ AckRequested(PacketPsn(psn, i), i, n) \in BOOLEAN
             /\ Opaque(wr, i, n) \in Nat
             /\ (i - 1) * Mtu \in Nat
             /\ PacketLen(wr.len, i, n) \in Nat
  <2>1. PacketPsn(psn, i) \in PSN
    <3>1. psn \in Int /\ i - 1 \in Int
      BY <1>1, PsnAssumption DEF PSN
    <3> QED
      BY <3>1, PsnAddType DEF PacketPsn
  <2>2. PacketOp(wr.op, i, n) \in PacketOps
    BY DEF PacketOp, PacketOps
  <2>3. Position(i, n) \in {"FIRST", "MIDDLE", "LAST", "ONLY"}
    BY <1>1 DEF Position
  <2>4. AckRequested(PacketPsn(psn, i), i, n) \in BOOLEAN
    BY DEF AckRequested
  <2>5. Opaque(wr, i, n) \in Nat
    BY DEF Opaque, SendWR
  <2>6. (i - 1) * Mtu \in Nat
    BY <1>1, RequesterAssumption
  <2>7. PacketLen(wr.len, i, n) \in Nat
    <3>1. wr.len \in Nat /\ (n - 1) * Mtu \in Nat
      BY <1>1, RequesterAssumption DEF SendWR
    <3> QED
      BY <3>1, <1>1, RequesterAssumption DEF PacketLen
  <2> QED
    BY <2>1, <2>2, <2>3, <2>4, <2>5, <2>6, <2>7
<1>3. pkts = [i \in 1 .. n |->
               [psn    |-> PacketPsn(psn, i),
                op     |-> PacketOp(wr.op, i, n),
                pos    |-> Position(i, n),
                ack    |-> AckRequested(PacketPsn(psn, i), i, n),
                opaque |-> Opaque(wr, i, n),
                msg    |-> wr.id,
                off    |-> (i - 1) * Mtu,
                len    |-> PacketLen(wr.len, i, n),
                va     |-> wr.va]]
  BY DEF RcBuildPkts, n
<1> HIDE DEF pkts
<1>4. \A i \in 1 .. n : pkts[i] \in Packet
  BY <1>2, <1>3 DEF Packet, SendWR
<1>5. pkts \in Seq(Packet) /\ Len(pkts) = n
  BY <1>1, <1>3, <1>4
<1>6. pkts[n].ack
  <2>1. pkts[n].ack = AckRequested(PacketPsn(psn, n), n, n)
    BY <1>1, <1>3
  <2> QED
    BY <2>1 DEF AckRequested
<1>7. ASSUME NEW i \in 1 .. n
      PROVE  /\ pkts[i].psn = PsnAdd(psn, i - 1)
             /\ pkts[i].psn % MaxOutgoing = 0 => pkts[i].ack
  <2>1. pkts[i].psn = PacketPsn(psn, i)
    BY <1>3
  <2>2. pkts[i].ack = AckRequested(pkts[i].psn, i, n)
    BY <1>3
  <2> QED
    BY <2>1, <2>2 DEF PacketPsn, AckRequested
<1> QED
  BY <1>1, <1>5, <1>6, <1>7 DEF pkts, n

-----------------------------------------------------------------------------
(* Sending packets. *)

\* The packets q are numbered one by one from p on.
NumberedFrom(p, q) == \A i \in 1 .. Len(q) : q[i].psn = PsnAdd(p, i - 1)

\* The least element of a set of numbers is the one FirstOf chooses.
LEMMA FirstOfIsLeast ==
  ASSUME NEW S \in SUBSET Nat, NEW k \in S, \A j \in S : k <= j
  PROVE  FirstOf(S) = k
<1>1. \A e \in S : (\A j \in S : e <= j) => e = k
  OBVIOUS
<1> QED
  BY <1>1 DEF FirstOf

(***************************************************************************)
(* roce_xmit_pkts fills the window and no more: it stops at the packet     *)
(* numbered sq_psn + MAX_OUTGOING, or when there is nothing left to send.  *)
(* That packet is found by comparing PSNs for equality only, so the proof  *)
(* has to exclude that the loop runs past it.                              *)
(***************************************************************************)
LEMMA XmitFillsWindow ==
  ASSUME NEW p \in PSN, NEW out \in Seq(Packet), NEW pend \in Seq(Packet),
         NumberedFrom(p, out \o pend),
         Len(out) <= MaxOutgoing + 1
  PROVE  LET n == XmitCount(p, out, pend) IN
         /\ n \in 0 .. Len(pend)
         /\ Len(out) + n <= MaxOutgoing + 1
         /\ n < Len(pend) => Len(out) + n = MaxOutgoing + 1
<1> DEFINE n == XmitCount(p, out, pend)
           W == MaxOutgoing
           E == WindowEnds(p, pend)
<1>1. W \in Nat \ {0} /\ Len(out) \in Nat /\ Len(pend) \in Nat
  BY PsnAssumption
<1>2. ASSUME NEW i \in 1 .. Len(pend)
      PROVE  pend[i].psn = PsnAdd(p, Len(out) + i - 1)
  <2> DEFINE j == Len(out) + i
  <2>1. j \in 1 .. Len(out \o pend) /\ (out \o pend)[j] = pend[i]
    BY <1>1
  <2>2. j - 1 = Len(out) + i - 1
    BY <1>1
  <2> QED
    BY <2>1, <2>2 DEF NumberedFrom
<1>3. out # <<>> => Len(out) > 0 /\ out[Len(out)].psn = PsnAdd(p, Len(out) - 1)
  BY <1>1 DEF NumberedFrom
<1>4. \A d \in 0 .. W : WindowLeft(p, PsnAdd(p, d)) = W - d
  BY CompareInWindow DEF WindowLeft
<1>5. WindowFull(p, out) <=> Len(out) = W + 1
  <2>1. CASE out = <<>>
    BY <2>1, <1>1 DEF WindowFull
  <2>2. CASE out # <<>>
    <3>1. Len(out) - 1 \in 0 .. W
      BY <2>2, <1>1, <1>3
    <3>2. WindowLeft(p, out[Len(out)].psn) = W - (Len(out) - 1)
      BY <2>2, <3>1, <1>3, <1>4
    <3> QED
      BY <2>2, <3>2, <1>1 DEF WindowFull
  <2> QED
    BY <2>1, <2>2
<1>6. \A i \in 1 .. Len(pend) :
        Len(out) + i - 1 <= W => (i \in E <=> Len(out) + i - 1 = W)
  <2> SUFFICES ASSUME NEW i \in 1 .. Len(pend), Len(out) + i - 1 <= W
               PROVE  i \in E <=> Len(out) + i - 1 = W
    OBVIOUS
  <2>1. Len(out) + i - 1 \in 0 .. W
    BY <1>1
  <2>2. WindowLeft(p, pend[i].psn) = W - (Len(out) + i - 1)
    BY <2>1, <1>2, <1>4
  <2> QED
    BY <2>1, <2>2, <1>1 DEF WindowEnds
<1>7. E \subseteq 1 .. Len(pend)
  BY DEF WindowEnds
<1>8. CASE WindowFull(p, out)
  BY <1>8, <1>1, <1>5 DEF XmitCount
<1>9. CASE ~WindowFull(p, out) /\ E = {}
  <2>1. n = Len(pend)
    BY <1>9 DEF XmitCount
  <2>2. ~(Len(out) + Len(pend) > W + 1)
    <3> SUFFICES ASSUME Len(out) + Len(pend) > W + 1 PROVE FALSE
      OBVIOUS
    <3> DEFINE k == W + 1 - Len(out)
    <3>1. k \in 1 .. Len(pend) /\ Len(out) + k - 1 = W
      BY <1>1, <1>5, <1>9
    <3>2. k \in E
      BY <3>1, <1>1, <1>6
    <3> QED
      BY <3>2, <1>9
  <2> QED
    BY <2>1, <2>2, <1>1
<1>10. CASE ~WindowFull(p, out) /\ E # {}
  <2> DEFINE k == W + 1 - Len(out)
  <2>1. \A e \in E : k <= e
    BY <1>1, <1>6, <1>7
  <2>2. k \in 1 .. Len(pend)
    BY <2>1, <1>1, <1>5, <1>7, <1>10
  <2>3. k \in E
    BY <2>2, <1>1, <1>6
  <2>4. FirstOf(E) = k
    <3>1. E \in SUBSET Nat
      BY <1>1, <1>7
    <3> QED
      BY <3>1, <2>1, <2>3, FirstOfIsLeast
  <2>5. n = k
    BY <2>4, <1>10 DEF XmitCount
  <2> QED
    BY <2>2, <2>5, <1>1
<1> QED
  BY <1>8, <1>9, <1>10

\* The assertion diff >= 0 of roce_xmit_pkts holds.
LEMMA NoWindowAssertion ==
  ASSUME NEW p \in PSN, NEW rpsn, NEW out \in Seq(Packet),
         NumberedFrom(p, out), Len(out) <= MaxOutgoing + 1
  PROVE  XmitAssertion(p, rpsn, out) \in {"none", "xmit_range"}
<1>1. CASE out = <<>>
  BY <1>1 DEF XmitAssertion
<1>2. CASE out # <<>>
  <2>1. Len(out) - 1 \in 0 .. MaxOutgoing
        /\ out[Len(out)].psn = PsnAdd(p, Len(out) - 1)
    BY <1>2, PsnAssumption DEF NumberedFrom
  <2>2. WindowLeft(p, out[Len(out)].psn) = MaxOutgoing - (Len(out) - 1)
    BY <2>1, CompareInWindow DEF WindowLeft
  <2>3. ~(WindowLeft(p, out[Len(out)].psn) < 0)
    BY <2>1, <2>2, PsnAssumption
  <2> QED
    BY <1>2, <2>3 DEF XmitAssertion
<1> QED
  BY <1>1, <1>2

\* Moving the first n pending packets to the outgoing list keeps the queue.
LEMMA MovePackets ==
  ASSUME NEW out \in Seq(Packet), NEW pend \in Seq(Packet),
         NEW n \in 0 .. Len(pend)
  PROVE  LET now == SubSeq(pend, 1, n)
             later == SubSeq(pend, n + 1, Len(pend))
         IN /\ now \in Seq(Packet) /\ later \in Seq(Packet)
            /\ out \o now \in Seq(Packet)
            /\ Len(out \o now) = Len(out) + n
            /\ later # <<>> => n < Len(pend)
            /\ (out \o now) \o later = out \o pend
<1> DEFINE now == SubSeq(pend, 1, n)
           later == SubSeq(pend, n + 1, Len(pend))
<1>1. /\ now \in Seq(Packet) /\ Len(now) = n
      /\ later \in Seq(Packet) /\ Len(later) = Len(pend) - n
  OBVIOUS
<1>2. now \o later = pend
  <2>1. 1 \in 1 .. Len(pend) + 1 /\ n \in 1 - 1 .. Len(pend) /\ Len(pend) \in n .. Len(pend)
    OBVIOUS
  <2>2. now \o later = SubSeq(pend, 1, Len(pend))
    BY ONLY <2>1, pend \in Seq(Packet), ConcatAdjacentSubSeq
  <2> QED
    BY <2>2, SubSeqFull
<1> HIDE DEF now, later
<1>3. (out \o now) \o later = out \o (now \o later)
  <2>1. out \in Seq(Packet) /\ now \in Seq(Packet) /\ later \in Seq(Packet)
    BY <1>1
  <2> QED
    BY ONLY <2>1, ConcatAssociative
<1>4. out \o now \in Seq(Packet) /\ Len(out \o now) = Len(out) + Len(now)
  BY <1>1, ConcatProperties
<1>5. later # <<>> => n < Len(pend)
  BY <1>1
<1>6. QED
  BY <1>1, <1>2, <1>3, <1>4, <1>5 DEF now, later

(***************************************************************************)
(* What a call of roce_xmit_pkts leaves behind, whichever handler makes    *)
(* it: no packet is lost or renumbered, and the window is full or nothing  *)
(* is pending.                                                             *)
(***************************************************************************)
LEMMA XmitPktsEffect ==
  ASSUME NEW p \in PSN, NEW rpsn, NEW out \in Seq(Packet),
         NEW pend \in Seq(Packet), NEW resent \in Seq(Packet),
         req_net \in Seq(Packet), abort = "none",
         NumberedFrom(p, out \o pend),
         Len(out) <= MaxOutgoing + 1,
         XmitPkts(p, rpsn, out, pend, resent)
  PROVE  /\ outgoing_pkts' \in Seq(Packet)
         /\ pending_pkts' \in Seq(Packet)
         /\ req_net' \in Seq(Packet)
         /\ abort' \in {"none", "xmit_range"}
         /\ outgoing_pkts' \o pending_pkts' = out \o pend
         /\ Len(out) <= Len(outgoing_pkts')
         /\ Len(outgoing_pkts') <= MaxOutgoing + 1
         /\ abort' = "none" /\ pending_pkts' # <<>>
              => Len(outgoing_pkts') = MaxOutgoing + 1
<1> DEFINE n == XmitCount(p, out, pend)
           now == SubSeq(pend, 1, n)
           later == SubSeq(pend, n + 1, Len(pend))
<1>1. /\ n \in 0 .. Len(pend)
      /\ Len(out) + n <= MaxOutgoing + 1
      /\ n < Len(pend) => Len(out) + n = MaxOutgoing + 1
  BY XmitFillsWindow
<1>2. NumberedFrom(p, out)
  BY DEF NumberedFrom
<1>3. XmitAssertion(p, rpsn, out) \in {"none", "xmit_range"}
  BY <1>2, NoWindowAssertion
<1>4. CASE XmitAssertion(p, rpsn, out) # "none"
  <2>1. /\ abort' = XmitAssertion(p, rpsn, out)
        /\ outgoing_pkts' = out /\ pending_pkts' = pend
        /\ req_net' = req_net \o resent
    BY <1>4 DEF XmitPkts
  <2> QED
    BY <2>1, <1>3, <1>4
<1>5. CASE XmitAssertion(p, rpsn, out) = "none"
  <2>1. /\ abort' = abort
        /\ outgoing_pkts' = out \o now /\ pending_pkts' = later
        /\ req_net' = req_net \o resent \o now
    BY <1>5 DEF XmitPkts
  <2>2. /\ now \in Seq(Packet) /\ later \in Seq(Packet)
        /\ out \o now \in Seq(Packet)
        /\ Len(out \o now) = Len(out) + n
        /\ later # <<>> => n < Len(pend)
        /\ (out \o now) \o later = out \o pend
    BY <1>1, MovePackets
  <2> HIDE DEF n, now, later
  <2>3. req_net \o resent \o now \in Seq(Packet)
    BY <2>2, ConcatProperties
  <2> QED
    BY ONLY <2>1, <2>2, <2>3, <1>1, abort = "none", Len(out) \in Nat
<1> QED
  BY <1>4, <1>5

-----------------------------------------------------------------------------
(* Completing WRs. *)

\* A nonempty set of numbers has a least element.
LEMMA LeastElement ==
  ASSUME NEW S \in SUBSET Nat, S # {}
  PROVE  \E k \in S : \A j \in S : k <= j
<1>1. PICK k \in S : \A j \in S : ~(<<j, k>> \in OpToRel(<, Nat))
  BY WFMin, NatLessThanWellFounded
<1>2. \A j \in S : ~(j < k)
  BY <1>1 DEF OpToRel
<1> QED
  BY <1>2

\* roce_complete_head leaves a suffix of the send queue.
LEMMA CompleteHeadType ==
  ASSUME NEW q \in Seq(SendWR)
  PROVE  CompleteHead(q) \in Seq(SendWR)
<1>1. CASE Waiting(q) = {}
  BY <1>1 DEF CompleteHead
<1>2. CASE Waiting(q) # {}
  <2>1. Waiting(q) \in SUBSET Nat /\ Waiting(q) \subseteq 1 .. Len(q)
    BY DEF Waiting
  <2>2. PICK k \in Waiting(q) : \A j \in Waiting(q) : k <= j
    BY <1>2, <2>1, LeastElement
  <2>3. CompleteHead(q) = SubSeq(q, k, Len(q))
    BY <1>2, <2>1, <2>2, FirstOfIsLeast DEF CompleteHead
  <2> QED
    BY <2>1, <2>2, <2>3
<1> QED
  BY <1>1, <1>2

-----------------------------------------------------------------------------
(* The queue of packets, as it grows at its end and shrinks at its head. *)

\* The last packet of the queue q asks for an ACK, and so does every packet
\* whose PSN is a multiple of the window.
Marked(q) == /\ q # <<>> => q[Len(q)].ack
             /\ \A i \in 1 .. Len(q) : q[i].psn % MaxOutgoing = 0 => q[i].ack

\* Packets numbered from where the queue ends continue its numbering.
LEMMA AppendNumbered ==
  ASSUME NEW p \in PSN, NEW q \in Seq(Packet), NEW k \in Seq(Packet),
         NumberedFrom(p, q), NumberedFrom(PsnAdd(p, Len(q)), k)
  PROVE  /\ NumberedFrom(p, q \o k)
         /\ PsnAdd(PsnAdd(p, Len(q)), Len(k)) = PsnAdd(p, Len(q \o k))
<1>1. /\ q \o k \in Seq(Packet)
      /\ Len(q \o k) = Len(q) + Len(k)
      /\ Len(q) \in Nat /\ Len(k) \in Nat /\ p \in Int
  BY PsnAssumption DEF PSN
<1>2. PsnAdd(PsnAdd(p, Len(q)), Len(k)) = PsnAdd(p, Len(q \o k))
  BY <1>1, PsnAddAdd
<1>3. ASSUME NEW i \in 1 .. Len(q \o k)
      PROVE  (q \o k)[i].psn = PsnAdd(p, i - 1)
  <2>1. CASE i <= Len(q)
    <3>1. (q \o k)[i] = q[i] /\ i \in 1 .. Len(q)
      BY <2>1, <1>1
    <3> QED
      BY <3>1 DEF NumberedFrom
  <2>2. CASE i > Len(q)
    <3> DEFINE j == i - Len(q)
    <3>1. (q \o k)[i] = k[j] /\ j \in 1 .. Len(k) /\ j - 1 \in Int
      BY <2>2, <1>1
    <3>2. k[j].psn = PsnAdd(PsnAdd(p, Len(q)), j - 1)
      BY <3>1 DEF NumberedFrom
    <3>3. PsnAdd(PsnAdd(p, Len(q)), j - 1) = PsnAdd(p, Len(q) + (j - 1))
      BY <3>1, <1>1, PsnAddAdd
    <3>4. Len(q) + (j - 1) = i - 1
      BY <1>1
    <3> QED
      BY <3>1, <3>2, <3>3, <3>4
  <2> QED
    BY <2>1, <2>2, <1>1
<1> QED
  BY <1>2, <1>3 DEF NumberedFrom

\* Without its first packet the queue is numbered from the next PSN.
LEMMA TailNumbered ==
  ASSUME NEW p \in PSN, NEW q \in Seq(Packet), q # <<>>, NumberedFrom(p, q)
  PROVE  /\ NumberedFrom(PsnInc(p), Tail(q))
         /\ PsnAdd(PsnInc(p), Len(Tail(q))) = PsnAdd(p, Len(q))
<1>1. /\ Tail(q) \in Seq(Packet) /\ Len(Tail(q)) = Len(q) - 1
      /\ Len(q) \in Nat /\ Len(q) > 0 /\ p \in Int
  BY PsnAssumption DEF PSN
<1>2. \A j \in Int : PsnAdd(PsnInc(p), j) = PsnAdd(p, 1 + j)
  BY <1>1, PsnAddAdd DEF PsnInc
<1>3. ASSUME NEW i \in 1 .. Len(Tail(q))
      PROVE  Tail(q)[i].psn = PsnAdd(PsnInc(p), i - 1)
  <2>1. Tail(q)[i] = q[i + 1] /\ i + 1 \in 1 .. Len(q)
    BY <1>1
  <2>2. q[i + 1].psn = PsnAdd(p, (i + 1) - 1)
    BY <2>1 DEF NumberedFrom
  <2>3. (i + 1) - 1 = 1 + (i - 1) /\ i - 1 \in Int
    BY <1>1
  <2> QED
    BY <2>1, <2>2, <2>3, <1>2
<1>4. 1 + Len(Tail(q)) = Len(q) /\ Len(Tail(q)) \in Int
  BY <1>1
<1> QED
  BY <1>2, <1>3, <1>4 DEF NumberedFrom

\* A marked queue stays marked when a message is appended.
LEMMA AppendMarked ==
  ASSUME NEW q \in Seq(Packet), NEW k \in Seq(Packet), Marked(q), Marked(k)
  PROVE  Marked(q \o k)
<1>1. /\ Len(q \o k) = Len(q) + Len(k)
      /\ Len(q) \in Nat /\ Len(k) \in Nat
  OBVIOUS
<1>2. ASSUME NEW i \in 1 .. Len(q \o k), (q \o k)[i].psn % MaxOutgoing = 0
      PROVE  (q \o k)[i].ack
  <2>1. CASE i <= Len(q)
    <3>1. (q \o k)[i] = q[i] /\ i \in 1 .. Len(q)
      BY <2>1, <1>1
    <3> QED
      BY <3>1, <1>2 DEF Marked
  <2>2. CASE i > Len(q)
    <3>1. (q \o k)[i] = k[i - Len(q)] /\ i - Len(q) \in 1 .. Len(k)
      BY <2>2, <1>1
    <3> QED
      BY <3>1, <1>2 DEF Marked
  <2> QED
    BY <2>1, <2>2, <1>1
<1>3. ASSUME q \o k # <<>>
      PROVE  (q \o k)[Len(q \o k)].ack
  <2>1. CASE k = <<>>
    <3>1. q \o k = q
      BY <2>1
    <3> QED
      BY <3>1, <1>3 DEF Marked
  <2>2. CASE k # <<>>
    <3>1. (q \o k)[Len(q \o k)] = k[Len(k)]
      BY <2>2, <1>1
    <3> QED
      BY <3>1, <2>2 DEF Marked
  <2> QED
    BY <2>1, <2>2
<1> QED
  BY <1>2, <1>3 DEF Marked

\* A marked queue stays marked when its first packet is acknowledged.
LEMMA TailMarked ==
  ASSUME NEW q \in Seq(Packet), q # <<>>, Marked(q)
  PROVE  Marked(Tail(q))
<1>1. /\ Len(Tail(q)) = Len(q) - 1 /\ Len(q) \in Nat /\ Len(q) > 0
      /\ \A i \in 1 .. Len(Tail(q)) : Tail(q)[i] = q[i + 1] /\ i + 1 \in 1 .. Len(q)
  OBVIOUS
<1>2. Tail(q) # <<>> => Tail(q)[Len(Tail(q))] = q[Len(q)]
  BY <1>1
<1> QED
  BY <1>1, <1>2 DEF Marked

\* Taking a packet from the head of the outgoing list takes it from the queue.
LEMMA TailOfQueue ==
  ASSUME NEW out \in Seq(Packet), NEW pend \in Seq(Packet), out # <<>>
  PROVE  /\ Tail(out) \o pend = Tail(out \o pend)
         /\ out \o pend # <<>>
         /\ Head(out \o pend) = Head(out)
  OBVIOUS

-----------------------------------------------------------------------------
(* The inductive invariant. *)

\* The ACK loop looks at the head of the outgoing list only when there is one.
LoopHasPacket == ack.more => outgoing_pkts # <<>>

(***************************************************************************)
(* PsnContiguous is what makes comparing PSNs meaningful, and needs the    *)
(* types and LoopHasPacket; the window, and the ACK request in it, need    *)
(* PsnContiguous.                                                          *)
(***************************************************************************)
ReqInv == /\ ReqTypeOK
          /\ PsnContiguous
          /\ WindowKept
          /\ LoopHasPacket
          /\ Marked(Queued)
          /\ abort # "xmit_window"

\* A new QP satisfies the invariant.
LEMMA ReqInvInit == ReqInit => ReqInv
<1> SUFFICES ASSUME ReqInit PROVE ReqInv
  OBVIOUS
<1>1. Queued = <<>> /\ Len(Queued) = 0 /\ outgoing_pkts = <<>>
  BY DEF ReqInit, Queued
<1>2. sq_psn \in PSN /\ req_psn = sq_psn
  BY RequesterAssumption DEF ReqInit
<1>3. ReqTypeOK
  BY <1>2, PsnAssumption DEF ReqInit, ReqTypeOK, NoAck, PSN
<1>4. PsnContiguous
  BY <1>1, <1>2, PsnAddZero DEF PsnContiguous
<1>5. WindowKept
  BY PsnAssumption DEF ReqInit, WindowKept
<1>6. LoopHasPacket /\ abort # "xmit_window"
  BY DEF ReqInit, NoAck, LoopHasPacket
<1>7. Marked(Queued)
  BY <1>1 DEF Marked
<1> QED
  BY <1>3, <1>4, <1>5, <1>6, <1>7 DEF ReqInv

\* What a WR posted by the application becomes (roce_request_rc).
LEMMA PostSendInv ==
  ASSUME ReqInv, NEW r \in Requests, PostSend(r)
  PROVE  ReqInv'
<1> DEFINE wr == [id |-> Len(posted) + 1, op |-> r.op, len |-> r.len, va |-> r.va,
                  sig |-> r.sig, error |-> r.fault \in {"mrs", "inline"}]
           pkts == IF wr.op \in PacketOps /\ ~wr.error
                   THEN RcBuildPkts(wr, req_psn) ELSE <<>>
           next_psn == PsnAdd(req_psn, Len(pkts))
<1>1. ReqTypeOK /\ PsnContiguous /\ WindowKept /\ LoopHasPacket /\ Marked(Queued)
  BY DEF ReqInv
<1>2. wr \in SendWR
  BY <1>1, RequesterAssumption DEF RequestSet, SendWR, ReqTypeOK
<1>3. /\ pkts \in Seq(Packet)
      /\ NumberedFrom(req_psn, pkts)
      /\ Marked(pkts)
  <2>1. CASE wr.op \in PacketOps /\ ~wr.error
    <3>1. pkts = RcBuildPkts(wr, req_psn)
      BY <2>1
    <3>2. wr.op \in PacketOps /\ req_psn \in PSN
      BY <2>1, <1>1 DEF ReqTypeOK
    <3> HIDE DEF wr, pkts
    <3>3. /\ pkts \in Seq(Packet)
          /\ pkts[Len(pkts)].ack
          /\ \A i \in 1 .. Len(pkts) :
               /\ pkts[i].psn = PsnAdd(req_psn, i - 1)
               /\ pkts[i].psn % MaxOutgoing = 0 => pkts[i].ack
      BY ONLY <3>1, <3>2, <1>2, BuildPkts
    <3>4. NumberedFrom(req_psn, pkts)
      BY <3>3 DEF NumberedFrom
    <3>5. Marked(pkts)
      BY ONLY <3>3 DEF Marked
    <3> QED
      BY <3>3, <3>4, <3>5
  <2>2. CASE ~(wr.op \in PacketOps /\ ~wr.error)
    <3>1. pkts = <<>>
      BY <2>2
    <3> HIDE DEF wr, pkts
    <3> QED
      BY <3>1 DEF NumberedFrom, Marked
  <2> QED
    BY <2>1, <2>2
<1>4. CASE pkts # <<>> /\ r.fault = "map"
  <2>1. /\ abort' = "map_pages"
        /\ UNCHANGED <<sq, sq_psn, req_psn, pending_pkts, outgoing_pkts, ack,
                       req_net, posted, completed>>
    BY <1>4 DEF PostSend
  <2> QED
    BY <2>1, <1>1 DEF ReqInv, ReqTypeOK, PsnContiguous, WindowKept, LoopHasPacket,
                      Marked, Queued
<1>5. CASE ~(pkts # <<>> /\ r.fault = "map")
  <2>1. /\ abort = "none"
        /\ UNCHANGED <<sq_psn, ack, completed>>
        /\ posted' = Append(posted, wr)
        /\ sq' = CompleteHead(Append(sq, wr))
        /\ req_psn' = next_psn
        /\ XmitPkts(sq_psn, next_psn, outgoing_pkts, pending_pkts \o pkts, <<>>)
    BY <1>5 DEF PostSend
  <2> HIDE DEF wr, pkts
  <2>2. /\ sq_psn \in PSN /\ req_psn \in PSN
        /\ outgoing_pkts \in Seq(Packet) /\ pending_pkts \in Seq(Packet)
        /\ pending_pkts \o pkts \in Seq(Packet) /\ <<>> \in Seq(Packet)
        /\ Queued \in Seq(Packet) /\ req_net \in Seq(Packet)
        /\ Len(outgoing_pkts) <= MaxOutgoing + 1
    BY <1>1, <1>3 DEF ReqTypeOK, Queued, WindowKept
  <2>3. Queued \o pkts = outgoing_pkts \o (pending_pkts \o pkts)
    BY ONLY <1>3, <2>2, ConcatAssociative DEF Queued
  <2>4. /\ NumberedFrom(sq_psn, Queued \o pkts)
        /\ next_psn = PsnAdd(sq_psn, Len(Queued \o pkts))
    <3>1. /\ NumberedFrom(sq_psn, Queued)
          /\ req_psn = PsnAdd(sq_psn, Len(Queued))
      BY <1>1 DEF PsnContiguous, NumberedFrom
    <3>2. NumberedFrom(PsnAdd(sq_psn, Len(Queued)), pkts)
      BY <1>3, <3>1
    <3> QED
      BY <1>3, <2>2, <3>1, <3>2, AppendNumbered
  <2>5. Marked(Queued \o pkts)
    BY <1>1, <1>3, <2>2, AppendMarked
  <2>6. /\ outgoing_pkts' \in Seq(Packet) /\ pending_pkts' \in Seq(Packet)
        /\ req_net' \in Seq(Packet)
        /\ abort' \in {"none", "xmit_range"}
        /\ Queued' = Queued \o pkts
        /\ Len(outgoing_pkts) <= Len(outgoing_pkts')
        /\ Len(outgoing_pkts') <= MaxOutgoing + 1
        /\ abort' = "none" /\ pending_pkts' # <<>>
             => Len(outgoing_pkts') = MaxOutgoing + 1
    <3>1. NumberedFrom(sq_psn, outgoing_pkts \o (pending_pkts \o pkts))
      BY <2>3, <2>4
    <3> QED
      BY <3>1, <2>1, <2>2, <2>3, XmitPktsEffect DEF Queued
  <2> HIDE DEF next_psn
  <2>7. ReqTypeOK'
    <3>1. Append(sq, wr) \in Seq(SendWR) /\ Append(posted, wr) \in Seq(SendWR)
      BY <1>1, <1>2 DEF ReqTypeOK
    <3>2. sq' \in Seq(SendWR) /\ posted' \in Seq(SendWR)
      BY <2>1, <3>1, CompleteHeadType
    <3>3. next_psn \in PSN
      BY <2>2, <1>3, PsnAddType, PsnAssumption DEF next_psn, PSN
    <3> QED
      BY <2>1, <2>6, <3>2, <3>3, <1>1 DEF ReqTypeOK
  <2>8. PsnContiguous'
    BY <2>1, <2>4, <2>6 DEF PsnContiguous, NumberedFrom
  <2>9. WindowKept'
    BY <2>1, <2>6 DEF WindowKept
  <2>10. LoopHasPacket'
    BY <1>1, <2>1, <2>2, <2>6 DEF LoopHasPacket
  <2>11. Marked(Queued)'
    BY <2>5, <2>6 DEF Marked
  <2> QED
    BY <2>6, <2>7, <2>8, <2>9, <2>10, <2>11 DEF ReqInv
<1> QED
  BY <1>4, <1>5

\* roce_modify_qp with ROCE_QP_SQ_PSN renumbers an empty queue.
LEMMA ModifySqPsnInv ==
  ASSUME ReqInv, NEW psn \in StartPsns, ModifySqPsn(psn)
  PROVE  ReqInv'
<1>1. psn \in PSN
  BY RequesterAssumption
<1>2. /\ ReqTypeOK /\ WindowKept /\ LoopHasPacket /\ Marked(Queued)
      /\ abort # "xmit_window"
  BY DEF ReqInv
<1>3. /\ sq_psn' = psn /\ req_psn' = psn
      /\ UNCHANGED <<sq, pending_pkts, outgoing_pkts, ack, req_net, posted,
                     completed, abort>>
      /\ outgoing_pkts = <<>> /\ pending_pkts = <<>>
  BY DEF ModifySqPsn, history
<1>4. Queued' = <<>> /\ Queued = <<>>
  BY <1>3 DEF Queued
<1>5. ReqTypeOK'
  BY <1>1, <1>2, <1>3 DEF ReqTypeOK
<1>6. PsnContiguous'
  BY <1>1, <1>3, <1>4, PsnAddZero DEF PsnContiguous
<1>7. WindowKept' /\ LoopHasPacket'
  BY <1>2, <1>3 DEF WindowKept, LoopHasPacket
<1>8. Marked(Queued)'
  BY <1>4 DEF Marked
<1> QED
  BY <1>2, <1>3, <1>5, <1>6, <1>7, <1>8 DEF ReqInv

\* Entering roce_handle_acknowledge changes no queue.
LEMMA HandleAcknowledgeInv ==
  ASSUME ReqInv, NEW nak \in BOOLEAN, NEW psn \in PSN, HandleAcknowledge(nak, psn)
  PROVE  ReqInv'
<1> DEFINE upto == AckedUpto(nak, psn)
           more == AckInRange(upto) /\ outgoing_pkts # <<>>
<1>1. /\ ReqTypeOK /\ PsnContiguous /\ WindowKept /\ LoopHasPacket
      /\ Marked(Queued) /\ abort # "xmit_window"
  BY DEF ReqInv
<1>2. upto \in PSN
  <2>1. psn \in Int /\ PsnMod - 1 \in Int
    BY PsnAssumption DEF PSN
  <2>2. PsnDec(psn) \in PSN
    BY <2>1, PsnAddType DEF PsnDec
  <2> QED
    BY <2>2 DEF AckedUpto
<1>3. more \in BOOLEAN
  OBVIOUS
<1>4. /\ ack' = [on |-> TRUE, nak |-> nak, psn |-> upto, more |-> more]
      /\ UNCHANGED <<sq, sq_psn, req_psn, pending_pkts, outgoing_pkts, req_net,
                     posted, completed, abort>>
  BY DEF HandleAcknowledge, queues, history
<1>5. ack'.more = more /\ ack'.on = TRUE
  BY <1>4
<1>6. LoopHasPacket'
  BY <1>4, <1>5 DEF LoopHasPacket
<1> HIDE DEF upto, more
<1>7. ack' \in [on : BOOLEAN, nak : BOOLEAN, psn : PSN, more : BOOLEAN]
  BY <1>2, <1>3, <1>4
<1>8. ReqTypeOK'
  BY <1>1, <1>4, <1>7 DEF ReqTypeOK
<1>9. Queued' = Queued
  BY <1>4 DEF Queued
<1>10. PsnContiguous' /\ Marked(Queued)'
  BY <1>1, <1>4, <1>9 DEF PsnContiguous, Marked
<1>11. WindowKept'
  BY <1>1, <1>4, <1>5 DEF WindowKept
<1> QED
  BY <1>1, <1>4, <1>6, <1>8, <1>10, <1>11 DEF ReqInv

(***************************************************************************)
(* One iteration of the ACK loop: the head of the queue carries sq_psn, so *)
(* advancing sq_psn by one keeps the numbering although the code does not  *)
(* look at the packet's PSN.                                               *)
(***************************************************************************)
LEMMA AckOneInv ==
  ASSUME ReqInv, AckOne
  PROVE  ReqInv'
<1> DEFINE pkt == Head(outgoing_pkts)
           q == CompleteHead(sq)
           ends == pkt.opaque # 0
           done == [id |-> Head(q).id, cqe |-> Head(q).sig]
<1>1. /\ ReqTypeOK /\ PsnContiguous /\ WindowKept /\ LoopHasPacket
      /\ Marked(Queued) /\ abort # "xmit_window"
  BY DEF ReqInv
<1>2. /\ abort = "none" /\ ack.on /\ ack.more
      /\ outgoing_pkts' = Tail(outgoing_pkts)
      /\ sq_psn' = PsnInc(sq_psn)
      /\ ack' = [ack EXCEPT !.more = Len(outgoing_pkts) > 1]
      /\ UNCHANGED <<req_psn, pending_pkts, req_net, posted>>
  BY DEF AckOne
<1>3. /\ outgoing_pkts \in Seq(Packet) /\ pending_pkts \in Seq(Packet)
      /\ outgoing_pkts # <<>> /\ sq_psn \in PSN
  BY <1>1, <1>2 DEF ReqTypeOK, LoopHasPacket
<1>4. /\ Queued' = Tail(Queued) /\ Queued # <<>> /\ Queued \in Seq(Packet)
  BY <1>2, <1>3, TailOfQueue DEF Queued
<1>5. q \in Seq(SendWR)
  BY <1>1, CompleteHeadType DEF ReqTypeOK
<1>6. /\ sq' \in Seq(SendWR)
      /\ completed' \in Seq([id : Nat, cqe : BOOLEAN])
      /\ abort' \in {"none", "opaque"}
  <2>1. CASE ends /\ (q = <<>> \/ Head(q).id # pkt.opaque)
    <3>1. abort' = "opaque" /\ sq' = q /\ completed' = completed
      BY <2>1 DEF AckOne
    <3> QED
      BY <3>1, <1>1, <1>5 DEF ReqTypeOK
  <2>2. CASE ~ends
    <3>1. abort' = abort /\ sq' = q /\ completed' = completed
      BY <2>2 DEF AckOne
    <3> QED
      BY <3>1, <1>1, <1>2, <1>5 DEF ReqTypeOK
  <2>3. CASE ends /\ ~(q = <<>> \/ Head(q).id # pkt.opaque)
    <3>1. /\ abort' = abort /\ sq' = CompleteHead(Tail(q))
          /\ completed' = Append(completed, done)
      BY <2>3 DEF AckOne
    <3> HIDE DEF q
    <3>2. Tail(q) \in Seq(SendWR) /\ Head(q) \in SendWR
      BY <2>3, <1>5
    <3>3. CompleteHead(Tail(q)) \in Seq(SendWR)
      BY <3>2, CompleteHeadType
    <3>4. done \in [id : Nat, cqe : BOOLEAN]
      BY <3>2 DEF SendWR
    <3> HIDE DEF done
    <3>5. completed \in Seq([id : Nat, cqe : BOOLEAN])
      BY <1>1 DEF ReqTypeOK
    <3> QED
      BY <3>1, <3>3, <3>4, <3>5, <1>2
  <2> QED
    BY <2>1, <2>2, <2>3
<1> HIDE DEF pkt, q, ends, done
<1>7. /\ ack' \in [on : BOOLEAN, nak : BOOLEAN, psn : PSN, more : BOOLEAN]
      /\ ack'.on = ack.on
      /\ ack'.more = (Len(outgoing_pkts) > 1)
  <2>1. ack \in [on : BOOLEAN, nak : BOOLEAN, psn : PSN, more : BOOLEAN]
    BY <1>1 DEF ReqTypeOK
  <2>2. (Len(outgoing_pkts) > 1) \in BOOLEAN
    OBVIOUS
  <2> QED
    BY <2>1, <2>2, <1>2
<1>8. ReqTypeOK'
  <2>1. sq_psn' \in PSN
    BY <1>2, <1>3, PsnAddType, PsnAssumption DEF PsnInc, PSN
  <2>2. outgoing_pkts' \in Seq(Packet)
    BY <1>2, <1>3
  <2> QED
    BY <2>1, <2>2, <1>1, <1>2, <1>6, <1>7 DEF ReqTypeOK
<1>9. PsnContiguous'
  <2>1. NumberedFrom(sq_psn, Queued) /\ req_psn = PsnAdd(sq_psn, Len(Queued))
    BY <1>1 DEF PsnContiguous, NumberedFrom
  <2>2. /\ NumberedFrom(PsnInc(sq_psn), Tail(Queued))
        /\ PsnAdd(PsnInc(sq_psn), Len(Tail(Queued))) = PsnAdd(sq_psn, Len(Queued))
    BY <2>1, <1>3, <1>4, TailNumbered
  <2> QED
    BY <2>1, <2>2, <1>2, <1>4 DEF PsnContiguous, NumberedFrom
<1>10. Marked(Queued)'
  <2>1. Marked(Tail(Queued))
    BY <1>1, <1>4, TailMarked
  <2> QED
    BY <2>1, <1>4 DEF Marked
<1>11. WindowKept'
  BY <1>1, <1>2, <1>3, <1>7, PsnAssumption DEF WindowKept
<1>12. LoopHasPacket'
  BY <1>2, <1>3, <1>7 DEF LoopHasPacket
<1> QED
  BY <1>6, <1>8, <1>9, <1>10, <1>11, <1>12 DEF ReqInv

\* The end of the ACK loop: retransmission after a NAK, and roce_xmit_pkts.
LEMMA AckDoneInv ==
  ASSUME ReqInv, AckDone
  PROVE  ReqInv'
<1>1. ReqTypeOK /\ PsnContiguous /\ WindowKept /\ Marked(Queued)
  BY DEF ReqInv
<1>2. /\ abort = "none" /\ ack' = NoAck
      /\ XmitPkts(sq_psn, req_psn, outgoing_pkts, pending_pkts, Retransmitted)
      /\ UNCHANGED <<sq, sq_psn, req_psn, posted, completed>>
  BY DEF AckDone, history
<1>3. /\ sq_psn \in PSN /\ outgoing_pkts \in Seq(Packet)
      /\ pending_pkts \in Seq(Packet) /\ req_net \in Seq(Packet)
      /\ Len(outgoing_pkts) <= MaxOutgoing + 1
  BY <1>1 DEF ReqTypeOK, WindowKept
<1>4. Retransmitted \in Seq(Packet)
  BY <1>3 DEF Retransmitted
<1>5. NumberedFrom(sq_psn, outgoing_pkts \o pending_pkts)
  BY <1>1 DEF PsnContiguous, NumberedFrom, Queued
<1>6. /\ outgoing_pkts' \in Seq(Packet) /\ pending_pkts' \in Seq(Packet)
      /\ req_net' \in Seq(Packet)
      /\ abort' \in {"none", "xmit_range"}
      /\ Queued' = Queued
      /\ Len(outgoing_pkts') <= MaxOutgoing + 1
      /\ abort' = "none" /\ pending_pkts' # <<>>
           => Len(outgoing_pkts') = MaxOutgoing + 1
  BY <1>2, <1>3, <1>4, <1>5, XmitPktsEffect DEF Queued
<1>7. ReqTypeOK'
  <2>1. ack' \in [on : BOOLEAN, nak : BOOLEAN, psn : PSN, more : BOOLEAN]
    BY <1>2, PsnAssumption DEF NoAck, PSN
  <2> QED
    BY <2>1, <1>1, <1>2, <1>6 DEF ReqTypeOK
<1>8. PsnContiguous' /\ Marked(Queued)'
  BY <1>1, <1>2, <1>6 DEF PsnContiguous, Marked
<1>9. WindowKept' /\ LoopHasPacket'
  BY <1>2, <1>6 DEF WindowKept, LoopHasPacket, NoAck
<1> QED
  BY <1>6, <1>7, <1>8, <1>9 DEF ReqInv

\* The network takes packets, and steps that leave the requester alone.
LEMMA QuietInv ==
  ASSUME ReqInv, NetTake \/ UNCHANGED req_vars
  PROVE  ReqInv'
<1>1. /\ ReqTypeOK /\ PsnContiguous /\ WindowKept /\ LoopHasPacket
      /\ Marked(Queued) /\ abort # "xmit_window"
  BY DEF ReqInv
<1>2. /\ UNCHANGED <<sq, sq_psn, req_psn, pending_pkts, outgoing_pkts, ack,
                     posted, completed, abort>>
      /\ req_net' = <<>> \/ req_net' = req_net
  BY DEF NetTake, req_vars, queues, history
<1>3. ReqTypeOK'
  <2>1. req_net' \in Seq(Packet)
    <3>1. <<>> \in Seq(Packet) /\ req_net \in Seq(Packet)
      BY <1>1 DEF ReqTypeOK
    <3>2. CASE req_net' = <<>>
      BY <3>1, <3>2
    <3>3. CASE req_net' = req_net
      BY <3>1, <3>3
    <3> QED
      BY <3>2, <3>3, <1>2
  <2> QED
    BY <2>1, <1>1, <1>2 DEF ReqTypeOK
<1>4. Queued' = Queued
  BY <1>2 DEF Queued
<1>5. PsnContiguous' /\ WindowKept' /\ LoopHasPacket' /\ Marked(Queued)'
  BY <1>1, <1>2, <1>4 DEF PsnContiguous, WindowKept, LoopHasPacket, Marked
<1> QED
  BY <1>1, <1>2, <1>3, <1>5 DEF ReqInv

\* No step of the requester breaks the invariant.
LEMMA ReqInvNext == ReqInv /\ [ReqNext]_req_vars => ReqInv'
<1> SUFFICES ASSUME ReqInv, [ReqNext]_req_vars PROVE ReqInv'
  OBVIOUS
<1>1. ASSUME NEW r \in Requests, PostSend(r) PROVE ReqInv'
  BY <1>1, PostSendInv
<1>2. ASSUME NEW psn \in StartPsns, ModifySqPsn(psn) PROVE ReqInv'
  BY <1>2, ModifySqPsnInv
<1>3. CASE AnyAcknowledge
  BY <1>3, HandleAcknowledgeInv DEF AnyAcknowledge
<1>4. CASE AckOne
  BY <1>4, AckOneInv
<1>5. CASE AckDone
  BY <1>5, AckDoneInv
<1>6. CASE NetTake \/ UNCHANGED req_vars
  BY <1>6, QuietInv
<1> QED
  BY <1>1, <1>2, <1>3, <1>4, <1>5, <1>6 DEF ReqNext

-----------------------------------------------------------------------------
(* The theorems. *)

(***************************************************************************)
(* The inductive invariant holds throughout: every handler of the          *)
(* requester leaves a well-typed, contiguously numbered, marked queue with *)
(* no more than a window of it outgoing.                                   *)
(***************************************************************************)
THEOREM RequesterInvariant == ReqSpec => []ReqInv
<1>1. ReqInit => ReqInv
  BY ReqInvInit
<1>2. ReqInv /\ [ReqNext]_req_vars => ReqInv'
  BY ReqInvNext
<1> QED
  BY <1>1, <1>2, PTL DEF ReqSpec

\* Every field of the QP's requester half stays within its type: no PSN
\* leaves the 24-bit range although sq_psn, req.psn and the PSN of a NAK
\* are all computed by wrapping arithmetic.
THEOREM RequesterTypes == ReqSpec => []ReqTypeOK
<1>1. ReqInv => ReqTypeOK
  BY DEF ReqInv
<1> QED
  BY <1>1, RequesterInvariant, PTL

\* The outgoing and pending lists hold exactly the PSNs from sq_psn to
\* req.psn - 1 in order, across every wrap and whatever ACKs arrive.
THEOREM RequesterContiguous == ReqSpec => []PsnContiguous
<1>1. ReqInv => PsnContiguous
  BY DEF ReqInv
<1> QED
  BY <1>1, RequesterInvariant, PTL

\* roce_xmit_pkts never sends past the window and never leaves room in it
\* while a packet is pending.
THEOREM RequesterWindow == ReqSpec => []WindowKept
<1>1. ReqInv => WindowKept
  BY DEF ReqInv
<1> QED
  BY <1>1, RequesterInvariant, PTL

\* The assertion diff >= 0 of roce_xmit_pkts never fails, with or without
\* the range assertion in front of it.
THEOREM RequesterWindowAssert == ReqSpec => [](abort # "xmit_window")
<1>1. ReqInv => abort # "xmit_window"
  BY DEF ReqInv
<1> QED
  BY <1>1, RequesterInvariant, PTL

(***************************************************************************)
(* Whenever the requester waits, one of the packets it waits on asks for   *)
(* an ACK: either nothing is pending and the last packet ends a message,   *)
(* or the window is full and holds MAX_OUTGOING + 1 consecutive PSNs, one  *)
(* of which is a multiple of MAX_OUTGOING because that divides 2^24.       *)
(***************************************************************************)
THEOREM RequesterSolicitsAck == ReqSpec => []AckSolicited
<1>1. ReqInv => AckSolicited
  <2> SUFFICES ASSUME ReqInv, abort = "none", ~ack.on, outgoing_pkts # <<>>
               PROVE  \E i \in 1 .. Len(outgoing_pkts) : outgoing_pkts[i].ack
    BY DEF AckSolicited
  <2>1. /\ ReqTypeOK /\ PsnContiguous /\ WindowKept /\ Marked(Queued)
    BY DEF ReqInv
  <2>2. /\ outgoing_pkts \in Seq(Packet) /\ pending_pkts \in Seq(Packet)
        /\ sq_psn \in PSN
        /\ Len(outgoing_pkts) \in Nat /\ Len(outgoing_pkts) > 0
    BY <2>1 DEF ReqTypeOK
  <2>3. \A i \in 1 .. Len(outgoing_pkts) :
          /\ Queued[i] = outgoing_pkts[i]
          /\ i \in 1 .. Len(Queued)
    BY <2>2 DEF Queued
  <2>4. CASE pending_pkts = <<>>
    <3>1. Queued = outgoing_pkts
      BY <2>2, <2>4 DEF Queued
    <3>2. outgoing_pkts[Len(outgoing_pkts)].ack
      BY <3>1, <2>1 DEF Marked
    <3> QED
      BY <3>2, <2>2
  <2>5. CASE pending_pkts # <<>>
    <3>1. Len(outgoing_pkts) = MaxOutgoing + 1
      BY <2>1, <2>5 DEF WindowKept
    <3>2. PICK d \in 0 .. MaxOutgoing - 1 : PsnAdd(sq_psn, d) % MaxOutgoing = 0
      BY <2>2, MultipleInWindow
    <3> DEFINE i == d + 1
    <3>3. i \in 1 .. Len(outgoing_pkts) /\ i - 1 = d
      BY <3>1, PsnAssumption
    <3>4. Queued[i].psn = PsnAdd(sq_psn, d)
      BY <3>3, <2>1, <2>3 DEF PsnContiguous
    <3>5. Queued[i].ack
      BY <3>2, <3>3, <3>4, <2>1, <2>3 DEF Marked
    <3> QED
      BY <3>3, <3>5, <2>3
  <2> QED
    BY <2>4, <2>5
<1> QED
  BY <1>1, RequesterInvariant, PTL

(***************************************************************************)
(* No acknowledgement, however stale or wrong, moves sq_psn past a packet  *)
(* that was not sent: it advances by one and only together with the head   *)
(* of the outgoing list, which carries that PSN.                           *)
(***************************************************************************)
THEOREM RequesterSqPsn == ReqSpec => SqPsnFollowsPackets
<1> DEFINE Step == \/ sq_psn' = sq_psn
                   \/ Queued = <<>>
                   \/ /\ outgoing_pkts # <<>>
                      /\ sq_psn = Head(outgoing_pkts).psn
                      /\ Queued' = Tail(Queued)
                      /\ sq_psn' = PsnInc(sq_psn)
<1>1. ReqInv /\ [ReqNext]_req_vars => [Step]_req_vars
  <2> SUFFICES ASSUME ReqInv, [ReqNext]_req_vars PROVE Step \/ UNCHANGED req_vars
    OBVIOUS
  <2>1. ASSUME NEW r \in Requests, PostSend(r) PROVE sq_psn' = sq_psn
    BY <2>1 DEF PostSend
  <2>2. ASSUME NEW psn \in StartPsns, ModifySqPsn(psn) PROVE Queued = <<>>
    BY <2>2 DEF ModifySqPsn, Queued
  <2>3. CASE AnyAcknowledge
    BY <2>3 DEF AnyAcknowledge, HandleAcknowledge, queues
  <2>4. CASE AckOne
    <3>1. /\ outgoing_pkts' = Tail(outgoing_pkts) /\ sq_psn' = PsnInc(sq_psn)
          /\ pending_pkts' = pending_pkts /\ ack.more
      BY <2>4 DEF AckOne
    <3>2. ReqTypeOK /\ LoopHasPacket /\ PsnContiguous
      BY DEF ReqInv
    <3>3. /\ outgoing_pkts \in Seq(Packet) /\ pending_pkts \in Seq(Packet)
          /\ outgoing_pkts # <<>> /\ sq_psn \in PSN
      BY <3>1, <3>2 DEF ReqTypeOK, LoopHasPacket
    <3>4. Queued' = Tail(Queued)
      BY <3>1, <3>3, TailOfQueue DEF Queued
    <3>5. Queued[1] = Head(outgoing_pkts) /\ 1 \in 1 .. Len(Queued)
      BY <3>3 DEF Queued
    <3>6. Queued[1].psn = PsnAdd(sq_psn, 0)
      BY <3>5, <3>2 DEF PsnContiguous
    <3>7. PsnAdd(sq_psn, 0) = sq_psn
      BY <3>3, PsnAddZero
    <3> QED
      BY <3>1, <3>3, <3>4, <3>5, <3>6, <3>7
  <2>5. CASE AckDone
    BY <2>5 DEF AckDone
  <2>6. CASE NetTake
    BY <2>6 DEF NetTake, queues
  <2> QED
    BY <2>1, <2>2, <2>3, <2>4, <2>5, <2>6 DEF ReqNext
<1> QED
  BY <1>1, RequesterInvariant, PTL DEF ReqSpec, SqPsnFollowsPackets

-----------------------------------------------------------------------------
(***************************************************************************)
(* What the application sees of the requester, for every PSN width,        *)
(* window, MTU and set of requests: each WR that became packets waits in   *)
(* the send queue until the packet that ends its message is acknowledged,  *)
(* completes then, once and in the order of posting, and is always the WR  *)
(* that packet points at.                                                  *)
(*                                                                         *)
(* The proofs suppose that nothing of OtherOps is posted.  Such a WR waits *)
(* in the send queue with no packet that would complete it, and the        *)
(* message behind it meets it at the head (AssertionsHold is then false).  *)
(***************************************************************************)
NoOtherOps == \A r \in Requests : r.op \notin OtherOps

-----------------------------------------------------------------------------
(* The send queue. *)

\* The ids of the WRs of q that wait for an ACK.
IdsOf(q) == {q[i].id : i \in Waiting(q)}

\* WRs in the order they were posted.
InOrder(q) == \A i, j \in 1 .. Len(q) : i < j => q[i].id < q[j].id

\* roce_complete_head drops WRs that do not wait, up to the first that does.
LEMMA CompleteHeadDrops ==
  ASSUME NEW q \in Seq(SendWR)
  PROVE  LET c == CompleteHead(q) IN
         \E k \in 0 .. Len(q) :
           /\ c \in Seq(SendWR) /\ Len(c) = Len(q) - k
           /\ \A i \in 1 .. Len(c) : c[i] = q[i + k]
           /\ \A i \in 1 .. k : ~WaitsForAck(q[i])
           /\ c # <<>> => WaitsForAck(c[1])
<1> DEFINE c == CompleteHead(q)
<1>1. CASE Waiting(q) = {}
  <2>1. c = <<>>
    BY <1>1 DEF CompleteHead
  <2>2. \A i \in 1 .. Len(q) : ~WaitsForAck(q[i])
    BY <1>1 DEF Waiting
  <2> QED
    BY <2>1, <2>2
<1>2. CASE Waiting(q) # {}
  <2>1. Waiting(q) \in SUBSET Nat /\ Waiting(q) \subseteq 1 .. Len(q)
    BY DEF Waiting
  <2>2. PICK m \in Waiting(q) : \A j \in Waiting(q) : m <= j
    BY <1>2, <2>1, LeastElement
  <2>3. c = SubSeq(q, m, Len(q))
    BY <1>2, <2>1, <2>2, FirstOfIsLeast DEF CompleteHead
  <2>4. m \in 1 .. Len(q) /\ WaitsForAck(q[m])
    BY <2>1, <2>2 DEF Waiting
  <2>5. PICK k \in 0 .. Len(q) : m = k + 1
    <3>1. m - 1 \in 0 .. Len(q) /\ m = (m - 1) + 1
      BY <2>4
    <3> QED
      BY <3>1
  <2>6. \A i \in 1 .. k : ~WaitsForAck(q[i])
    <3> SUFFICES ASSUME NEW i \in 1 .. k, WaitsForAck(q[i]) PROVE FALSE
      OBVIOUS
    <3>1. i \in Waiting(q)
      BY <2>4, <2>5 DEF Waiting
    <3> QED
      BY <3>1, <2>2, <2>4, <2>5
  <2> HIDE DEF c
  <2>7. c \in Seq(SendWR) /\ Len(c) = Len(q) - k
    BY <2>3, <2>4, <2>5
  <2>8. \A i \in 1 .. Len(c) : c[i] = q[i + k]
    BY <2>3, <2>4, <2>5
  <2>9. WaitsForAck(c[1])
    <3>1. 1 \in 1 .. Len(c) /\ 1 + k = m
      BY <2>4, <2>5, <2>7
    <3> QED
      BY <3>1, <2>4, <2>8
  <2> QED
    BY <2>6, <2>7, <2>8, <2>9 DEF c
<1> QED
  BY <1>1, <1>2

\* What of that matters to the WRs: those that wait stay, in order.
LEMMA CompleteHeadKeeps ==
  ASSUME NEW q \in Seq(SendWR), InOrder(q)
  PROVE  LET c == CompleteHead(q) IN
         /\ c \in Seq(SendWR) /\ InOrder(c) /\ IdsOf(c) = IdsOf(q)
         /\ \A i \in 1 .. Len(c) : \E j \in 1 .. Len(q) : c[i] = q[j]
         /\ c # <<>> => /\ WaitsForAck(c[1])
                        /\ \A id \in IdsOf(q) : c[1].id <= id
         /\ IdsOf(q) # {} => c # <<>>
<1> DEFINE c == CompleteHead(q)
<1>1. PICK k \in 0 .. Len(q) :
        /\ c \in Seq(SendWR) /\ Len(c) = Len(q) - k
        /\ \A i \in 1 .. Len(c) : c[i] = q[i + k]
        /\ \A i \in 1 .. k : ~WaitsForAck(q[i])
        /\ c # <<>> => WaitsForAck(c[1])
  BY CompleteHeadDrops
<1> HIDE DEF c
<1>2. \A i \in 1 .. Len(c) : i + k \in 1 .. Len(q)
  BY <1>1
<1>3. InOrder(c)
  BY <1>1, <1>2 DEF InOrder
<1>4. ASSUME NEW i \in Waiting(q) PROVE i - k \in Waiting(c) /\ c[i - k] = q[i]
  <2>1. i \in 1 .. Len(q) /\ WaitsForAck(q[i])
    BY DEF Waiting
  <2>2. i \notin 1 .. k
    BY <1>1, <2>1
  <2>3. i - k \in 1 .. Len(c) /\ (i - k) + k = i
    BY <1>1, <2>1, <2>2
  <2>4. c[i - k] = q[i]
    BY <1>1, <2>3
  <2> QED
    BY <2>1, <2>3, <2>4 DEF Waiting
<1>5. ASSUME NEW i \in Waiting(c) PROVE i + k \in Waiting(q) /\ c[i] = q[i + k]
  <2>1. i \in 1 .. Len(c) /\ WaitsForAck(c[i])
    BY DEF Waiting
  <2> QED
    BY <2>1, <1>1, <1>2 DEF Waiting
<1>6. IdsOf(c) = IdsOf(q)
  BY <1>4, <1>5 DEF IdsOf
<1>7. ASSUME c # <<>>, NEW i \in Waiting(q) PROVE c[1].id <= q[i].id
  <2>1. i - k \in 1 .. Len(c) /\ c[i - k] = q[i]
    BY <1>4 DEF Waiting
  <2>2. 1 \in 1 .. Len(c)
    BY <1>7, <1>1
  <2>3. c[1].id \in Nat /\ c[i - k].id \in Nat
    <3>1. c[1] \in SendWR /\ c[i - k] \in SendWR
      BY <1>1, <2>1, <2>2
    <3> QED
      BY <3>1 DEF SendWR
  <2>4. CASE i - k = 1
    BY <2>1, <2>3, <2>4
  <2>5. CASE i - k # 1
    <3>1. 1 < i - k
      BY <2>1, <2>5, <1>1
    <3>2. c[1].id < c[i - k].id
      BY <3>1, <1>3, <2>1, <2>2 DEF InOrder
    <3> QED
      BY <3>2, <2>1, <2>3
  <2> QED
    BY <2>4, <2>5
<1>8. c # <<>> => \A id \in IdsOf(q) : c[1].id <= id
  BY <1>7 DEF IdsOf
<1>9. IdsOf(q) # {} => c # <<>>
  <2> SUFFICES ASSUME NEW i \in Waiting(q) PROVE c # <<>>
    BY DEF IdsOf
  <2>1. i - k \in 1 .. Len(c)
    BY <1>4 DEF Waiting
  <2> QED
    BY <2>1, <1>1
<1> QED
  BY <1>1, <1>2, <1>3, <1>6, <1>8, <1>9 DEF c

\* A WR posted later goes to the end.
LEMMA AppendIds ==
  ASSUME NEW q \in Seq(SendWR), NEW e \in SendWR, InOrder(q),
         \A i \in 1 .. Len(q) : q[i].id < e.id
  PROVE  /\ Append(q, e) \in Seq(SendWR) /\ InOrder(Append(q, e))
         /\ WaitsForAck(e) => IdsOf(Append(q, e)) = IdsOf(q) \cup {e.id}
         /\ ~WaitsForAck(e) => IdsOf(Append(q, e)) = IdsOf(q)
<1> DEFINE a == Append(q, e)
           n == Len(q)
<1>1. /\ a \in Seq(SendWR) /\ Len(a) = n + 1 /\ n \in Nat
      /\ a[n + 1] = e /\ \A i \in 1 .. n : a[i] = q[i]
  OBVIOUS
<1> HIDE DEF a, n
<1>2. \A i \in 1 .. n : q[i].id < e.id
  BY DEF n
<1>3. ASSUME NEW i \in 1 .. n + 1, NEW j \in 1 .. n + 1, i < j PROVE a[i].id < a[j].id
  <2>1. i \in 1 .. n /\ a[i] = q[i]
    BY <1>1, <1>3
  <2>2. CASE j \in 1 .. n
    <3>1. q[i].id < q[j].id
      BY <2>1, <2>2, <1>3 DEF InOrder, n
    <3> QED
      BY <3>1, <2>1, <2>2, <1>1
  <2>3. CASE j = n + 1
    BY <2>1, <2>3, <1>1, <1>2
  <2> QED
    BY <2>2, <2>3, <1>1
<1>4. InOrder(a)
  BY <1>1, <1>3 DEF InOrder
<1>5. Waiting(a) = Waiting(q) \cup {i \in {n + 1} : WaitsForAck(e)}
  <2>1. 1 .. n + 1 = (1 .. n) \cup {n + 1}
    BY <1>1
  <2> QED
    BY <2>1, <1>1 DEF Waiting, n
<1>6. \A i \in Waiting(q) : a[i] = q[i]
  BY <1>1 DEF Waiting, n
<1>7. WaitsForAck(e) => IdsOf(a) = IdsOf(q) \cup {e.id}
  BY <1>1, <1>5, <1>6 DEF IdsOf
<1>8. ~WaitsForAck(e) => IdsOf(a) = IdsOf(q)
  BY <1>5, <1>6 DEF IdsOf
<1> QED
  BY <1>1, <1>4, <1>7, <1>8 DEF a

\* The WR at the head completes.
LEMMA TailIds ==
  ASSUME NEW q \in Seq(SendWR), q # <<>>, InOrder(q), WaitsForAck(q[1])
  PROVE  /\ Tail(q) \in Seq(SendWR) /\ InOrder(Tail(q))
         /\ IdsOf(Tail(q)) = IdsOf(q) \ {q[1].id}
<1> DEFINE c == Tail(q)
<1>1. /\ c \in Seq(SendWR) /\ Len(c) = Len(q) - 1 /\ Len(q) \in Nat \ {0}
      /\ \A i \in 1 .. Len(c) : c[i] = q[i + 1]
  OBVIOUS
<1> HIDE DEF c
<1>2. InOrder(c)
  BY <1>1 DEF InOrder
<1>3. ASSUME NEW i \in Waiting(c) PROVE c[i].id \in IdsOf(q) \ {q[1].id}
  <2>1. i \in 1 .. Len(c) /\ WaitsForAck(c[i])
    BY DEF Waiting
  <2>2. i + 1 \in 1 .. Len(q) /\ 1 < i + 1 /\ 1 \in 1 .. Len(q) /\ c[i] = q[i + 1]
    BY <2>1, <1>1
  <2>3. i + 1 \in Waiting(q)
    BY <2>1, <2>2 DEF Waiting
  <2>4. q[1].id < q[i + 1].id
    BY <2>2 DEF InOrder
  <2>5. q[1] \in SendWR
    BY <2>2
  <2> QED
    BY <2>2, <2>3, <2>4, <2>5 DEF IdsOf, SendWR
<1>4. ASSUME NEW i \in Waiting(q), q[i].id # q[1].id PROVE q[i].id \in IdsOf(c)
  <2>1. i \in 1 .. Len(q) /\ WaitsForAck(q[i]) /\ i # 1
    BY <1>4 DEF Waiting
  <2>2. i - 1 \in 1 .. Len(c) /\ c[i - 1] = q[i]
    BY <2>1, <1>1
  <2>3. i - 1 \in Waiting(c)
    BY <2>1, <2>2 DEF Waiting
  <2> QED
    BY <2>2, <2>3 DEF IdsOf
<1>5. IdsOf(c) = IdsOf(q) \ {q[1].id}
  BY <1>3, <1>4 DEF IdsOf
<1> QED
  BY <1>1, <1>2, <1>5 DEF c

-----------------------------------------------------------------------------
(* The queue of packets. *)

\* The WRs the packets of p point at.
OpaquesOf(p) == {p[i].opaque : i \in 1 .. Len(p)} \ {0}

\* They point at them in the order of posting.
Rising(p) ==
  \A i, j \in 1 .. Len(p) :
    i < j /\ p[i].opaque # 0 /\ p[j].opaque # 0 => p[i].opaque < p[j].opaque

\* Of the packets of a message only the last points at the WR.
LEMMA MessageOpaques ==
  ASSUME NEW wr \in SendWR, wr.op \in PacketOps, wr.id # 0, NEW psn \in PSN
  PROVE  LET k == RcBuildPkts(wr, psn) IN OpaquesOf(k) = {wr.id} /\ Rising(k)
<1> DEFINE n == NumPkts(wr.len)
           k == RcBuildPkts(wr, psn)
<1>1. n \in Nat \ {0}
  BY NumPktsType DEF SendWR
<1> HIDE DEF n
<1>2. k \in Seq(Packet) /\ Len(k) = n
  BY BuildPkts DEF n
<1>3. \A i \in 1 .. n : k[i].opaque = Opaque(wr, i, n)
  BY DEF RcBuildPkts, n
<1> HIDE DEF k
<1>4. k[n].opaque = wr.id /\ n \in 1 .. n
  BY <1>1, <1>3 DEF Opaque
<1>5. \A i \in 1 .. n : i # n => k[i].opaque = 0
  BY <1>3 DEF Opaque
<1>6. OpaquesOf(k) = {wr.id}
  BY <1>2, <1>4, <1>5 DEF OpaquesOf
<1>7. Rising(k)
  BY <1>1, <1>2, <1>5 DEF Rising
<1> QED
  BY <1>6, <1>7 DEF k

\* Messages posted later are queued behind.
LEMMA AppendOpaques ==
  ASSUME NEW p \in Seq(Packet), NEW k \in Seq(Packet), Rising(p), Rising(k),
         \A a \in OpaquesOf(p), b \in OpaquesOf(k) : a < b
  PROVE  Rising(p \o k) /\ OpaquesOf(p \o k) = OpaquesOf(p) \cup OpaquesOf(k)
<1> DEFINE c == p \o k
           n == Len(p)
<1>1. /\ Len(c) = n + Len(k) /\ n \in Nat /\ Len(k) \in Nat
      /\ \A i \in 1 .. n : c[i] = p[i] /\ i \in 1 .. Len(c)
      /\ \A i \in 1 .. Len(k) : c[i + n] = k[i] /\ i + n \in 1 .. Len(c)
  <2>1. Len(c) = n + Len(k) /\ n \in Nat /\ Len(k) \in Nat
    OBVIOUS
  <2>2. \A i \in 1 .. n : c[i] = p[i]
    OBVIOUS
  <2>3. \A i \in 1 .. Len(k) : c[i + n] = k[i]
    OBVIOUS
  <2> HIDE DEF c, n
  <2> QED
    BY <2>1, <2>2, <2>3
<1> HIDE DEF c, n
<1>2. \A i \in 1 .. Len(c) :
        i \in 1 .. n \/ (i - n \in 1 .. Len(k) /\ c[i] = k[i - n] /\ i > n)
  <2> SUFFICES ASSUME NEW i \in 1 .. Len(c), ~(i \in 1 .. n)
               PROVE  i - n \in 1 .. Len(k) /\ c[i] = k[i - n] /\ i > n
    OBVIOUS
  <2>1. i > n /\ i - n \in 1 .. Len(k) /\ (i - n) + n = i
    BY <1>1
  <2> QED
    BY <2>1, <1>1
<1>3. ASSUME NEW i \in 1 .. Len(c), NEW j \in 1 .. Len(c), i < j,
             c[i].opaque # 0, c[j].opaque # 0
      PROVE  c[i].opaque < c[j].opaque
  <2>1. CASE i \in 1 .. n /\ j \in 1 .. n
    <3>1. i \in 1 .. Len(p) /\ j \in 1 .. Len(p) /\ c[i] = p[i] /\ c[j] = p[j]
      BY <2>1, <1>1 DEF n
    <3> QED
      BY <3>1, <1>3 DEF Rising
  <2>2. CASE i \in 1 .. n /\ ~(j \in 1 .. n)
    <3>1. c[i].opaque \in OpaquesOf(p)
      BY <2>2, <1>1, <1>3 DEF OpaquesOf, n
    <3>2. j - n \in 1 .. Len(k) /\ c[j] = k[j - n]
      BY <2>2, <1>2
    <3>3. c[j].opaque \in OpaquesOf(k)
      BY <3>2, <1>3 DEF OpaquesOf
    <3> QED
      BY <3>1, <3>3
  <2>3. CASE ~(i \in 1 .. n)
    <3>1. /\ i - n \in 1 .. Len(k) /\ c[i] = k[i - n] /\ ~(j \in 1 .. n)
      BY <2>3, <1>1, <1>2, <1>3
    <3>2. j - n \in 1 .. Len(k) /\ c[j] = k[j - n]
      BY <3>1, <1>2
    <3>3. i - n < j - n
      BY <1>1, <1>3
    <3> QED
      BY <3>1, <3>2, <3>3, <1>3 DEF Rising
  <2> QED
    BY <2>1, <2>2, <2>3
<1>4. Rising(c)
  BY <1>3 DEF Rising
<1>5. ASSUME NEW i \in 1 .. Len(c), c[i].opaque # 0
      PROVE  c[i].opaque \in OpaquesOf(p) \cup OpaquesOf(k)
  <2>1. CASE i \in 1 .. n
    BY <2>1, <1>1, <1>5 DEF OpaquesOf, n
  <2>2. CASE ~(i \in 1 .. n)
    <3>1. i - n \in 1 .. Len(k) /\ c[i] = k[i - n]
      BY <2>2, <1>2
    <3> QED
      BY <3>1, <1>5 DEF OpaquesOf
  <2> QED
    BY <2>1, <2>2
<1>6. OpaquesOf(c) \subseteq OpaquesOf(p) \cup OpaquesOf(k)
  BY <1>5 DEF OpaquesOf
<1>7. OpaquesOf(p) \subseteq OpaquesOf(c)
  BY <1>1 DEF OpaquesOf, n
<1>8. OpaquesOf(k) \subseteq OpaquesOf(c)
  <2>1. ASSUME NEW i \in 1 .. Len(k), k[i].opaque # 0 PROVE k[i].opaque \in OpaquesOf(c)
    <3>1. i + n \in 1 .. Len(c) /\ c[i + n] = k[i]
      BY <1>1
    <3> QED
      BY <3>1, <2>1 DEF OpaquesOf
  <2> QED
    BY <2>1 DEF OpaquesOf
<1> QED
  BY <1>4, <1>6, <1>7, <1>8 DEF c

\* The packet at the head is acknowledged.
LEMMA TailOpaques ==
  ASSUME NEW p \in Seq(Packet), p # <<>>, Rising(p)
  PROVE  /\ Rising(Tail(p)) /\ OpaquesOf(Tail(p)) = OpaquesOf(p) \ {Head(p).opaque}
         /\ Head(p).opaque # 0 => /\ Head(p).opaque \in OpaquesOf(p)
                                  /\ \A id \in OpaquesOf(p) : Head(p).opaque <= id
<1> DEFINE c == Tail(p)
<1>1. /\ Len(c) = Len(p) - 1 /\ Len(p) \in Nat \ {0} /\ Head(p) = p[1]
      /\ \A i \in 1 .. Len(c) : c[i] = p[i + 1]
      /\ \A i \in 1 .. Len(p) : p[i] \in Packet
  <2>1. Len(c) = Len(p) - 1 /\ Len(p) \in Nat \ {0} /\ Head(p) = p[1]
    OBVIOUS
  <2>2. \A i \in 1 .. Len(c) : c[i] = p[i + 1]
    OBVIOUS
  <2>3. \A i \in 1 .. Len(p) : p[i] \in Packet
    OBVIOUS
  <2> QED
    BY <2>1, <2>2, <2>3
<1> HIDE DEF c
<1>2. 1 \in 1 .. Len(p) /\ \A i \in 1 .. Len(c) : i + 1 \in 1 .. Len(p) /\ 1 < i + 1
  BY <1>1
<1>3. \A i \in 1 .. Len(p) : p[i].opaque \in Nat
  BY <1>1 DEF Packet
<1>4. Rising(c)
  BY <1>1, <1>2 DEF Rising
<1>5. ASSUME NEW i \in 1 .. Len(c), c[i].opaque # 0
      PROVE  c[i].opaque \in OpaquesOf(p) /\ c[i].opaque # p[1].opaque
  <2>1. i + 1 \in 1 .. Len(p) /\ 1 < i + 1 /\ c[i] = p[i + 1]
    BY <1>1, <1>2
  <2>2. p[1].opaque # 0 => p[1].opaque < p[i + 1].opaque
    BY <2>1, <1>2, <1>5 DEF Rising
  <2> QED
    BY <2>1, <2>2, <1>2, <1>3, <1>5 DEF OpaquesOf
<1>6. ASSUME NEW i \in 1 .. Len(p), p[i].opaque # 0, p[i].opaque # p[1].opaque
      PROVE  p[i].opaque \in OpaquesOf(c)
  <2>1. i - 1 \in 1 .. Len(c) /\ (i - 1) + 1 = i
    BY <1>1, <1>6
  <2>2. c[i - 1] = p[i]
    BY <2>1, <1>1
  <2> QED
    BY <2>1, <2>2, <1>6 DEF OpaquesOf
<1>7. OpaquesOf(c) = OpaquesOf(p) \ {p[1].opaque}
  BY <1>5, <1>6 DEF OpaquesOf
<1>8. ASSUME p[1].opaque # 0, NEW i \in 1 .. Len(p), p[i].opaque # 0
      PROVE  p[1].opaque <= p[i].opaque
  <2>1. CASE i = 1
    BY <2>1, <1>2, <1>3
  <2>2. CASE i # 1
    <3>1. 1 < i
      BY <2>2, <1>1
    <3>2. p[1].opaque < p[i].opaque
      BY <3>1, <1>2, <1>8 DEF Rising
    <3> QED
      BY <3>2, <1>2, <1>3
  <2> QED
    BY <2>1, <2>2
<1>9. p[1].opaque # 0 => /\ p[1].opaque \in OpaquesOf(p)
                         /\ \A id \in OpaquesOf(p) : p[1].opaque <= id
  BY <1>2, <1>8 DEF OpaquesOf
<1> QED
  BY <1>1, <1>4, <1>7, <1>9 DEF c

-----------------------------------------------------------------------------
(* The inductive invariant. *)

\* A WR's id is its place in the order of posting.
PostedNumbered ==
  \A i \in 1 .. Len(posted) : posted[i].id = i /\ posted[i].op \notin OtherOps

\* The send queue holds what was posted.
QueueOfPosted == \A i \in 1 .. Len(sq) : \E j \in 1 .. Len(posted) : sq[i] = posted[j]

(***************************************************************************)
(* OpaqueMatch makes the head of the send queue the WR of the packet that  *)
(* is acknowledged; that every WR was posted before the next makes the     *)
(* order of both queues the order of posting.                              *)
(***************************************************************************)
WrInv == ReqInv /\ PostedNumbered /\ QueueOfPosted /\ OpaqueMatch /\ WRsConserved
         /\ abort # "opaque"

\* The properties in terms of the two queues, before and after a step.
LEMMA OpaqueMatchMeans ==
  /\ OpaqueMatch <=> /\ IdsOf(sq) = OpaquesOf(Queued)
                     /\ InOrder(sq) /\ Rising(Queued)
  /\ OpaqueMatch' <=> /\ IdsOf(sq') = OpaquesOf(Queued')
                      /\ InOrder(sq') /\ Rising(Queued')
<1>1. OpaqueMatch <=> IdsOf(sq) = OpaquesOf(Queued) /\ InOrder(sq) /\ Rising(Queued)
  BY DEF OpaqueMatch, WaitingIds, PacketIds, IdsOf, OpaquesOf, InOrder, Rising
<1>2. OpaqueMatch' <=> /\ IdsOf(sq') = OpaquesOf(Queued')
                       /\ InOrder(sq') /\ Rising(Queued')
  BY DEF OpaqueMatch, WaitingIds, PacketIds, IdsOf, OpaquesOf, InOrder, Rising, Waiting
<1> QED
  BY <1>1, <1>2

LEMMA WRsConservedMeans ==
  /\ WRsConserved <=> /\ IdsOf(sq) \cup CompletedIds = MessageIds
                      /\ InOrder(completed)
                      /\ \A i \in CompletedIds, j \in IdsOf(sq) : i < j
  /\ WRsConserved' <=> /\ IdsOf(sq') \cup CompletedIds' = MessageIds'
                       /\ InOrder(completed')
                       /\ \A i \in CompletedIds', j \in IdsOf(sq') : i < j
<1>1. WaitingIds = IdsOf(sq) /\ WaitingIds' = IdsOf(sq')
  BY DEF WaitingIds, IdsOf, Waiting
<1> QED
  BY <1>1 DEF WRsConserved, InOrder

\* Nothing the invariant is about changes.
LEMMA WrInvKept ==
  ASSUME WrInv, ReqInv', Queued' = Queued, UNCHANGED <<sq, posted, completed>>,
         abort' # "opaque"
  PROVE  WrInv'
<1>1. OpaqueMatch'
  BY DEF WrInv, OpaqueMatch, WaitingIds, Waiting, PacketIds
<1>2. WRsConserved'
  BY DEF WrInv, WRsConserved, WaitingIds, Waiting, CompletedIds, MessageIds
<1> QED
  BY <1>1, <1>2 DEF WrInv, PostedNumbered, QueueOfPosted

\* A new QP has posted nothing.
LEMMA WrInvInit == ReqInit => WrInv
<1> SUFFICES ASSUME ReqInit PROVE WrInv
  OBVIOUS
<1>1. /\ sq = <<>> /\ Queued = <<>> /\ posted = <<>> /\ completed = <<>>
      /\ abort = "none"
  BY DEF ReqInit, Queued
<1>2. PostedNumbered /\ QueueOfPosted
  BY <1>1 DEF PostedNumbered, QueueOfPosted
<1>3. OpaqueMatch
  BY <1>1 DEF OpaqueMatch, WaitingIds, Waiting, PacketIds
<1>4. WRsConserved
  BY <1>1 DEF WRsConserved, WaitingIds, Waiting, CompletedIds, MessageIds
<1> QED
  BY <1>1, <1>2, <1>3, <1>4, ReqInvInit DEF WrInv

-----------------------------------------------------------------------------
(* Posting. *)

\* The WR a request becomes, and its packets.
NewWr(r) ==
  [id |-> Len(posted) + 1, op |-> r.op, len |-> r.len, va |-> r.va,
   sig |-> r.sig, error |-> r.fault \in {"mrs", "inline"}]

NewPkts(r) ==
  IF r.op \in PacketOps /\ ~NewWr(r).error THEN RcBuildPkts(NewWr(r), req_psn) ELSE <<>>

\* The new WR is typed; it waits if and only if it has packets.
LEMMA NewWrType ==
  ASSUME NoOtherOps, ReqInv, NEW r \in Requests
  PROVE  /\ NewWr(r) \in SendWR /\ NewWr(r).id = Len(posted) + 1
         /\ NewWr(r).op = r.op /\ Len(posted) \in Nat
         /\ WaitsForAck(NewWr(r)) <=> r.op \in PacketOps /\ ~NewWr(r).error
<1>1. r \in RequestSet /\ posted \in Seq(SendWR)
  BY RequesterAssumption DEF ReqInv, ReqTypeOK
<1>2. Len(posted) \in Nat
  BY <1>1
<1>3. NewWr(r) \in SendWR
  BY <1>1, <1>2 DEF NewWr, RequestSet, SendWR
<1>4. NewWr(r).op = r.op /\ NewWr(r).id = Len(posted) + 1
  BY DEF NewWr
<1>5. r.op \in Ops /\ r.op \notin OtherOps
  BY <1>1 DEF NoOtherOps, RequestSet
<1>6. r.op \in LocalOps <=> r.op \notin PacketOps
  BY <1>5 DEF Ops, LocalOps, PacketOps, OtherOps
<1> QED
  BY <1>2, <1>3, <1>4, <1>6 DEF WaitsForAck, IsLocal

\* Its packets are behind those queued.
LEMMA PostSendQueues ==
  ASSUME NoOtherOps, ReqInv, NEW r \in Requests, PostSend(r),
         ~(NewPkts(r) # <<>> /\ r.fault = "map")
  PROVE  /\ posted' = Append(posted, NewWr(r)) /\ completed' = completed
         /\ sq' = CompleteHead(Append(sq, NewWr(r)))
         /\ Queued' = Queued \o NewPkts(r) /\ NewPkts(r) \in Seq(Packet)
         /\ abort' \in {"none", "xmit_range"}
<1>1. /\ NewWr(r) \in SendWR /\ NewWr(r).op = r.op
  BY NewWrType
<1>2. /\ posted' = Append(posted, NewWr(r)) /\ completed' = completed
      /\ sq' = CompleteHead(Append(sq, NewWr(r))) /\ abort = "none"
      /\ XmitPkts(sq_psn, PsnAdd(req_psn, Len(NewPkts(r))), outgoing_pkts,
                  pending_pkts \o NewPkts(r), <<>>)
  BY DEF PostSend, NewPkts, NewWr
<1>3. /\ sq_psn \in PSN /\ req_psn \in PSN
      /\ outgoing_pkts \in Seq(Packet) /\ pending_pkts \in Seq(Packet)
      /\ req_net \in Seq(Packet) /\ Len(outgoing_pkts) <= MaxOutgoing + 1
  BY DEF ReqInv, ReqTypeOK, WindowKept
<1>4. NewPkts(r) \in Seq(Packet) /\ NumberedFrom(req_psn, NewPkts(r))
  <2>1. CASE r.op \in PacketOps /\ ~NewWr(r).error
    <3>1. NewPkts(r) = RcBuildPkts(NewWr(r), req_psn)
      BY <2>1 DEF NewPkts
    <3> QED
      BY <3>1, <2>1, <1>1, <1>3, BuildPkts DEF NumberedFrom
  <2>2. CASE ~(r.op \in PacketOps /\ ~NewWr(r).error)
    <3>1. NewPkts(r) = <<>>
      BY <2>2 DEF NewPkts
    <3> QED
      BY <3>1 DEF NumberedFrom
  <2> QED
    BY <2>1, <2>2
<1>5. Queued \o NewPkts(r) = outgoing_pkts \o (pending_pkts \o NewPkts(r))
  BY ONLY <1>3, <1>4, ConcatAssociative DEF Queued
<1>6. NumberedFrom(sq_psn, Queued \o NewPkts(r))
  <2>1. /\ NumberedFrom(sq_psn, Queued) /\ Queued \in Seq(Packet)
        /\ req_psn = PsnAdd(sq_psn, Len(Queued))
    BY <1>3 DEF ReqInv, PsnContiguous, NumberedFrom, Queued
  <2>2. NumberedFrom(PsnAdd(sq_psn, Len(Queued)), NewPkts(r))
    BY <2>1, <1>4
  <2> QED
    BY <2>1, <2>2, <1>3, <1>4, AppendNumbered
<1>7. /\ abort' \in {"none", "xmit_range"}
      /\ outgoing_pkts' \o pending_pkts' = outgoing_pkts \o (pending_pkts \o NewPkts(r))
  <2>1. pending_pkts \o NewPkts(r) \in Seq(Packet) /\ <<>> \in Seq(Packet)
    BY <1>3, <1>4
  <2>2. NumberedFrom(sq_psn, outgoing_pkts \o (pending_pkts \o NewPkts(r)))
    BY <1>5, <1>6
  <2> QED
    BY <2>1, <2>2, <1>2, <1>3, XmitPktsEffect
<1> QED
  BY <1>2, <1>4, <1>5, <1>7 DEF Queued

\* The packets of a new WR point at it and at nothing else.
LEMMA NewPktsOpaques ==
  ASSUME NoOtherOps, ReqInv, NEW r \in Requests
  PROVE  /\ Rising(NewPkts(r))
         /\ WaitsForAck(NewWr(r)) => OpaquesOf(NewPkts(r)) = {Len(posted) + 1}
         /\ ~WaitsForAck(NewWr(r)) => OpaquesOf(NewPkts(r)) = {}
<1>1. /\ NewWr(r) \in SendWR /\ NewWr(r).id = Len(posted) + 1
      /\ NewWr(r).op = r.op /\ Len(posted) \in Nat
      /\ WaitsForAck(NewWr(r)) <=> r.op \in PacketOps /\ ~NewWr(r).error
  BY NewWrType
<1>2. CASE WaitsForAck(NewWr(r))
  <2>1. NewPkts(r) = RcBuildPkts(NewWr(r), req_psn)
    BY <1>1, <1>2 DEF NewPkts
  <2>2. req_psn \in PSN /\ NewWr(r).op \in PacketOps /\ NewWr(r).id # 0
    BY <1>1, <1>2 DEF ReqInv, ReqTypeOK
  <2>3. OpaquesOf(NewPkts(r)) = {NewWr(r).id} /\ Rising(NewPkts(r))
    BY <2>1, <2>2, <1>1, MessageOpaques
  <2> QED
    BY <2>3, <1>1, <1>2
<1>3. CASE ~WaitsForAck(NewWr(r))
  <2>1. NewPkts(r) = <<>>
    BY <1>1, <1>3 DEF NewPkts
  <2> QED
    BY <2>1, <1>3 DEF Rising, OpaquesOf
<1> QED
  BY <1>2, <1>3

\* A WR posted joins the end of the send queue, its packets that of theirs.
LEMMA PostSendWr ==
  ASSUME NoOtherOps, WrInv, NEW r \in Requests, PostSend(r)
  PROVE  WrInv'
<1> DEFINE w == NewWr(r)
           k == NewPkts(r)
           n == Len(posted)
           s == Append(sq, w)
<1>1. ReqInv /\ ReqInv' /\ ReqTypeOK
  BY PostSendInv DEF WrInv, ReqInv
<1>2. CASE k # <<>> /\ r.fault = "map"
  <2>1. /\ abort' = "map_pages" /\ completed' = completed
        /\ UNCHANGED <<sq, pending_pkts, outgoing_pkts, posted>>
    BY <1>2 DEF PostSend, NewPkts, NewWr
  <2> QED
    BY <2>1, <1>1, WrInvKept DEF Queued
<1>3. CASE ~(k # <<>> /\ r.fault = "map")
  <2>1. /\ posted' = Append(posted, w) /\ completed' = completed
        /\ sq' = CompleteHead(s) /\ Queued' = Queued \o k /\ k \in Seq(Packet)
        /\ abort' \in {"none", "xmit_range"}
    BY <1>1, <1>3, PostSendQueues
  <2>2. /\ w \in SendWR /\ w.id = n + 1 /\ w.op = r.op /\ n \in Nat
        /\ WaitsForAck(w) <=> r.op \in PacketOps /\ ~w.error
    BY <1>1, NewWrType
  <2>3. /\ Rising(k)
        /\ WaitsForAck(w) => OpaquesOf(k) = {n + 1}
        /\ ~WaitsForAck(w) => OpaquesOf(k) = {}
    BY <1>1, NewPktsOpaques
  <2>4. /\ sq \in Seq(SendWR) /\ posted \in Seq(SendWR) /\ Queued \in Seq(Packet)
    BY <1>1 DEF ReqTypeOK, Queued
  <2>5. r.op \notin OtherOps
    BY DEF NoOtherOps
  <2> HIDE DEF w, k, n, s
  <2>6. /\ Len(posted') = n + 1 /\ posted'[n + 1] = w
        /\ \A i \in 1 .. n : posted'[i] = posted[i] /\ i \in 1 .. n + 1
    BY <2>1, <2>2, <2>4 DEF n
  <2>7. PostedNumbered'
    <3>1. \A i \in 1 .. n : posted[i].id = i /\ posted[i].op \notin OtherOps
      BY DEF WrInv, PostedNumbered, n
    <3>2. \A i \in 1 .. n + 1 : posted'[i].id = i /\ posted'[i].op \notin OtherOps
      BY <3>1, <2>2, <2>5, <2>6
    <3> QED
      BY <3>2, <2>6 DEF PostedNumbered
  <2>8. \A i \in 1 .. Len(sq) : \E j \in 1 .. n : sq[i] = posted[j] /\ sq[i].id = j
    BY DEF WrInv, PostedNumbered, QueueOfPosted, n
  <2>9. \A i \in 1 .. Len(sq) : sq[i].id < w.id
    BY <2>2, <2>8
  <2>10. InOrder(sq) /\ IdsOf(sq) = OpaquesOf(Queued) /\ Rising(Queued)
    BY OpaqueMatchMeans DEF WrInv
  <2>11. /\ s \in Seq(SendWR) /\ InOrder(s)
         /\ WaitsForAck(w) => IdsOf(s) = IdsOf(sq) \cup {n + 1}
         /\ ~WaitsForAck(w) => IdsOf(s) = IdsOf(sq)
    BY <2>2, <2>4, <2>9, <2>10, AppendIds DEF s
  <2>12. /\ InOrder(sq') /\ IdsOf(sq') = IdsOf(s)
         /\ \A i \in 1 .. Len(sq') : \E j \in 1 .. Len(s) : sq'[i] = s[j]
    BY <2>1, <2>11, CompleteHeadKeeps
  <2>13. \A i \in 1 .. Len(s) : \E j \in 1 .. n + 1 : s[i] = posted'[j]
    <3> SUFFICES ASSUME NEW i \in 1 .. Len(s) PROVE \E j \in 1 .. n + 1 : s[i] = posted'[j]
      OBVIOUS
    <3>1. CASE i \in 1 .. Len(sq)
      <4>1. s[i] = sq[i]
        BY <3>1, <2>2, <2>4 DEF s
      <4> QED
        BY <4>1, <3>1, <2>6, <2>8
    <3>2. CASE i \notin 1 .. Len(sq)
      <4>1. s[i] = w
        BY <3>2, <2>2, <2>4 DEF s
      <4> QED
        BY <4>1, <2>2, <2>6
    <3> QED
      BY <3>1, <3>2
  <2>14. QueueOfPosted'
    BY <2>6, <2>12, <2>13 DEF QueueOfPosted
  <2>15. \A id \in IdsOf(sq) : id \in 1 .. n
    BY <2>8 DEF IdsOf, Waiting
  <2>16. OpaqueMatch'
    <3>1. \A i \in OpaquesOf(Queued), j \in OpaquesOf(k) : i < j
      BY <2>2, <2>3, <2>10, <2>15
    <3>2. Rising(Queued') /\ OpaquesOf(Queued') = OpaquesOf(Queued) \cup OpaquesOf(k)
      BY <3>1, <2>1, <2>3, <2>4, <2>10, AppendOpaques
    <3>3. IdsOf(sq') = OpaquesOf(Queued')
      BY <3>2, <2>3, <2>10, <2>11, <2>12
    <3> QED
      BY <3>2, <3>3, <2>12, OpaqueMatchMeans
  <2>17. WRsConserved'
    <3>1. /\ IdsOf(sq) \cup CompletedIds = MessageIds /\ InOrder(completed)
          /\ \A i \in CompletedIds, j \in IdsOf(sq) : i < j
      BY WRsConservedMeans DEF WrInv
    <3>2. CompletedIds' = CompletedIds /\ InOrder(completed')
      BY <3>1, <2>1 DEF CompletedIds
    <3>3. MessageIds \subseteq 1 .. n
      BY DEF MessageIds, n
    <3>4. MessageIds' = MessageIds \cup {i \in {n + 1} : WaitsForAck(w)}
      <4>1. 1 .. n + 1 = (1 .. n) \cup {n + 1}
        BY <2>2
      <4> QED
        BY <4>1, <2>2, <2>6 DEF MessageIds, n
    <3>5. IdsOf(sq') = IdsOf(sq) \cup {i \in {n + 1} : WaitsForAck(w)}
      BY <2>11, <2>12
    <3>6. \A i \in CompletedIds : i < n + 1
      <4>1. CompletedIds \subseteq 1 .. n
        BY <3>1, <3>3
      <4>2. \A i \in 1 .. n : i < n + 1
        BY <2>2
      <4> QED
        BY <4>1, <4>2
    <3> QED
      BY <3>1, <3>2, <3>4, <3>5, <3>6, WRsConservedMeans
  <2> QED
    BY <1>1, <2>1, <2>7, <2>14, <2>16, <2>17 DEF WrInv
<1> QED
  BY <1>2, <1>3

-----------------------------------------------------------------------------
(* Acknowledgements. *)

(***************************************************************************)
(* The packet that ends a message finds its own WR at the head of the send *)
(* queue, once what does not wait is out of the way: both are the oldest   *)
(* of what is left.                                                        *)
(***************************************************************************)
LEMMA HeadIsOwn ==
  ASSUME WrInv, Queued \in Seq(Packet), Queued # <<>>, Head(Queued).opaque # 0
  PROVE  LET q == CompleteHead(sq) IN
         /\ q # <<>> /\ WaitsForAck(q[1]) /\ q[1].id = Head(Queued).opaque
         /\ \A id \in IdsOf(sq) : Head(Queued).opaque <= id
<1> DEFINE q == CompleteHead(sq)
           id0 == Head(Queued).opaque
<1>1. /\ sq \in Seq(SendWR) /\ InOrder(sq) /\ Rising(Queued)
      /\ IdsOf(sq) = OpaquesOf(Queued)
  BY OpaqueMatchMeans DEF WrInv, ReqInv, ReqTypeOK
<1>2. id0 \in IdsOf(sq) /\ \A id \in IdsOf(sq) : id0 <= id
  BY <1>1, TailOpaques
<1>3. /\ q \in Seq(SendWR) /\ IdsOf(q) = IdsOf(sq)
      /\ q # <<>> => WaitsForAck(q[1]) /\ \A id \in IdsOf(sq) : q[1].id <= id
      /\ IdsOf(sq) # {} => q # <<>>
  BY <1>1, CompleteHeadKeeps
<1> HIDE DEF q, id0
<1>4. /\ q # <<>> /\ WaitsForAck(q[1]) /\ q[1].id <= id0
  BY <1>2, <1>3
<1>5. 1 \in Waiting(q) /\ q[1].id \in Nat
  <2>1. 1 \in 1 .. Len(q) /\ q[1] \in SendWR
    BY <1>3, <1>4
  <2> QED
    BY <2>1, <1>4 DEF Waiting, SendWR
<1>6. id0 <= q[1].id
  BY <1>2, <1>3, <1>5 DEF IdsOf
<1>7. id0 \in Nat
  <2>1. Head(Queued) \in Packet
    OBVIOUS
  <2> QED
    BY <2>1 DEF Packet, id0
<1> QED
  BY <1>2, <1>4, <1>5, <1>6, <1>7 DEF q, id0

\* One iteration of the ACK loop completes the WR whose message ends.
LEMMA AckOneWr ==
  ASSUME WrInv, AckOne
  PROVE  WrInv'
<1> DEFINE q == CompleteHead(sq)
           id0 == Head(Queued).opaque
<1>1. ReqInv /\ ReqInv'
  BY AckOneInv DEF WrInv
<1>2. /\ outgoing_pkts \in Seq(Packet) /\ pending_pkts \in Seq(Packet)
      /\ outgoing_pkts # <<>> /\ sq \in Seq(SendWR) /\ Queued \in Seq(Packet)
      /\ completed \in Seq([id : Nat, cqe : BOOLEAN])
  BY <1>1 DEF AckOne, ReqInv, ReqTypeOK, LoopHasPacket, Queued
<1>3. /\ Queued' = Tail(Queued) /\ Queued # <<>> /\ posted' = posted
      /\ Head(outgoing_pkts).opaque = id0 /\ abort = "none"
  BY <1>2, TailOfQueue DEF AckOne, Queued
<1>4. /\ InOrder(sq) /\ Rising(Queued) /\ IdsOf(sq) = OpaquesOf(Queued)
  BY OpaqueMatchMeans DEF WrInv
<1>5. /\ Rising(Queued') /\ OpaquesOf(Queued') = OpaquesOf(Queued) \ {id0}
  BY <1>2, <1>3, <1>4, TailOpaques
<1>6. /\ q \in Seq(SendWR) /\ InOrder(q) /\ IdsOf(q) = IdsOf(sq)
      /\ \A i \in 1 .. Len(q) : \E j \in 1 .. Len(sq) : q[i] = sq[j]
  BY <1>2, <1>4, CompleteHeadKeeps
<1>7. PostedNumbered' /\ MessageIds' = MessageIds
  BY <1>3 DEF WrInv, PostedNumbered, MessageIds
<1>8. /\ IdsOf(sq) \cup CompletedIds = MessageIds /\ InOrder(completed)
      /\ \A i \in CompletedIds, j \in IdsOf(sq) : i < j
  BY WRsConservedMeans DEF WrInv
<1>9. \A i \in 1 .. Len(q) : \E j \in 1 .. Len(posted) : q[i] = posted[j]
  BY <1>6 DEF WrInv, QueueOfPosted
<1>10. CASE id0 = 0
  <2>1. sq' = q /\ completed' = completed /\ abort' = abort
    BY <1>3, <1>10 DEF AckOne
  <2> HIDE DEF q, id0
  <2>2. OpaquesOf(Queued') = OpaquesOf(Queued)
    BY <1>5, <1>10 DEF OpaquesOf
  <2>3. OpaqueMatch'
    BY <2>1, <2>2, <1>4, <1>5, <1>6, OpaqueMatchMeans
  <2>4. WRsConserved'
    BY <2>1, <1>6, <1>7, <1>8, WRsConservedMeans DEF CompletedIds
  <2>5. QueueOfPosted'
    BY <2>1, <1>3, <1>9 DEF QueueOfPosted
  <2> QED
    BY <2>1, <2>3, <2>4, <2>5, <1>1, <1>3, <1>7 DEF WrInv
<1>11. CASE id0 # 0
  <2>1. /\ q # <<>> /\ WaitsForAck(q[1]) /\ q[1].id = id0
        /\ \A id \in IdsOf(sq) : id0 <= id
    BY <1>2, <1>3, <1>11, HeadIsOwn
  <2>2. Head(q) = q[1]
    BY <2>1, <1>6
  <2>3. /\ sq' = CompleteHead(Tail(q)) /\ abort' = abort
        /\ completed' = Append(completed, [id |-> id0, cqe |-> q[1].sig])
    BY <2>1, <2>2, <1>3, <1>11 DEF AckOne
  <2> HIDE DEF q, id0
  <2>4. /\ Tail(q) \in Seq(SendWR) /\ InOrder(Tail(q))
        /\ IdsOf(Tail(q)) = IdsOf(sq) \ {id0}
    BY <2>1, <1>6, TailIds
  <2>5. /\ InOrder(sq') /\ IdsOf(sq') = IdsOf(sq) \ {id0}
        /\ \A i \in 1 .. Len(sq') : \E j \in 1 .. Len(Tail(q)) : sq'[i] = Tail(q)[j]
    BY <2>3, <2>4, CompleteHeadKeeps
  <2>6. OpaqueMatch'
    BY <2>5, <1>4, <1>5, OpaqueMatchMeans
  <2>7. QueueOfPosted'
    <3>1. \A j \in 1 .. Len(Tail(q)) : \E i \in 1 .. Len(q) : Tail(q)[j] = q[i]
      <4>1. \A j \in 1 .. Len(Tail(q)) : Tail(q)[j] = q[j + 1] /\ j + 1 \in 1 .. Len(q)
        BY <2>1, <1>6
      <4> QED
        BY <4>1
    <3>2. \A i \in 1 .. Len(sq') : \E j \in 1 .. Len(q) : sq'[i] = q[j]
      BY <3>1, <2>5
    <3>3. \A i \in 1 .. Len(sq') : \E j \in 1 .. Len(posted) : sq'[i] = posted[j]
      BY <3>2, <1>9
    <3> QED
      BY <3>3, <1>3 DEF QueueOfPosted
  <2>8. id0 \in IdsOf(sq)
    <3>1. 1 \in Waiting(q)
      BY <2>1, <1>6 DEF Waiting
    <3> QED
      BY <3>1, <2>1, <1>6 DEF IdsOf
  <2>9. /\ Len(completed') = Len(completed) + 1 /\ Len(completed) \in Nat
        /\ completed'[Len(completed) + 1].id = id0
        /\ \A i \in 1 .. Len(completed) : completed'[i] = completed[i]
    BY <2>3, <1>2
  <2>10. \A i \in 1 .. Len(completed) : completed[i].id \in CompletedIds
    BY DEF CompletedIds
  <2>11. CompletedIds' = CompletedIds \cup {id0}
    <3>1. 1 .. Len(completed') = (1 .. Len(completed)) \cup {Len(completed) + 1}
      BY <2>9
    <3> QED
      BY <3>1, <2>9 DEF CompletedIds
  <2>12. InOrder(completed')
    <3> SUFFICES ASSUME NEW i \in 1 .. Len(completed'), NEW j \in 1 .. Len(completed'), i < j
                 PROVE  completed'[i].id < completed'[j].id
      BY DEF InOrder
    <3>1. i \in 1 .. Len(completed)
      BY <2>9
    <3>2. CASE j \in 1 .. Len(completed)
      BY <3>1, <3>2, <2>9, <1>8 DEF InOrder
    <3>3. CASE j = Len(completed) + 1
      BY <3>1, <3>3, <2>8, <2>9, <2>10, <1>8
    <3> QED
      BY <3>2, <3>3, <2>9
  <2>13. WRsConserved'
    <3>1. IdsOf(sq') \cup CompletedIds' = MessageIds'
      BY <2>5, <2>8, <2>11, <1>7, <1>8
    <3>2. ASSUME NEW i \in CompletedIds', NEW j \in IdsOf(sq') PROVE i < j
      <4>1. j \in IdsOf(sq) /\ j # id0
        BY <2>5
      <4>2. CASE i \in CompletedIds
        BY <4>1, <4>2, <1>8
      <4>3. CASE i = id0
        <5>1. id0 <= j
          BY <2>1, <4>1
        <5>2. j \in Nat /\ id0 \in Nat
          <6>1. IdsOf(sq) \subseteq MessageIds /\ MessageIds \subseteq Nat
            BY <1>8 DEF MessageIds
          <6> QED
            BY <6>1, <4>1, <2>8
        <5> QED
          BY <5>1, <5>2, <4>1, <4>3
      <4> QED
        BY <4>2, <4>3, <2>11
    <3> QED
      BY <3>1, <3>2, <2>12, WRsConservedMeans
  <2> QED
    BY <2>3, <2>6, <2>7, <2>13, <1>1, <1>3, <1>7 DEF WrInv
<1> QED
  BY <1>10, <1>11

\* The end of the ACK loop sends packets and completes nothing.
LEMMA AckDoneWr ==
  ASSUME WrInv, AckDone
  PROVE  WrInv'
<1>1. ReqInv /\ ReqInv'
  BY AckDoneInv DEF WrInv
<1>2. /\ abort = "none" /\ UNCHANGED <<sq, posted, completed>>
      /\ XmitPkts(sq_psn, req_psn, outgoing_pkts, pending_pkts, Retransmitted)
  BY DEF AckDone, history
<1>3. /\ sq_psn \in PSN /\ outgoing_pkts \in Seq(Packet)
      /\ pending_pkts \in Seq(Packet) /\ req_net \in Seq(Packet)
      /\ Len(outgoing_pkts) <= MaxOutgoing + 1 /\ Retransmitted \in Seq(Packet)
      /\ NumberedFrom(sq_psn, outgoing_pkts \o pending_pkts)
  BY <1>1 DEF ReqInv, ReqTypeOK, WindowKept, Retransmitted, PsnContiguous,
     NumberedFrom, Queued
<1>4. Queued' = Queued /\ abort' # "opaque"
  BY <1>2, <1>3, XmitPktsEffect DEF Queued
<1> QED
  BY <1>1, <1>2, <1>4, WrInvKept

-----------------------------------------------------------------------------
\* No step of the requester breaks the invariant.
LEMMA WrInvNext ==
  ASSUME NoOtherOps, WrInv, [ReqNext]_req_vars
  PROVE  WrInv'
<1>1. ReqInv /\ ReqInv' /\ abort # "opaque"
  BY ReqInvNext DEF WrInv
<1>2. ASSUME NEW r \in Requests, PostSend(r) PROVE WrInv'
  BY <1>2, PostSendWr
<1>3. ASSUME NEW psn \in StartPsns, ModifySqPsn(psn) PROVE WrInv'
  <2>1. UNCHANGED <<sq, pending_pkts, outgoing_pkts, posted, completed, abort>>
    BY <1>3 DEF ModifySqPsn, history
  <2> QED
    BY <2>1, <1>1, WrInvKept DEF Queued
<1>4. CASE AnyAcknowledge
  <2>1. UNCHANGED <<sq, pending_pkts, outgoing_pkts, posted, completed, abort>>
    BY <1>4 DEF AnyAcknowledge, HandleAcknowledge, queues, history
  <2> QED
    BY <2>1, <1>1, WrInvKept DEF Queued
<1>5. CASE AckOne
  BY <1>5, AckOneWr
<1>6. CASE AckDone
  BY <1>6, AckDoneWr
<1>7. CASE NetTake \/ UNCHANGED req_vars
  <2>1. UNCHANGED <<sq, pending_pkts, outgoing_pkts, posted, completed, abort>>
    BY <1>7 DEF NetTake, req_vars, queues, history
  <2> QED
    BY <2>1, <1>1, WrInvKept DEF Queued
<1> QED
  BY <1>2, <1>3, <1>4, <1>5, <1>6, <1>7 DEF ReqNext

(***************************************************************************)
(* The invariant of the WRs holds throughout, whatever acknowledgements    *)
(* arrive, as long as no opcode is posted that no packet is built for.     *)
(***************************************************************************)
THEOREM RequesterWrInvariant == ASSUME NoOtherOps PROVE ReqSpec => []WrInv
<1>1. ReqInit => WrInv
  BY WrInvInit
<1>2. WrInv /\ [ReqNext]_req_vars => WrInv'
  BY WrInvNext
<1> QED
  BY <1>1, <1>2, PTL DEF ReqSpec

\* The WRs that wait are those the queued packets point at, in order.
THEOREM RequesterOpaqueMatch == ASSUME NoOtherOps PROVE ReqSpec => []OpaqueMatch
<1>1. WrInv => OpaqueMatch
  BY DEF WrInv
<1> QED
  BY <1>1, RequesterWrInvariant, PTL

\* No WR that became packets is lost, completes twice or out of order.
THEOREM RequesterWRsConserved == ASSUME NoOtherOps PROVE ReqSpec => []WRsConserved
<1>1. WrInv => WRsConserved
  BY DEF WrInv
<1> QED
  BY <1>1, RequesterWrInvariant, PTL

\* Neither assertion about the window nor the one about send_wr ever fails.
THEOREM RequesterAssertionsHold == ASSUME NoOtherOps PROVE ReqSpec => []AssertionsHold
<1>1. WrInv => AssertionsHold
  BY DEF WrInv, ReqInv, AssertionsHold
<1> QED
  BY <1>1, RequesterWrInvariant, PTL

=============================================================================
