------------------------------- MODULE Psn -------------------------------
(***************************************************************************)
(* Packet sequence numbers of an RC queue pair.  The code keeps them in    *)
(* uint32_t fields masked to 24 bits (IB_BTH_PSN_MASK) and compares two of *)
(* them by the sign of their difference shifted into the top 24 bits of an *)
(* int32_t.  Here the width is the parameter PsnMod (2^24 in the code), so *)
(* that a small instance wraps around.                                     *)
(***************************************************************************)
EXTENDS Integers

CONSTANTS
  PsnMod,       \* number of PSNs: IB_BTH_PSN_MASK + 1
  MaxOutgoing   \* ROCE_MAX_OUTGOING_PACKETS, 8 in the code

(***************************************************************************)
(* What the code's two constants satisfy: 2^24 is even, 8 divides it, and  *)
(* a window of 8 is small against half of the number space.                *)
(***************************************************************************)
ASSUME PsnAssumption ==
  /\ PsnMod \in Nat \ {0}
  /\ MaxOutgoing \in Nat \ {0}
  /\ PsnMod % 2 = 0
  /\ PsnMod % MaxOutgoing = 0
  /\ 2 * MaxOutgoing < PsnMod

PSN == 0 .. PsnMod - 1

PsnHalf == PsnMod \div 2

\* Mutant: the mask is forgotten.
PsnAddUnmasked(psn, n) == psn + n

\* n applications of roce_qp_psn_inc, and the masked psn - 1 of a NAK.
PsnAdd(psn, n) == (psn + n) % PsnMod
PsnInc(psn) == PsnAdd(psn, 1)
PsnDec(psn) == PsnAdd(psn, PsnMod - 1)

(***************************************************************************)
(* roce_compare_psn: the difference, reduced to the signed range of the    *)
(* PSN width.  Its arguments need not be masked: roce_xmit_pkts passes     *)
(* sq_psn + ROCE_MAX_OUTGOING_PACKETS as it is.                            *)
(***************************************************************************)
ComparePsn(psn0, psn1) == ((psn0 - psn1 + PsnHalf) % PsnMod) - PsnHalf

==========================================================================
