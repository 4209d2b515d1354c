---------------------------- MODULE FramesProofs ----------------------------
(***************************************************************************)
(* What the frames keep whatever the scatter lists, MRs, frames and limits *)
(* are.  A UD QP that refused a datagram while no assertion has failed     *)
(* needs nothing of the loops over lists.  The types, that dst_iovs is     *)
(* never overrun, and that as many buffers are mapped as pages counted     *)
(* rest on what the loops compute: it follows turn by turn, a least turn   *)
(* that fails in place of induction.                                       *)
(***************************************************************************)
EXTENDS Frames, SequenceTheorems, WellFoundedInduction, TLAPS

-----------------------------------------------------------------------------
(* Numbers. *)

\* A nonempty set of numbers has a least element.
LEMMA Least ==
  ASSUME NEW S \in SUBSET Nat, S # {}
  PROVE  \E k \in S : \A j \in S : k <= j
<1>1. PICK k \in S : \A j \in S : ~(<<j, k>> \in OpToRel(<, Nat))
  BY WFMin, NatLessThanWellFounded
<1>2. \A j \in S : ~(j < k)
  BY <1>1 DEF OpToRel
<1> QED
  BY <1>2

\* Induction up to n, with a set of the numbers for which the claim holds.
LEMMA UpTo ==
  ASSUME NEW n \in Nat, NEW S, 0 \in S, \A k \in 1 .. n : k - 1 \in S => k \in S
  PROVE  \A k \in 0 .. n : k \in S
<1>1. PICK T : T = {k \in 0 .. n : k \notin S}
  OBVIOUS
<1>2. T = {}
  <2>1. SUFFICES ASSUME T # {} PROVE FALSE
    OBVIOUS
  <2>2. T \in SUBSET Nat
    BY <1>1
  <2>3. PICK k \in T : \A j \in T : k <= j
    BY <2>1, <2>2, Least
  <2>4. k \in 1 .. n /\ k - 1 \in 0 .. n /\ ~(k <= k - 1) /\ k \notin S
    BY <1>1, <2>3
  <2>5. k - 1 \in S
    BY <1>1, <2>3, <2>4
  <2> QED
    BY <2>4, <2>5
<1> QED
  BY <1>1, <1>2

Inductive(S, n) == 0 \in S /\ \A k \in 1 .. n : k - 1 \in S => k \in S

LEMMA Induct ==
  ASSUME NEW n \in Nat, NEW S, Inductive(S, n)
  PROVE  n \in S
<1>1. 0 \in S /\ \A k \in 1 .. n : k - 1 \in S => k \in S
  BY DEF Inductive
<1>2. \A k \in 0 .. n : k \in S
  BY ONLY <1>1, n \in Nat, UpTo
<1> QED
  BY <1>2

-----------------------------------------------------------------------------
(***************************************************************************)
(* Loops.  The locals of a loop stay in some set D, so its body is, turn   *)
(* by turn, a function G[k] on D, and the recursive function of Loop       *)
(* exists.                                                                 *)
(***************************************************************************)
Turns(f, b, n, G) == f[0] = b /\ \A k \in 1 .. n : f[k] = G[k][f[k - 1]]

LEMMA LoopExists ==
  ASSUME NEW D, NEW b \in D, NEW n \in Nat, NEW G,
         \A k \in 1 .. n : \A x \in D : G[k][x] \in D
  PROVE  \E f \in [0 .. n -> D] : Turns(f, b, n, G) /\ \A k \in 1 .. n : f[k - 1] \in D
<1> DEFINE Good(m) == \E f \in [0 .. m -> D] : Turns(f, b, m, G)
           S == {m \in 0 .. n : Good(m)}
<1>1. Good(0)
  <2>1. PICK f : f = [k \in 0 .. 0 |-> b]
    OBVIOUS
  <2>2. f \in [0 .. 0 -> D] /\ f[0] = b /\ 1 .. 0 = {}
    BY <2>1
  <2> QED
    BY <2>2 DEF Turns
<1>2. ASSUME NEW m \in 1 .. n, Good(m - 1) PROVE Good(m)
  <2>1. PICK f \in [0 .. m - 1 -> D] : Turns(f, b, m - 1, G)
    BY <1>2
  <2>2. PICK g : g = [k \in 0 .. m |-> IF k = m THEN G[m][f[m - 1]] ELSE f[k]]
    OBVIOUS
  <2>3. f[m - 1] \in D /\ G[m][f[m - 1]] \in D
    OBVIOUS
  <2>4. g \in [0 .. m -> D]
    BY <2>2, <2>3
  <2>5. g[m] = G[m][f[m - 1]] /\ \A k \in 0 .. m - 1 : g[k] = f[k]
    BY <2>2
  <2>6. g[0] = b
    BY <2>1, <2>5 DEF Turns
  <2>7. ASSUME NEW k \in 1 .. m PROVE g[k] = G[k][g[k - 1]]
    <3>1. k - 1 \in 0 .. m - 1 /\ g[k - 1] = f[k - 1]
      BY <2>5
    <3>2. CASE k = m
      BY <2>5, <3>1, <3>2
    <3>3. CASE k \in 1 .. m - 1
      BY <2>1, <2>5, <3>1, <3>3 DEF Turns
    <3> QED
      BY <3>2, <3>3
  <2> QED
    BY <2>4, <2>6, <2>7 DEF Turns
<1>3. 0 \in S /\ \A m \in 1 .. n : m - 1 \in S => m \in S
  <2> HIDE DEF Good
  <2> QED
    BY <1>1, <1>2
<1>4. n \in S
  <2> HIDE DEF S
  <2> QED
    BY <1>3, UpTo
<1>5. PICK f \in [0 .. n -> D] : Turns(f, b, n, G)
  BY <1>4
<1>6. \A k \in 1 .. n : f[k - 1] \in D
  OBVIOUS
<1> QED
  BY <1>5, <1>6

\* The turns are determined by the first and the body.
SameBody(f, g, n) == f[0] = g[0] /\ \A k \in 1 .. n : f[k - 1] = g[k - 1] => f[k] = g[k]

LEMMA SameTurns ==
  ASSUME NEW n \in Nat, NEW f, NEW g, SameBody(f, g, n)
  PROVE  \A k \in 0 .. n : f[k] = g[k]
<1>1. PICK S : S = {k \in 0 .. n : f[k] = g[k]}
  OBVIOUS
<1>2. 0 \in S /\ \A k \in 1 .. n : k - 1 \in S => k \in S
  BY <1>1 DEF SameBody
<1> QED
  BY <1>1, <1>2, UpTo

(***************************************************************************)
(* The loops of ScatterList, each with the values of its locals after      *)
(* every turn.                                                             *)
(***************************************************************************)
\* The length of a list of buffers.
LEMMA IovLenLoop ==
  ASSUME NEW bufs, NEW n \in Nat, n = Len(bufs), \A k \in 1 .. n : Len(bufs[k]) \in Nat
  PROVE  \E f \in [0 .. n -> Nat] :
           /\ f[0] = 0
           /\ \A k \in 1 .. n : f[k - 1] \in Nat /\ f[k] = f[k - 1] + Len(bufs[k])
           /\ IovLen(bufs) = f[n]
<1> DEFINE T(x, k) == x + Len(bufs[k])
           Builds(f) == f = [k \in 0 .. n |-> IF k = 0 THEN 0 ELSE T(f[k - 1], k)]
<1>1. 0 \in Nat /\ \A k \in 1 .. n : \A x \in Nat : T(x, k) \in Nat
  BY DEF T
<1>2. PICK G : G = [k \in 1 .. n |-> [x \in Nat |-> T(x, k)]]
  OBVIOUS
<1> HIDE DEF T
<1>3. \A k \in 1 .. n : \A x \in Nat : G[k][x] = T(x, k) /\ G[k][x] \in Nat
  BY <1>1, <1>2
<1>4. PICK f \in [0 .. n -> Nat] :
        Turns(f, 0, n, G) /\ \A k \in 1 .. n : f[k - 1] \in Nat
  BY ONLY <1>1, <1>3, n \in Nat, LoopExists
<1>5. f[0] = 0 /\ \A k \in 1 .. n : f[k - 1] \in Nat /\ f[k] = T(f[k - 1], k)
  BY <1>3, <1>4 DEF Turns
<1>6. Builds(f)
  BY <1>4, <1>5
<1>7. PICK g : g = (CHOOSE h : Builds(h)) /\ Builds(g)
  <2> HIDE DEF Builds
  <2> QED
    BY <1>6
<1>8. g[0] = 0 /\ \A k \in 1 .. n : g[k] = T(g[k - 1], k)
  <2>1. 0 \in 0 .. n /\ \A k \in 1 .. n : k \in 0 .. n /\ k # 0
    OBVIOUS
  <2> QED
    BY <1>7, <2>1
<1>9. \A k \in 0 .. n : g[k] = f[k]
  <2>1. SameBody(g, f, n)
    BY <1>5, <1>8 DEF SameBody
  <2> QED
    BY ONLY <2>1, n \in Nat, SameTurns
<1>10. IovLen(bufs) = (CHOOSE h : Builds(h))[n]
  BY DEF IovLen, Loop, T
<1> HIDE DEF Builds
<1>11. IovLen(bufs) = f[n]
  BY <1>7, <1>9, <1>10
<1> QED
  BY <1>5, <1>11 DEF T

\* The length of a scatter list from a cursor on.
Sized(l, n) == n = Len(l) /\ \A k \in 1 .. n : l[k].len \in Nat
LenRun(f, sges, cur, l, n) ==
  /\ f[0] = 0
  /\ \A k \in 1 .. n : f[k - 1] \in Nat /\ f[k] = f[k - 1] + l[k].len
  /\ SgeLen(sges, cur) = f[n] - cur.off

LEMMA SgeLenLoop ==
  ASSUME NEW sges, NEW cur, NEW l, l = From(sges, cur.idx), NEW n \in Nat, Sized(l, n)
  PROVE  \E f \in [0 .. n -> Nat] : LenRun(f, sges, cur, l, n)
<1> DEFINE T(x, k) == x + l[k].len
           Builds(f) == f = [k \in 0 .. n |-> IF k = 0 THEN 0 ELSE T(f[k - 1], k)]
<1>1. 0 \in Nat /\ \A k \in 1 .. n : \A x \in Nat : T(x, k) \in Nat
  BY DEF T, Sized
<1>2. PICK G : G = [k \in 1 .. n |-> [x \in Nat |-> T(x, k)]]
  OBVIOUS
<1> HIDE DEF T
<1>3. \A k \in 1 .. n : \A x \in Nat : G[k][x] = T(x, k) /\ G[k][x] \in Nat
  BY <1>1, <1>2
<1>4. PICK f \in [0 .. n -> Nat] :
        Turns(f, 0, n, G) /\ \A k \in 1 .. n : f[k - 1] \in Nat
  BY ONLY <1>1, <1>3, n \in Nat, LoopExists
<1>5. f[0] = 0 /\ \A k \in 1 .. n : f[k - 1] \in Nat /\ f[k] = T(f[k - 1], k)
  BY <1>3, <1>4 DEF Turns
<1>6. Builds(f)
  BY <1>4, <1>5
<1>7. PICK g : g = (CHOOSE h : Builds(h)) /\ Builds(g)
  <2> HIDE DEF Builds
  <2> QED
    BY <1>6
<1>8. g[0] = 0 /\ \A k \in 1 .. n : g[k] = T(g[k - 1], k)
  <2>1. 0 \in 0 .. n /\ \A k \in 1 .. n : k \in 0 .. n /\ k # 0
    OBVIOUS
  <2> QED
    BY <1>7, <2>1
<1>9. \A k \in 0 .. n : g[k] = f[k]
  <2>1. SameBody(g, f, n)
    BY <1>5, <1>8 DEF SameBody
  <2> QED
    BY ONLY <2>1, n \in Nat, SameTurns
<1>10. SgeLen(sges, cur) = (CHOOSE h : Builds(h))[n] - cur.off
  BY DEF SgeLen, Loop, T, Sized
<1> HIDE DEF Builds
<1>11. SgeLen(sges, cur) = f[n] - cur.off
  BY <1>7, <1>9, <1>10
<1> QED
  BY <1>5, <1>11 DEF T, LenRun

\* The pages of a scatter list.
Paged(sges, n) == n = Len(sges) /\ \A k \in 1 .. n : PagesOf(sges[k]) \in Nat
PagesRun(f, sges, n) ==
  /\ f[0] = 0
  /\ \A k \in 1 .. n : f[k - 1] \in Nat /\ f[k] = f[k - 1] + PagesOf(sges[k])
  /\ SgePages(sges) = f[n]

LEMMA SgePagesLoop ==
  ASSUME NEW sges, NEW n \in Nat, Paged(sges, n)
  PROVE  \E f \in [0 .. n -> Nat] : PagesRun(f, sges, n)
<1> DEFINE T(x, k) == x + PagesOf(sges[k])
           Builds(f) == f = [k \in 0 .. n |-> IF k = 0 THEN 0 ELSE T(f[k - 1], k)]
<1>1. 0 \in Nat /\ \A k \in 1 .. n : \A x \in Nat : T(x, k) \in Nat
  BY DEF T, Paged
<1>2. PICK G : G = [k \in 1 .. n |-> [x \in Nat |-> T(x, k)]]
  OBVIOUS
<1> HIDE DEF T
<1>3. \A k \in 1 .. n : \A x \in Nat : G[k][x] = T(x, k) /\ G[k][x] \in Nat
  BY <1>1, <1>2
<1>4. PICK f \in [0 .. n -> Nat] :
        Turns(f, 0, n, G) /\ \A k \in 1 .. n : f[k - 1] \in Nat
  BY ONLY <1>1, <1>3, n \in Nat, LoopExists
<1>5. f[0] = 0 /\ \A k \in 1 .. n : f[k - 1] \in Nat /\ f[k] = T(f[k - 1], k)
  BY <1>3, <1>4 DEF Turns
<1>6. Builds(f)
  BY <1>4, <1>5
<1>7. PICK g : g = (CHOOSE h : Builds(h)) /\ Builds(g)
  <2> HIDE DEF Builds
  <2> QED
    BY <1>6
<1>8. g[0] = 0 /\ \A k \in 1 .. n : g[k] = T(g[k - 1], k)
  <2>1. 0 \in 0 .. n /\ \A k \in 1 .. n : k \in 0 .. n /\ k # 0
    OBVIOUS
  <2> QED
    BY <1>7, <2>1
<1>9. \A k \in 0 .. n : g[k] = f[k]
  <2>1. SameBody(g, f, n)
    BY <1>5, <1>8 DEF SameBody
  <2> QED
    BY ONLY <2>1, n \in Nat, SameTurns
<1>10. SgePages(sges) = (CHOOSE h : Builds(h))[n]
  BY DEF SgePages, Loop, T, Paged
<1> HIDE DEF Builds
<1>11. SgePages(sges) = f[n]
  BY <1>7, <1>9, <1>10
<1> QED
  BY <1>5, <1>11 DEF T, PagesRun

\* What the locals of the loops over scatter lists and I/O vectors are.
IntSge == [addr : Int, len : Int]
IntIov == [base : Int, len : Int]
Taking == [idx : Int, off : Int, bytes : Int, dst : Seq(IntSge)]
Copying == [skip : Int, bytes : Int, dst : Seq(IntIov)]
Mapping == [iovs : Seq(IntIov), num : Int]

LEMMA SgeTakeType ==
  ASSUME NEW x \in Taking, NEW sge, sge.addr \in Int, sge.len \in Int
  PROVE  SgeTake(x, sge) \in Taking
<1>1. /\ x.idx \in Int /\ x.off \in Int /\ x.bytes \in Int /\ x.dst \in Seq(IntSge)
      /\ x = [idx |-> x.idx, off |-> x.off, bytes |-> x.bytes, dst |-> x.dst]
  BY DEF Taking
<1>2. ASSUME NEW a \in Int, NEW b \in Int
      PROVE Append(x.dst, [addr |-> a, len |-> b]) \in Seq(IntSge)
  BY <1>1, AppendProperties DEF IntSge
<1>3. CASE x.bytes = 0
  BY <1>3 DEF SgeTake
<1>4. CASE x.bytes # 0 /\ sge.len - x.off > x.bytes
  <2>1. SgeTake(x, sge) = [idx |-> x.idx, off |-> x.off + x.bytes, bytes |-> 0,
                           dst |-> Append(x.dst, [addr |-> sge.addr + x.off, len |-> x.bytes])]
    BY <1>1, <1>4 DEF SgeTake
  <2> QED
    BY <1>1, <1>2, <2>1 DEF Taking
<1>5. CASE x.bytes # 0 /\ ~(sge.len - x.off > x.bytes)
  <2>1. SgeTake(x, sge) = [idx |-> x.idx + 1, off |-> 0, bytes |-> x.bytes - (sge.len - x.off),
                           dst |-> Append(x.dst, [addr |-> sge.addr + x.off,
                                                  len |-> sge.len - x.off])]
    BY <1>5 DEF SgeTake
  <2> QED
    BY <1>1, <1>2, <2>1 DEF Taking
<1> QED
  BY <1>3, <1>4, <1>5

LEMMA IovTakeType ==
  ASSUME NEW x \in Copying, NEW iov, iov.base \in Int, iov.len \in Int
  PROVE  IovTake(x, iov) \in Copying
<1>1. /\ x.skip \in Int /\ x.bytes \in Int /\ x.dst \in Seq(IntIov)
      /\ x = [skip |-> x.skip, bytes |-> x.bytes, dst |-> x.dst]
  BY DEF Copying
<1>2. PICK len \in Int : len = Smaller(iov.len - x.skip, x.bytes)
  BY <1>1 DEF Smaller
<1>3. Append(x.dst, [base |-> iov.base + x.skip, len |-> len]) \in Seq(IntIov)
  BY <1>1, <1>2, AppendProperties DEF IntIov
<1>4. CASE x.bytes = 0
  BY <1>4 DEF IovTake
<1>5. CASE x.bytes # 0 /\ x.dst = <<>> /\ iov.len <= x.skip
  <2>1. IovTake(x, iov) = [skip |-> x.skip - iov.len, bytes |-> x.bytes, dst |-> x.dst]
    BY <1>1, <1>5 DEF IovTake
  <2> QED
    BY <1>1, <2>1 DEF Copying
<1>6. CASE x.bytes # 0 /\ ~(x.dst = <<>> /\ iov.len <= x.skip)
  <2>1. IovTake(x, iov) = [skip |-> 0, bytes |-> x.bytes - len,
                           dst |-> Append(x.dst, [base |-> iov.base + x.skip, len |-> len])]
    BY <1>2, <1>6 DEF IovTake
  <2> QED
    BY <1>1, <1>2, <1>3, <2>1 DEF Copying
<1> QED
  BY <1>4, <1>5, <1>6

LEMMA CountCopiedType == ASSUME NEW c \in Copying PROVE CountCopied(c) \in Int
<1>1. Len(c.dst) \in Nat
  BY LenProperties DEF Copying
<1> QED
  BY <1>1 DEF CountCopied

\* The entries that roce_sge_advance takes; its locals stay numbers whatever they are.
Entries(l, n) == n = Len(l) /\ \A k \in 1 .. n : l[k].addr \in Int /\ l[k].len \in Int
AdvanceRun(f, sges, bytes, cur, l, n) ==
  /\ f[0] = [idx |-> cur.idx, off |-> cur.off, bytes |-> bytes, dst |-> <<>>]
  /\ \A k \in 1 .. n : f[k - 1] \in Taking /\ f[k] = SgeTake(f[k - 1], l[k])
  /\ SgeAdvance(sges, bytes, cur) = f[n]

LEMMA SgeAdvanceLoop ==
  ASSUME NEW sges, NEW bytes \in Int, NEW cur, cur.idx \in Int, cur.off \in Int,
         NEW l, l = From(sges, cur.idx), NEW n \in Nat, Entries(l, n)
  PROVE  \E f \in [0 .. n -> Taking] : AdvanceRun(f, sges, bytes, cur, l, n)
<1> DEFINE T(x, k) == SgeTake(x, l[k])
           Builds(f) ==
              f = [k \in 0 .. n |-> IF k = 0
                           THEN [idx |-> cur.idx, off |-> cur.off, bytes |-> bytes, dst |-> <<>>]
                           ELSE T(f[k - 1], k)]
<1>1. /\ [idx |-> cur.idx, off |-> cur.off, bytes |-> bytes, dst |-> <<>>] \in Taking
      /\ \A k \in 1 .. n : \A x \in Taking : T(x, k) \in Taking
  <2>1. [idx |-> cur.idx, off |-> cur.off, bytes |-> bytes, dst |-> <<>>] \in Taking
    BY EmptySeq DEF Taking
  <2>2. ASSUME NEW k \in 1 .. n, NEW x \in Taking PROVE SgeTake(x, l[k]) \in Taking
    BY SgeTakeType DEF Entries
  <2> QED
    BY <2>1, <2>2
<1>2. PICK G : G = [k \in 1 .. n |-> [x \in Taking |-> T(x, k)]]
  OBVIOUS
<1> HIDE DEF T
<1>3. \A k \in 1 .. n : \A x \in Taking : G[k][x] = T(x, k) /\ G[k][x] \in Taking
  BY <1>1, <1>2
<1>4. PICK f \in [0 .. n -> Taking] :
        /\ Turns(f, [idx |-> cur.idx, off |-> cur.off, bytes |-> bytes, dst |-> <<>>], n, G)
        /\ \A k \in 1 .. n : f[k - 1] \in Taking
  BY ONLY <1>1, <1>3, n \in Nat, LoopExists
<1>5. /\ f[0] = [idx |-> cur.idx, off |-> cur.off, bytes |-> bytes, dst |-> <<>>]
      /\ \A k \in 1 .. n : f[k - 1] \in Taking /\ f[k] = T(f[k - 1], k)
  BY <1>3, <1>4 DEF Turns
<1>6. Builds(f)
  BY <1>4, <1>5
<1>7. PICK g : g = (CHOOSE h : Builds(h)) /\ Builds(g)
  <2> HIDE DEF Builds
  <2> QED
    BY <1>6
<1>8. /\ g[0] = [idx |-> cur.idx, off |-> cur.off, bytes |-> bytes, dst |-> <<>>]
      /\ \A k \in 1 .. n : g[k] = T(g[k - 1], k)
  <2>1. 0 \in 0 .. n /\ \A k \in 1 .. n : k \in 0 .. n /\ k # 0
    OBVIOUS
  <2> QED
    BY <1>7, <2>1
<1>9. \A k \in 0 .. n : g[k] = f[k]
  <2>1. SameBody(g, f, n)
    BY <1>5, <1>8 DEF SameBody
  <2> QED
    BY ONLY <2>1, n \in Nat, SameTurns
<1>10. SgeAdvance(sges, bytes, cur) = (CHOOSE h : Builds(h))[n]
  BY DEF SgeAdvance, Loop, T, Entries
<1> HIDE DEF Builds
<1>11. SgeAdvance(sges, bytes, cur) = f[n]
  BY <1>7, <1>9, <1>10
<1> QED
  BY <1>5, <1>11 DEF T, AdvanceRun

\* The buffers that roce_iov_copy copies.
Buffers(iovs, n) ==
  n = Len(iovs) /\ \A k \in 1 .. n : iovs[k].base \in Int /\ iovs[k].len \in Int

CopyRun(f, iovs, offset, bytes, n) ==
  /\ f[0] = [skip |-> offset, bytes |-> bytes, dst |-> <<>>]
  /\ \A k \in 1 .. n : f[k - 1] \in Copying /\ f[k] = IovTake(f[k - 1], iovs[k])
  /\ IovCopy(iovs, offset, bytes) = f[n]

LEMMA IovCopyLoop ==
  ASSUME NEW iovs, NEW offset \in Int, NEW bytes \in Int, NEW n \in Nat, Buffers(iovs, n)
  PROVE  \E f \in [0 .. n -> Copying] : CopyRun(f, iovs, offset, bytes, n)
<1> DEFINE T(x, k) == IovTake(x, iovs[k])
           Builds(f) ==
              f = [k \in 0 .. n |-> IF k = 0
                           THEN [skip |-> offset, bytes |-> bytes, dst |-> <<>>]
                           ELSE T(f[k - 1], k)]
<1>1. /\ [skip |-> offset, bytes |-> bytes, dst |-> <<>>] \in Copying
      /\ \A k \in 1 .. n : \A x \in Copying : T(x, k) \in Copying
  <2>1. [skip |-> offset, bytes |-> bytes, dst |-> <<>>] \in Copying
    BY EmptySeq DEF Copying
  <2>2. ASSUME NEW k \in 1 .. n, NEW x \in Copying PROVE IovTake(x, iovs[k]) \in Copying
    BY IovTakeType DEF Buffers
  <2> QED
    BY <2>1, <2>2
<1>2. PICK G : G = [k \in 1 .. n |-> [x \in Copying |-> T(x, k)]]
  OBVIOUS
<1> HIDE DEF T
<1>3. \A k \in 1 .. n : \A x \in Copying : G[k][x] = T(x, k) /\ G[k][x] \in Copying
  BY <1>1, <1>2
<1>4. PICK f \in [0 .. n -> Copying] :
        /\ Turns(f, [skip |-> offset, bytes |-> bytes, dst |-> <<>>], n, G)
        /\ \A k \in 1 .. n : f[k - 1] \in Copying
  BY ONLY <1>1, <1>3, n \in Nat, LoopExists
<1>5. /\ f[0] = [skip |-> offset, bytes |-> bytes, dst |-> <<>>]
      /\ \A k \in 1 .. n : f[k - 1] \in Copying /\ f[k] = T(f[k - 1], k)
  BY <1>3, <1>4 DEF Turns
<1>6. Builds(f)
  BY <1>4, <1>5
<1>7. PICK g : g = (CHOOSE h : Builds(h)) /\ Builds(g)
  <2> HIDE DEF Builds
  <2> QED
    BY <1>6
<1>8. /\ g[0] = [skip |-> offset, bytes |-> bytes, dst |-> <<>>]
      /\ \A k \in 1 .. n : g[k] = T(g[k - 1], k)
  <2>1. 0 \in 0 .. n /\ \A k \in 1 .. n : k \in 0 .. n /\ k # 0
    OBVIOUS
  <2> QED
    BY <1>7, <2>1
<1>9. \A k \in 0 .. n : g[k] = f[k]
  <2>1. SameBody(g, f, n)
    BY <1>5, <1>8 DEF SameBody
  <2> QED
    BY ONLY <2>1, n \in Nat, SameTurns
<1>10. IovCopy(iovs, offset, bytes) = (CHOOSE h : Builds(h))[n]
  BY DEF IovCopy, Loop, T, Buffers
<1> HIDE DEF Builds
<1>11. IovCopy(iovs, offset, bytes) = f[n]
  BY <1>7, <1>9, <1>10
<1> QED
  BY <1>5, <1>11 DEF T, CopyRun

\* The buffers behind a scatter list, entry by entry.
Copyable(mr, sges, n) == n = Len(sges) /\ \A k \in 1 .. n : SgeCopy(mr, sges[k]) \in Copying
MapRun(f, mr, sges, n) ==
  /\ f[0] = [iovs |-> <<>>, num |-> 0]
  /\ \A k \in 1 .. n :
       /\ f[k - 1] \in Mapping
       /\ f[k] = [iovs |-> f[k - 1].iovs \o SgeCopy(mr, sges[k]).dst,
                  num |-> f[k - 1].num + CountCopied(SgeCopy(mr, sges[k]))]
  /\ MapSge(mr, sges) = f[n]

LEMMA MapSgeLoop ==
  ASSUME NEW mr, NEW sges, NEW n \in Nat, Copyable(mr, sges, n)
  PROVE  \E f \in [0 .. n -> Mapping] : MapRun(f, mr, sges, n)
<1> DEFINE T(x, k) == [iovs |-> x.iovs \o SgeCopy(mr, sges[k]).dst,
              num |-> x.num + CountCopied(SgeCopy(mr, sges[k]))]
           Builds(f) ==
              f = [k \in 0 .. n |-> IF k = 0
                           THEN [iovs |-> <<>>, num |-> 0]
                           ELSE T(f[k - 1], k)]
<1>1. /\ [iovs |-> <<>>, num |-> 0] \in Mapping
      /\ \A k \in 1 .. n : \A x \in Mapping : T(x, k) \in Mapping
  <2>1. [iovs |-> <<>>, num |-> 0] \in Mapping
    BY EmptySeq DEF Mapping
  <2>2. ASSUME NEW k \in 1 .. n, NEW x \in Mapping PROVE T(x, k) \in Mapping
    <3>1. SgeCopy(mr, sges[k]).dst \in Seq(IntIov) /\ CountCopied(SgeCopy(mr, sges[k])) \in Int
      BY CountCopiedType DEF Copying, Copyable
    <3>2. x.iovs \in Seq(IntIov) /\ x.num \in Int
      BY DEF Mapping
    <3>3. x.iovs \o SgeCopy(mr, sges[k]).dst \in Seq(IntIov)
      BY <3>1, <3>2, ConcatProperties
    <3> QED
      BY <3>1, <3>2, <3>3 DEF Mapping, T
  <2> QED
    BY <2>1, <2>2
<1>2. PICK G : G = [k \in 1 .. n |-> [x \in Mapping |-> T(x, k)]]
  OBVIOUS
<1> HIDE DEF T
<1>3. \A k \in 1 .. n : \A x \in Mapping : G[k][x] = T(x, k) /\ G[k][x] \in Mapping
  BY <1>1, <1>2
<1>4. PICK f \in [0 .. n -> Mapping] :
        Turns(f, [iovs |-> <<>>, num |-> 0], n, G) /\ \A k \in 1 .. n : f[k - 1] \in Mapping
  BY ONLY <1>1, <1>3, n \in Nat, LoopExists
<1>5. /\ f[0] = [iovs |-> <<>>, num |-> 0]
      /\ \A k \in 1 .. n : f[k - 1] \in Mapping /\ f[k] = T(f[k - 1], k)
  BY <1>3, <1>4 DEF Turns
<1>6. Builds(f)
  BY <1>4, <1>5
<1>7. PICK g : g = (CHOOSE h : Builds(h)) /\ Builds(g)
  <2> HIDE DEF Builds
  <2> QED
    BY <1>6
<1>8. g[0] = [iovs |-> <<>>, num |-> 0] /\ \A k \in 1 .. n : g[k] = T(g[k - 1], k)
  <2>1. 0 \in 0 .. n /\ \A k \in 1 .. n : k \in 0 .. n /\ k # 0
    OBVIOUS
  <2> QED
    BY <1>7, <2>1
<1>9. \A k \in 0 .. n : g[k] = f[k]
  <2>1. SameBody(g, f, n)
    BY <1>5, <1>8 DEF SameBody
  <2> QED
    BY ONLY <2>1, n \in Nat, SameTurns
<1>10. MapSge(mr, sges) = (CHOOSE h : Builds(h))[n]
  BY DEF MapSge, Loop, T, Copyable
<1> HIDE DEF Builds
<1>11. MapSge(mr, sges) = f[n]
  BY <1>7, <1>9, <1>10
<1> QED
  BY <1>5, <1>11 DEF T, MapRun

-----------------------------------------------------------------------------
(* Pages. *)

LEMMA DivMod ==
  ASSUME NEW m \in Nat \ {0}, NEW a \in Int
  PROVE  /\ a \div m \in Int
         /\ a % m \in 0 .. m - 1
         /\ a = m * (a \div m) + (a % m)
  OBVIOUS

LEMMA SmallMod == ASSUME NEW m \in Nat \ {0}, NEW a \in 0 .. m - 1 PROVE a % m = a
  OBVIOUS

LEMMA Euclid ==
  ASSUME NEW m \in Nat \ {0}, NEW a \in Int
  PROVE  \E q \in Int, r \in 0 .. m - 1 : a = m * q + r /\ q = a \div m /\ r = a % m
<1>1. PICK q \in Int, r \in 0 .. m - 1 : q = a \div m /\ r = a % m
  BY DivMod
<1>2. a = m * q + r
  BY <1>1, DivMod
<1> QED
  BY <1>1, <1>2

\* Multiples of m are m apart.
LEMMA MultiplesApart ==
  ASSUME NEW m \in Nat \ {0}, NEW a \in Int, NEW b \in Int, a < b
  PROVE  m * a + m <= m * b
<1>1. PICK k \in Nat : b = a + 1 + k
  OBVIOUS
<1>2. m * b = m * a + m + m * k
  BY <1>1
<1>3. m * k >= 0
  BY <1>1
<1> QED
  BY <1>2, <1>3

\* So a number lies between two of them in one way.
LEMMA ProductUpTo ==
  ASSUME NEW a \in Nat, NEW b \in Nat, NEW m \in Nat, a <= b
  PROVE  a * m <= b * m
<1>1. PICK k \in Nat : b = a + k
  OBVIOUS
<1>2. b * m = a * m + k * m
  BY <1>1
<1>3. PICK x \in Nat, y \in Nat : x = a * m /\ y = k * m
  OBVIOUS
<1> QED
  BY ONLY <1>2, <1>3, x \in Nat, y \in Nat

LEMMA MultipleBelow ==
  ASSUME NEW m \in Nat \ {0}, NEW a \in Int, NEW b \in Int, NEW r \in Int, r < m,
         m * a <= m * b + r
  PROVE  a <= b
<1> SUFFICES ASSUME b < a PROVE FALSE
  OBVIOUS
<1>1. m * b + m <= m * a
  BY MultiplesApart
<1>2. PICK x \in Int, y \in Int : x = m * a /\ y = m * b
  OBVIOUS
<1> QED
  BY <1>1, <1>2

Splits(x, m, q, r) == x = (m * q) + r

LEMMA DivUnique ==
  ASSUME NEW m \in Nat \ {0}, NEW q \in Int, NEW r \in 0 .. m - 1, NEW x, Splits(x, m, q, r)
  PROVE  x \div m = q /\ x % m = r
<1>0. x = (m * q) + r
  BY DEF Splits
<1>1. m * q \in Int /\ x \in Int
  BY <1>0
<1>2. PICK p \in Int, s \in 0 .. m - 1 : p = x \div m /\ s = x % m /\ x = m * p + s
  BY <1>1, DivMod
<1>3. PICK u \in Int, v \in Int : u = m * q /\ v = m * p
  OBVIOUS
<1>4. u + r = v + s
  BY <1>0, <1>2, <1>3
<1>5. m * q <= m * p + s /\ m * p <= m * q + r
  BY <1>3, <1>4
<1>6. q <= p
  BY <1>5, MultipleBelow
<1>7. p <= q
  BY <1>5, MultipleBelow
<1>8. p = q
  BY <1>6, <1>7
<1> QED
  BY <1>2, <1>3, <1>4, <1>8

\* A number of pages: the fewest that hold x units.
Covers(m, x, c) == m * (c - 1) < x /\ x <= m * c

LEMMA PagesFor ==
  ASSUME NEW m \in Nat \ {0}, NEW x \in Nat \ {0}
  PROVE  \E c \in Nat \ {0} : Covers(m, x, c)
<1>1. PICK q \in Int, r \in 0 .. m - 1 : x - 1 = m * q + r
  <2>1. PICK y \in Int : y = x - 1
    OBVIOUS
  <2>2. \E q \in Int, r \in 0 .. m - 1 : y = m * q + r
    BY Euclid
  <2> QED
    BY <2>1, <2>2
<1>2. q >= 0
  <2>1. m * 0 <= m * q + r
    BY <1>1
  <2> QED
    BY <2>1, MultipleBelow
<1>3. PICK c \in Nat \ {0} : c = q + 1
  BY <1>2
<1>4. PICK p \in Int : p = m * q
  OBVIOUS
<1>5. m * (c - 1) = p /\ m * c = p + m
  BY <1>3, <1>4
<1>6. Covers(m, x, c)
  BY <1>1, <1>4, <1>5 DEF Covers
<1> QED
  BY <1>6

(***************************************************************************)
(* An address between two multiples of cut, rounded down to a multiple of  *)
(* m: the mask of cut loses nothing but the multiple below.                *)
(***************************************************************************)
Between(cut, b, m, q, r) == cut * b <= m * q + r /\ m * q + r < cut * b + cut

LEMMA RoundDown ==
  ASSUME NEW m \in Nat \ {0}, NEW cut \in Nat \ {0}, cut % m = 0, NEW b \in Nat,
         NEW q \in Nat, NEW r \in 0 .. m - 1, Between(cut, b, m, q, r),
         NEW x \in Int, Splits(x, m, q, r)
  PROVE  (x - (x % m)) % cut = m * q - cut * b /\ m * q - cut * b >= 0
<1>0. x = m * q + r /\ cut * b <= x /\ x < cut * b + cut
  BY DEF Between, Splits
<1>1. PICK w \in Int, s \in 0 .. m - 1 : cut = m * w + s /\ s = cut % m
  <2>1. cut \in Int
    OBVIOUS
  <2> QED
    BY ONLY <2>1, m \in Nat \ {0}, Euclid
<1>2. cut = m * w
  BY <1>1
<1>3. PICK y \in Int, z \in Int, v \in Int : y = m * q /\ z = cut * b /\ v = w * b
  OBVIOUS
<1>4. z = m * v
  BY <1>2, <1>3
<1>5. m * v <= m * q + r
  BY <1>0, <1>3, <1>4
<1>6. v <= q
  BY <1>5, MultipleBelow
<1>7. m * v <= m * q
  <2>1. CASE v = q
    BY <2>1
  <2>2. CASE v < q
    <3>1. m * v + m <= m * q
      BY <2>2, MultiplesApart
    <3> QED
      BY <1>3, <1>4, <3>1
  <2> QED
    BY <1>6, <2>1, <2>2
<1>8. x % m = r
  BY DivUnique
<1>9. x - (x % m) = y
  BY <1>0, <1>3, <1>8
<1>10. PICK d \in 0 .. cut - 1 : d = y - z
  BY <1>0, <1>3, <1>4, <1>7
<1>11. Splits(y, cut, b, d)
  BY <1>3, <1>10 DEF Splits
<1>12. y % cut = d
  BY <1>11, DivUnique
<1>13. (x - (x % m)) % cut = d
  BY ONLY <1>9, <1>12
<1>14. m * q - cut * b = d /\ d >= 0
  BY ONLY <1>3, <1>10, d \in 0 .. cut - 1, cut \in Nat
<1> QED
  BY ONLY <1>13, <1>14

\* l units from the address a lie between the b-th multiple of cut and the next, with
\* m to spare; they touch c pages of m units; x is their end, to be rounded down.
Inside(cut, b, m, a, l) == cut * b <= a /\ a + l + m <= cut * b + cut
EndUp(x, m, a, l) == x = a + l + m - 1
Touch(m, a, l, c) == Covers(m, (a % m) + l, c)

\* The pages that l units from the address a touch, by the addresses rounded down.
LEMMA RoundedPages ==
  ASSUME NEW m \in Nat \ {0}, NEW cut \in Nat \ {0}, cut % m = 0, NEW b \in Nat,
         NEW a \in Nat, NEW l \in Nat \ {0}, Inside(cut, b, m, a, l),
         NEW c \in Nat \ {0}, Touch(m, a, l, c),
         NEW x \in Int, EndUp(x, m, a, l)
  PROVE  ((((x - (x % m)) % cut) - ((a - (a % m)) % cut)) \div m) % cut = c
<1>0. /\ cut * b <= a /\ a + l + m <= cut * b + cut
      /\ m * (c - 1) < (a % m) + l /\ (a % m) + l <= m * c
      /\ x = a + l + m - 1
  BY DEF Inside, Touch, Covers, EndUp
<1>1. PICK q \in Int, o \in 0 .. m - 1 : a = m * q + o /\ o = a % m
  <2>1. a \in Int
    OBVIOUS
  <2> QED
    BY ONLY <2>1, m \in Nat \ {0}, Euclid
<1>2. q \in Nat
  <2>1. m * 0 <= m * q + o
    BY <1>1
  <2>2. 0 <= q
    BY <2>1, MultipleBelow
  <2> QED
    BY <2>2
<1>3. PICK y \in Int, z \in Int, t \in Int : y = m * q /\ z = cut * b /\ t = m * c
  OBVIOUS
<1>4. m * (c - 1) = t - m /\ m * (q + c) = y + t
  BY <1>3
<1>5. t - m < o + l /\ o + l <= t /\ z <= a /\ a + l + m <= z + cut /\ a = y + o
  BY <1>0, <1>1, <1>3, <1>4
<1>6. PICK r \in 0 .. m - 1 : x = y + t + r
  <2>1. x - (y + t) \in 0 .. m - 1
    BY <1>0, <1>5
  <2>2. x = y + t + (x - (y + t))
    OBVIOUS
  <2> QED
    BY <2>1, <2>2
<1>7. (x - (x % m)) % cut = y + t - z
  <2>1. PICK p \in Nat : p = q + c
    BY <1>2
  <2>2. Splits(x, m, p, r) /\ Between(cut, b, m, p, r)
    BY <1>0, <1>3, <1>4, <1>5, <1>6, <2>1 DEF Between, Splits
  <2>3. (x - (x % m)) % cut = m * p - cut * b
    BY ONLY <2>2, p \in Nat, r \in 0 .. m - 1, x \in Int, m \in Nat \ {0},
       cut \in Nat \ {0}, cut % m = 0, b \in Nat, RoundDown
  <2> QED
    BY <1>3, <1>4, <2>1, <2>3
<1>8. (a - (a % m)) % cut = y - z /\ y - z >= 0
  <2>1. Splits(a, m, q, o) /\ Between(cut, b, m, q, o)
    BY <1>1, <1>3, <1>5 DEF Between, Splits
  <2>2. (a - (a % m)) % cut = m * q - cut * b /\ m * q - cut * b >= 0
    BY ONLY <1>1, <1>2, <2>1, o \in 0 .. m - 1, a \in Int, m \in Nat \ {0},
       cut \in Nat \ {0}, cut % m = 0, b \in Nat, RoundDown
  <2> QED
    BY <1>3, <2>2
<1>9. PICK e \in Int : e = y + t - z - (y - z)
  OBVIOUS
<1>10. e \div m = c
  <2>1. PICK r0 \in 0 .. m - 1 : r0 = 0
    OBVIOUS
  <2>2. Splits(e, m, c, r0) /\ c \in Int
    BY <1>3, <1>9, <2>1 DEF Splits
  <2> QED
    BY <2>2, DivUnique
<1>11. c \in 0 .. cut - 1
  <2>1. PICK d \in Nat : m = d + 1
    OBVIOUS
  <2>2. t = d * c + c /\ d * c >= 0
    BY <1>3, <2>1
  <2>3. c <= t
    BY <2>2
  <2> QED
    BY <1>5, <1>6, <1>8, <2>3
<1>12. c % cut = c
  BY ONLY <1>11, cut \in Nat \ {0}, SmallMod
<1>13. ((x - (x % m)) % cut) - ((a - (a % m)) % cut) = e
  BY ONLY <1>7, <1>8, <1>9
<1> QED
  BY ONLY <1>10, <1>12, <1>13

\* roce_sge_pages counts the pages that an entry touches.
LEMMA PagesOfIs ==
  ASSUME NEW sge, sge.addr \in Nat, sge.len \in Nat \ {0}, NEW b \in Nat,
         Inside(AddrCut, b, PageSize, sge.addr, sge.len),
         NEW c \in Nat \ {0}, Touch(PageSize, sge.addr, sge.len, c)
  PROVE  PagesOf(sge) = c
<1>1. PICK m \in Nat \ {0}, cut \in Nat \ {0} : m = PageSize /\ cut = AddrCut /\ cut % m = 0
  BY ScatterAssumption
<1>2. PICK a \in Nat, l \in Nat \ {0} : a = sge.addr /\ l = sge.len
  OBVIOUS
<1>3. Inside(cut, b, m, a, l) /\ Touch(m, a, l, c)
  BY <1>1, <1>2
<1>4. PICK x \in Int : x = a + l + m - 1 /\ EndUp(x, m, a, l)
  BY DEF EndUp
<1>5. ((((x - (x % m)) % cut) - ((a - (a % m)) % cut)) \div m) % cut = c
  <2>1. cut % m = 0 /\ EndUp(x, m, a, l)
    BY <1>1, <1>4
  <2> QED
    BY ONLY <1>3, <2>1, b \in Nat, c \in Nat \ {0}, m \in Nat \ {0}, cut \in Nat \ {0},
       a \in Nat, l \in Nat \ {0}, x \in Int, RoundedPages
<1>6. x = sge.addr + sge.len + PageSize - 1
  BY <1>1, <1>2, <1>4
<1>7. /\ AlignDown(sge.addr + sge.len + PageSize - 1) = (x - (x % m)) % cut
      /\ AlignDown(sge.addr) = (a - (a % m)) % cut
  BY ONLY <1>1, <1>2, <1>6 DEF AlignDown
<1> QED
  BY ONLY <1>1, <1>5, <1>7 DEF PagesOf

(***************************************************************************)
(* roce_iov_copy over pages of m units: it takes one piece from each page  *)
(* that the bytes touch, and counts no more when there are enough.         *)
(***************************************************************************)
PageIov(m, iov) == iov.base \in Int /\ iov.len = m
Starts(x, m) == x.skip \in 0 .. m - 1 /\ x.bytes \in Nat \ {0}
Behind(x, m, rest) == x.skip + x.bytes = m + rest

LEMMA TakePage ==
  ASSUME NEW m \in Nat \ {0}, NEW x \in Copying, NEW iov, PageIov(m, iov), Starts(x, m),
         NEW rest \in Int, Behind(x, m, rest)
  PROVE  /\ IovTake(x, iov).skip = 0
         /\ IovTake(x, iov).bytes = IF rest > 0 THEN rest ELSE 0
         /\ Len(IovTake(x, iov).dst) = Len(x.dst) + 1
<1>1. x.dst \in Seq(IntIov)
  BY DEF Copying
<1>2. PICK skip \in 0 .. m - 1, bytes \in Nat \ {0}, base \in Int :
        /\ skip = x.skip /\ bytes = x.bytes /\ base = iov.base
        /\ iov.len = m /\ skip + bytes = m + rest
  BY DEF PageIov, Starts, Behind
<1>3. PICK len \in Int : len = Smaller(m - skip, bytes)
  BY DEF Smaller
<1>4. bytes - len = IF rest > 0 THEN rest ELSE 0
  BY <1>2, <1>3 DEF Smaller
<1>5. [base |-> base + skip, len |-> len] \in IntIov
  BY DEF IntIov
<1>6. Len(Append(x.dst, [base |-> base + skip, len |-> len])) = Len(x.dst) + 1
  BY <1>1, <1>5, AppendProperties
<1>7. IovTake(x, iov) = [skip |-> 0, bytes |-> bytes - len,
                         dst |-> Append(x.dst, [base |-> base + skip, len |-> len])]
  BY <1>2, <1>3 DEF IovTake
<1> QED
  BY <1>4, <1>6, <1>7

\* After k pages of the c that hold p units.
Copied(x, m, p, c, k) ==
  IF k < c
  THEN Starts(x, m) /\ Len(x.dst) = k /\ x.skip + x.bytes = p - (m * k)
  ELSE x.bytes = 0 /\ Len(x.dst) = c

LEMMA CopiedStep ==
  ASSUME NEW m \in Nat \ {0}, NEW p \in Nat, NEW c \in Nat \ {0}, Covers(m, p, c),
         NEW k \in Nat \ {0}, NEW x \in Copying, Copied(x, m, p, c, k - 1),
         NEW iov, PageIov(m, iov)
  PROVE  Copied(IovTake(x, iov), m, p, c, k)
<1>1. CASE k > c
  <2>1. ~(k - 1 < c) /\ ~(k < c)
    BY <1>1
  <2>2. x.bytes = 0 /\ Len(x.dst) = c
    BY <2>1 DEF Copied
  <2>3. IovTake(x, iov) = x
    BY <2>2 DEF IovTake
  <2> QED
    BY <2>1, <2>2, <2>3 DEF Copied
<1>2. CASE k <= c
  <2>1. k - 1 < c
    BY <1>2
  <2>2. PICK u \in Int, v \in Int, w \in Int : u = m * k /\ v = m * (c - 1) /\ w = m * c
    OBVIOUS
  <2>3. m * (k - 1) = u - m /\ v < p /\ p <= w
    BY <2>2 DEF Covers
  <2>4. Starts(x, m) /\ Len(x.dst) = k - 1 /\ x.skip + x.bytes = p - (u - m)
    BY <2>1, <2>3 DEF Copied
  <2>5. PICK rest \in Int : rest = p - u
    OBVIOUS
  <2>6. Behind(x, m, rest)
    <3>1. PICK skip \in 0 .. m - 1, bytes \in Nat \ {0} : skip = x.skip /\ bytes = x.bytes
      BY <2>4 DEF Starts
    <3>2. skip + bytes = m + rest
      BY <2>4, <2>5, <3>1
    <3> QED
      BY <3>1, <3>2 DEF Behind
  <2>7. PICK y : y = IovTake(x, iov)
    OBVIOUS
  <2>8. y.skip = 0 /\ y.bytes = (IF rest > 0 THEN rest ELSE 0) /\ Len(y.dst) = Len(x.dst) + 1
    BY <2>4, <2>6, <2>7, TakePage
  <2>9. Len(y.dst) = k
    BY <2>4, <2>8
  <2>10. CASE k < c
    <3>1. k <= c - 1
      BY <2>10
    <3>2. u <= v
      <4>1. CASE k = c - 1
        BY <2>2, <4>1
      <4>2. CASE k < c - 1
        <5>1. (m * k) + m <= m * (c - 1)
          BY <4>2, MultiplesApart
        <5> QED
          BY <2>2, <5>1
      <4> QED
        BY <3>1, <4>1, <4>2
    <3>3. rest > 0
      BY <2>3, <2>5, <3>2
    <3>4. Starts(y, m) /\ y.skip + y.bytes = p - u
      BY <2>5, <2>8, <3>3 DEF Starts
    <3> QED
      BY <2>2, <2>7, <2>9, <2>10, <3>4 DEF Copied
  <2>11. CASE k = c
    <3>1. ~(rest > 0) /\ ~(k < c)
      BY <2>2, <2>3, <2>5, <2>11
    <3>2. y.bytes = 0 /\ Len(y.dst) = c
      BY <2>8, <2>9, <2>11, <3>1
    <3> QED
      BY <2>7, <3>1, <3>2 DEF Copied
  <2> QED
    BY <1>2, <2>10, <2>11
<1> QED
  BY <1>1, <1>2

PageIovs(m, iovs, n) == n = Len(iovs) /\ \A k \in 1 .. n : PageIov(m, iovs[k])

LEMMA CopyPages ==
  ASSUME NEW m \in Nat \ {0}, NEW iovs, NEW n \in Nat, PageIovs(m, iovs, n),
         NEW o \in 0 .. m - 1, NEW l \in Nat \ {0}, NEW p \in Nat, p = o + l,
         NEW c \in Nat \ {0}, c <= n, Covers(m, p, c)
  PROVE  IovCopy(iovs, o, l) \in Copying /\ CountCopied(IovCopy(iovs, o, l)) = c
<1>1. o \in Int /\ l \in Int /\ Buffers(iovs, n)
  BY DEF PageIovs, PageIov, Buffers
<1>2. PICK f \in [0 .. n -> Copying] : CopyRun(f, iovs, o, l, n)
  BY <1>1, IovCopyLoop
<1>3. PICK S : S = {k \in 0 .. n : Copied(f[k], m, p, c, k)}
  OBVIOUS
<1>4. 0 \in S
  <2>1. f[0].skip = o /\ f[0].bytes = l /\ Len(f[0].dst) = 0
    BY <1>2, EmptySeq DEF CopyRun
  <2>2. m * 0 = 0
    OBVIOUS
  <2> QED
    BY <1>3, <2>1, <2>2 DEF Copied, Starts
<1>5. ASSUME NEW k \in 1 .. n, k - 1 \in S PROVE k \in S
  <2>1. Copied(f[k - 1], m, p, c, k - 1) /\ k \in Nat \ {0}
    BY <1>3, <1>5
  <2>2. f[k - 1] \in Copying /\ f[k] = IovTake(f[k - 1], iovs[k]) /\ PageIov(m, iovs[k])
    BY <1>2 DEF PageIovs, CopyRun
  <2>3. Copied(IovTake(f[k - 1], iovs[k]), m, p, c, k)
    BY <2>1, <2>2, CopiedStep
  <2> QED
    BY <1>3, <2>2, <2>3
<1>6. n \in S
  <2>1. Inductive(S, n)
    BY <1>4, <1>5 DEF Inductive
  <2> QED
    BY <2>1, Induct
<1>7. f[n].bytes = 0 /\ Len(f[n].dst) = c
  BY <1>3, <1>6 DEF Copied
<1> QED
  BY <1>2, <1>7 DEF CountCopied, CopyRun

\* n pages of m units hold the length units from the address iova; the l units from a
\* are some of them.
Hold(m, iova, length, n) == (iova % m) + length <= m * n
Within(iova, length, a, l) == iova <= a /\ a + l <= iova + length

\* The pages that part of a region touches are there, from the one where it begins.
LEMMA EnoughPages ==
  ASSUME NEW m \in Nat \ {0}, NEW iova \in Nat, NEW length \in Nat, NEW n \in Nat,
         Hold(m, iova, length, n), NEW a \in Nat, NEW l \in Nat \ {0},
         Within(iova, length, a, l), NEW c \in Nat \ {0}, Touch(m, a, l, c)
  PROVE  /\ (a \div m) - (iova \div m) \in Nat
         /\ c <= n - ((a \div m) - (iova \div m))
<1>1. PICK qa \in Int, oa \in 0 .. m - 1 : a = m * qa + oa /\ qa = a \div m /\ oa = a % m
  <2>1. a \in Int
    OBVIOUS
  <2> QED
    BY ONLY <2>1, m \in Nat \ {0}, Euclid
<1>2. PICK qi \in Int, oi \in 0 .. m - 1 :
        iova = m * qi + oi /\ qi = iova \div m /\ oi = iova % m
  <2>1. iova \in Int
    OBVIOUS
  <2> QED
    BY ONLY <2>1, m \in Nat \ {0}, Euclid
<1>3. PICK xa \in Int, xi \in Int, xn \in Int, xc \in Int :
        xa = m * qa /\ xi = m * qi /\ xn = m * n /\ xc = m * (c - 1)
  OBVIOUS
<1>4. /\ iova <= a /\ a + l <= iova + length /\ a = xa + oa /\ iova = xi + oi
      /\ xc < oa + l /\ oi + length <= xn
  BY <1>1, <1>2, <1>3 DEF Within, Hold, Touch, Covers
<1>5. qi <= qa
  <2>1. m * qi <= m * qa + oa
    BY <1>3, <1>4
  <2> QED
    BY <2>1, MultipleBelow
<1>6. PICK j \in Nat : j = qa - qi
  BY <1>5
<1>7. xc < xn - (xa - xi)
  BY <1>4
<1>8. m * (n - j) = xn - (xa - xi)
  BY <1>3, <1>6
<1>9. c - 1 < n - j
  <2>1. SUFFICES ASSUME n - j <= c - 1 PROVE FALSE
    BY <1>6
  <2>2. m * (n - j) <= m * (c - 1)
    <3>1. CASE n - j = c - 1
      <4>1. PICK u \in Int : u = c - 1
        OBVIOUS
      <4> QED
        BY <3>1, <4>1
    <3>2. CASE n - j < c - 1
      <4>1. PICK u \in Int, v \in Int : u = n - j /\ v = c - 1
        OBVIOUS
      <4>2. (m * u) + m <= m * v
        BY <3>2, <4>1, MultiplesApart
      <4>3. m * u \in Int /\ m * v \in Int
        OBVIOUS
      <4> QED
        BY <4>1, <4>2, <4>3
    <3> QED
      BY <2>1, <3>1, <3>2
  <2> QED
    BY <1>3, <1>7, <1>8, <2>2
<1>10. (a \div m) - (iova \div m) = j
  BY ONLY <1>1, <1>2, <1>6
<1>11. c <= n - j
  BY <1>9
<1> QED
  BY ONLY <1>10, <1>11, j \in Nat

(***************************************************************************)
(* A region made of whole pages, enough of them for its length; and one    *)
(* whose pages are of the size that pages are counted with, between two    *)
(* multiples of AddrCut.                                                   *)
(***************************************************************************)
PageRegion(mr, n) ==
  /\ mr.iova \in Nat /\ mr.length \in Nat /\ mr.page \in Nat \ {0}
  /\ mr.iovs \in Seq([base : Int, len : {mr.page}]) /\ n = Len(mr.iovs)
  /\ Hold(mr.page, mr.iova, mr.length, n)

ContextRegion(mr) ==
  /\ mr.page = PageSize
  /\ \E b \in Nat : Inside(AddrCut, b, PageSize, mr.iova, mr.length)

(***************************************************************************)
(* roce_mr_map_sge finds a buffer behind an entry for each page of the     *)
(* region that it touches: as many as roce_sge_pages counts, when the      *)
(* pages are those of the context.                                         *)
(***************************************************************************)
LEMMA SgeCopyPages ==
  ASSUME NEW mr, NEW n \in Nat, PageRegion(mr, n),
         NEW sge, sge.addr \in Nat, sge.len \in Nat \ {0}, InRegion(mr, sge)
  PROVE  /\ SgeCopy(mr, sge) \in Copying
         /\ CountCopied(SgeCopy(mr, sge)) \in Nat \ {0}
         /\ Touch(mr.page, sge.addr, sge.len, CountCopied(SgeCopy(mr, sge)))
         /\ ContextRegion(mr) => PagesOf(sge) = CountCopied(SgeCopy(mr, sge))
<1>1. PICK m \in Nat \ {0} : m = mr.page
  BY DEF PageRegion
<1>2. PICK a \in Nat, l \in Nat \ {0}, iova \in Nat, length \in Nat :
        a = sge.addr /\ l = sge.len /\ iova = mr.iova /\ length = mr.length
  BY DEF PageRegion
<1>3. PICK o \in 0 .. m - 1 : o = a % m
  <2>1. a \in Int
    OBVIOUS
  <2> QED
    BY ONLY <2>1, m \in Nat \ {0}, DivMod
<1>4. PICK p \in Nat \ {0} : p = o + l
  OBVIOUS
<1>5. PICK c \in Nat \ {0} : Covers(m, p, c)
  BY PagesFor
<1>6. Touch(m, a, l, c)
  BY <1>3, <1>4, <1>5 DEF Touch
<1>7. Within(iova, length, a, l) /\ Hold(m, iova, length, n)
  BY <1>1, <1>2 DEF InRegion, PageRegion, Within
<1>8. PICK j \in Nat : j = (a \div m) - (iova \div m) /\ c <= n - j
  BY <1>6, <1>7, EnoughPages
<1>9. PICK iovs : iovs = From(mr.iovs, j)
  OBVIOUS
<1>10. PageIovs(m, iovs, n - j) /\ n - j \in Nat
  <2>0. mr.iovs \in Seq([base : Int, len : {mr.page}]) /\ n = Len(mr.iovs)
    BY DEF PageRegion
  <2>1. mr.iovs \in Seq([base : Int, len : {m}]) /\ n = Len(mr.iovs) /\ j + 1 \in 1 .. n
    <3>1. j + 1 \in 1 .. n
      BY ONLY <1>8, c \in Nat \ {0}, j \in Nat, n \in Nat
    <3> QED
      BY ONLY <1>1, <2>0, <3>1
  <2>2. iovs = SubSeq(mr.iovs, j + 1, n)
    BY <1>9, <2>1 DEF From
  <2>3. Len(iovs) = n - j /\ \A k \in 1 .. n - j : iovs[k] = mr.iovs[j + k]
    BY <2>1, <2>2, SubSeqProperties
  <2>4. ASSUME NEW k \in 1 .. n - j PROVE PageIov(m, iovs[k])
    <3>1. j + k \in 1 .. n
      BY <1>8
    <3>2. mr.iovs[j + k] \in [base : Int, len : {m}]
      BY <2>1, <3>1, ElementOfSeq
    <3> QED
      BY <1>1, <2>3, <3>2 DEF PageIov
  <2> QED
    BY <1>8, <2>3, <2>4 DEF PageIovs
<1>11. SgeCopy(mr, sge) = IovCopy(iovs, o, l)
  BY <1>1, <1>2, <1>3, <1>8, <1>9 DEF SgeCopy, PageRegion
<1>12. IovCopy(iovs, o, l) \in Copying /\ CountCopied(IovCopy(iovs, o, l)) = c
  BY <1>4, <1>5, <1>8, <1>10, CopyPages
<1>13. ASSUME ContextRegion(mr) PROVE PagesOf(sge) = c
  <2>0. m = PageSize
    BY <1>1, <1>13 DEF ContextRegion
  <2>1. PICK b \in Nat : Inside(AddrCut, b, PageSize, mr.iova, mr.length)
    BY <1>13 DEF ContextRegion
  <2>2. Inside(AddrCut, b, PageSize, sge.addr, sge.len)
    <3>1. PICK cut \in Nat \ {0} : cut = AddrCut
      BY ScatterAssumption
    <3>2. PICK z \in Int : z = cut * b
      OBVIOUS
    <3>3. z <= iova /\ iova + length + m <= z + cut
      BY <1>2, <2>0, <2>1, <3>1, <3>2 DEF Inside
    <3>4. z <= a /\ a + l + m <= z + cut
      BY <1>7, <3>3 DEF Within
    <3> QED
      BY <1>2, <2>0, <3>1, <3>2, <3>4 DEF Inside
  <2> QED
    BY <1>2, <1>6, <2>0, <2>2, PagesOfIs
<1> QED
  BY <1>1, <1>2, <1>6, <1>11, <1>12, <1>13

\* Nonempty entries in a region, n of them.
Pieces(mr, sges, n) ==
  /\ n = Len(sges)
  /\ \A k \in 1 .. n :
       sges[k].addr \in Nat /\ sges[k].len \in Nat \ {0} /\ InRegion(mr, sges[k])

\* The ROCE_ASSERT on the pages of a mapped list, in the requester and in the responder.
LEMMA MapSgePages ==
  ASSUME NEW mr, NEW np \in Nat, PageRegion(mr, np), NEW sges, NEW n \in Nat,
         Pieces(mr, sges, n), NEW pages \in Nat
  PROVE  /\ MapSge(mr, sges) \in Mapping
         /\ ContextRegion(mr) => MapSge(mr, sges).num = SgePages(sges)
         /\ (\A k \in 1 .. n : CountCopied(SgeCopy(mr, sges[k])) <= pages)
              => MapSge(mr, sges).num <= n * pages
<1>1. ASSUME NEW k \in 1 .. n
      PROVE  /\ SgeCopy(mr, sges[k]) \in Copying
             /\ CountCopied(SgeCopy(mr, sges[k])) \in Nat
             /\ ContextRegion(mr) => PagesOf(sges[k]) = CountCopied(SgeCopy(mr, sges[k]))
  <2>1. sges[k].addr \in Nat /\ sges[k].len \in Nat \ {0} /\ InRegion(mr, sges[k])
    BY DEF Pieces
  <2> QED
    BY <2>1, SgeCopyPages
<1>2. Copyable(mr, sges, n)
  BY <1>1 DEF Copyable, Pieces
<1>3. PICK f \in [0 .. n -> Mapping] : MapRun(f, mr, sges, n)
  BY <1>2, MapSgeLoop
<1>4. MapSge(mr, sges) = f[n] /\ f[n] \in Mapping /\ f[0].num = 0
  BY <1>3 DEF MapRun
<1>5. ASSUME NEW k \in 1 .. n
      PROVE  f[k].num = f[k - 1].num + CountCopied(SgeCopy(mr, sges[k]))
  <2>1. f[k] = [iovs |-> f[k - 1].iovs \o SgeCopy(mr, sges[k]).dst,
                num |-> f[k - 1].num + CountCopied(SgeCopy(mr, sges[k]))]
    BY <1>3 DEF MapRun
  <2> QED
    BY <2>1
<1>6. ASSUME ContextRegion(mr) PROVE MapSge(mr, sges).num = SgePages(sges)
  <2>1. Paged(sges, n)
    BY <1>1, <1>6 DEF Paged, Pieces
  <2>2. PICK g \in [0 .. n -> Nat] : PagesRun(g, sges, n)
    BY <2>1, SgePagesLoop
  <2>3. PICK S : S = {k \in 0 .. n : f[k].num = g[k]}
    OBVIOUS
  <2>4. ASSUME NEW k \in 1 .. n, k - 1 \in S PROVE k \in S
    <3>1. g[k] = g[k - 1] + PagesOf(sges[k]) /\ f[k - 1].num = g[k - 1]
      BY <2>2, <2>3, <2>4 DEF PagesRun
    <3>2. f[k].num = g[k]
      BY ONLY <1>1, <1>5, <1>6, <3>1, k \in 1 .. n
    <3> QED
      BY <2>3, <3>2
  <2>5. Inductive(S, n)
    BY <1>4, <2>2, <2>3, <2>4 DEF Inductive, PagesRun
  <2>6. n \in S
    BY <2>5, Induct
  <2> QED
    BY <1>4, <2>2, <2>3, <2>6 DEF PagesRun
<1>7. ASSUME \A k \in 1 .. n : CountCopied(SgeCopy(mr, sges[k])) <= pages
      PROVE  f[n].num <= n * pages
  <2>1. PICK S : S = {k \in 0 .. n : f[k].num \in Int /\ f[k].num <= k * pages}
    OBVIOUS
  <2>2. ASSUME NEW k \in 1 .. n, k - 1 \in S PROVE k \in S
    <3>1. PICK u \in Int, v \in Nat :
            u = f[k - 1].num /\ v = CountCopied(SgeCopy(mr, sges[k]))
      BY <1>1, <2>1, <2>2
    <3>2. u <= (k - 1) * pages /\ v <= pages
      BY <1>7, <2>1, <2>2, <3>1
    <3>3. f[k].num = u + v
      BY <1>5, <3>1
    <3>4. k * pages = (k - 1) * pages + pages
      BY ONLY k \in 1 .. n, n \in Nat, pages \in Nat
    <3>5. PICK x \in Int, y \in Int : x = (k - 1) * pages /\ y = k * pages
      BY ONLY k \in 1 .. n, n \in Nat, pages \in Nat
    <3>6. u + v <= y
      BY ONLY <3>2, <3>4, <3>5, u \in Int, v \in Nat, pages \in Nat, x \in Int, y \in Int
    <3>7. f[k].num \in Int /\ f[k].num <= k * pages
      BY ONLY <3>3, <3>5, <3>6, u \in Int, v \in Nat
    <3> QED
      BY ONLY <2>1, <3>7, k \in 1 .. n, n \in Nat
  <2>3. Inductive(S, n)
    <3>1. 0 * pages = 0
      BY ONLY pages \in Nat
    <3>2. 0 \in S
      BY ONLY <1>4, <2>1, <3>1, n \in Nat
    <3> QED
      BY ONLY <2>1, <2>2, <3>2 DEF Inductive
  <2>4. n \in S
    BY <2>3, Induct
  <2> QED
    BY <2>1, <2>4
<1> QED
  BY ONLY <1>4, <1>6, <1>7

-----------------------------------------------------------------------------
(***************************************************************************)
(* Cutting a scatter list.                                                 *)
(***************************************************************************)
\* A cursor of a list of m entries: at the beginning of one, inside it, or at the end.
CursorIn(sges, cur, m) ==
  /\ cur.idx \in 0 .. m /\ cur.off \in Nat
  /\ cur.off # 0 => cur.idx < m /\ cur.off < sges[cur.idx + 1].len

PartOf(p, sges, m) ==
  /\ p.addr \in Nat /\ p.len \in Nat \ {0}
  /\ \E e \in 1 .. m : Within(sges[e].addr, sges[e].len, p.addr, p.len)

Parts(list, sges, m) == \A i \in 1 .. Len(list) : PartOf(list[i], sges, m)

\* After k turns of roce_sge_advance from the entry idx on.
Taken(x, sges, m, idx, k) ==
  /\ CursorIn(sges, x, m) /\ x.bytes \in Nat
  /\ x.bytes # 0 => x.idx = idx + k
  /\ Len(x.dst) <= k /\ Parts(x.dst, sges, m)

LEMMA AppendPart ==
  ASSUME NEW sges, NEW m, NEW dst \in Seq(IntSge), Parts(dst, sges, m),
         NEW p \in IntSge, PartOf(p, sges, m)
  PROVE  Parts(Append(dst, p), sges, m) /\ Len(Append(dst, p)) = Len(dst) + 1
<1>1. Len(dst) \in Nat /\ Len(Append(dst, p)) = Len(dst) + 1
  BY LenProperties, AppendProperties
<1>2. ASSUME NEW i \in 1 .. Len(dst) + 1 PROVE PartOf(Append(dst, p)[i], sges, m)
  <2>1. CASE i = Len(dst) + 1
    <3>1. Append(dst, p)[i] = p
      BY <2>1, AppendProperties
    <3> QED
      BY <3>1
  <2>2. CASE i \in 1 .. Len(dst)
    <3>1. Append(dst, p)[i] = dst[i]
      BY <2>2, AppendProperties
    <3> QED
      BY <2>2, <3>1 DEF Parts
  <2> QED
    BY <1>1, <2>1, <2>2
<1> QED
  BY <1>1, <1>2 DEF Parts

LEMMA TakenStep ==
  ASSUME NEW sges, NEW m \in Nat, sges \in Seq(NatSge), m = Len(sges),
         NEW idx \in Nat, NEW k \in Nat \ {0}, idx + k <= m,
         NEW x \in Taking, Taken(x, sges, m, idx, k - 1)
  PROVE  Taken(SgeTake(x, sges[idx + k]), sges, m, idx, k)
<1>1. CASE x.bytes = 0
  <2>1. SgeTake(x, sges[idx + k]) = x
    BY <1>1 DEF SgeTake
  <2>2. Len(x.dst) <= k
    BY LenProperties DEF Taken, Taking
  <2> QED
    BY <1>1, <2>1, <2>2 DEF Taken
<1>2. CASE x.bytes # 0
  <2>1. PICK e \in 1 .. m : e = idx + k
    OBVIOUS
  <2>2. PICK a \in Nat, l \in Nat \ {0} : a = sges[e].addr /\ l = sges[e].len
    <3>1. sges[e] \in NatSge
      BY <2>1, ElementOfSeq
    <3> QED
      BY <3>1 DEF NatSge
  <2>3. PICK off \in Nat, bytes \in Nat \ {0} : off = x.off /\ bytes = x.bytes
    BY <1>2 DEF Taken, CursorIn
  <2>4. x.idx = e - 1
    BY <1>2, <2>1 DEF Taken
  <2>5. off < l
    BY <2>2, <2>3, <2>4 DEF Taken, CursorIn
  <2>6. PICK rem \in Nat \ {0} : rem = l - off
    BY <2>5
  <2>7. x.dst \in Seq(IntSge) /\ Parts(x.dst, sges, m) /\ Len(x.dst) <= k - 1 /\ Len(x.dst) \in Nat
    BY LenProperties DEF Taking, Taken
  <2>8. ASSUME NEW n \in Nat \ {0}, n <= rem
        PROVE  /\ Parts(Append(x.dst, [addr |-> a + off, len |-> n]), sges, m)
               /\ Len(Append(x.dst, [addr |-> a + off, len |-> n])) <= k
    <3>1. PICK p : p = [addr |-> a + off, len |-> n]
      OBVIOUS
    <3>2. p \in IntSge
      BY <3>1 DEF IntSge
    <3>3. PartOf(p, sges, m)
      <4>1. p.addr \in Nat /\ p.len \in Nat \ {0}
        BY <3>1
      <4>2. Within(sges[e].addr, sges[e].len, p.addr, p.len)
        <5>1. a <= a + off /\ a + off + n <= a + l
          BY <2>6, <2>8
        <5> QED
          BY ONLY <2>2, <3>1, <5>1 DEF Within
      <4> QED
        BY <4>1, <4>2 DEF PartOf
    <3>4. Parts(Append(x.dst, p), sges, m) /\ Len(Append(x.dst, p)) = Len(x.dst) + 1
      BY <2>7, <3>2, <3>3, AppendPart
    <3> QED
      BY <2>7, <3>1, <3>4
  <2>9. PICK y : y = SgeTake(x, sges[e])
    OBVIOUS
  <2>10. CASE rem > bytes
    <3>1. y = [x EXCEPT !.dst = Append(@, [addr |-> a + off, len |-> bytes]),
                        !.off = @ + bytes, !.bytes = 0]
      BY <2>2, <2>3, <2>6, <2>9, <2>10 DEF SgeTake
    <3>2. /\ y.idx = e - 1 /\ y.off = off + bytes /\ y.bytes = 0
          /\ y.dst = Append(x.dst, [addr |-> a + off, len |-> bytes])
      BY <2>3, <2>4, <3>1 DEF Taking
    <3>3. Parts(y.dst, sges, m) /\ Len(y.dst) <= k
      BY <2>8, <2>10, <3>2
    <3>4. CursorIn(sges, y, m)
      <4>1. off + bytes \in Nat /\ off + bytes < l /\ e - 1 \in 0 .. m /\ e - 1 < m
            /\ (e - 1) + 1 = e
        BY <2>6, <2>10
      <4>2. y.off < sges[y.idx + 1].len
        BY ONLY <2>2, <3>2, <4>1
      <4> QED
        BY ONLY <3>2, <4>1, <4>2 DEF CursorIn
    <3> QED
      BY <2>1, <2>9, <3>2, <3>3, <3>4 DEF Taken
  <2>11. CASE ~(rem > bytes)
    <3>1. y = [idx |-> x.idx + 1, off |-> 0, bytes |-> bytes - rem,
               dst |-> Append(x.dst, [addr |-> a + off, len |-> rem])]
      BY <2>2, <2>3, <2>6, <2>9, <2>11 DEF SgeTake
    <3>2. /\ y.idx = e /\ y.off = 0 /\ y.bytes = bytes - rem
          /\ y.dst = Append(x.dst, [addr |-> a + off, len |-> rem])
      BY <2>4, <3>1
    <3>3. Parts(y.dst, sges, m) /\ Len(y.dst) <= k
      BY <2>8, <3>2
    <3>4. CursorIn(sges, y, m) /\ y.bytes \in Nat
      BY <2>11, <3>2 DEF CursorIn
    <3> QED
      BY <2>1, <2>9, <3>2, <3>3, <3>4 DEF Taken
  <2> QED
    BY <2>10, <2>11
<1> QED
  BY <1>1, <1>2

\* roce_sge_advance leaves the cursor in the list and yields parts of its entries.
LEMMA AdvanceParts ==
  ASSUME NEW sges \in Seq(NatSge), NEW m \in Nat, m = Len(sges),
         NEW cur, CursorIn(sges, cur, m), NEW bytes \in Nat,
         NEW adv, adv = SgeAdvance(sges, bytes, cur)
  PROVE  /\ CursorIn(sges, adv, m) /\ adv \in Taking
         /\ Len(adv.dst) \in Nat /\ Len(adv.dst) <= m
         /\ Parts(adv.dst, sges, m)
<1>1. PICK idx \in 0 .. m : idx = cur.idx
  BY DEF CursorIn
<1>2. PICK n \in Nat : n = m - idx
  BY ONLY m \in Nat, idx \in 0 .. m
<1>3. PICK l : l = From(sges, cur.idx)
  OBVIOUS
<1>4. Len(l) = n /\ \A k \in 1 .. n : l[k] = sges[idx + k]
  <2>1. l = SubSeq(sges, idx + 1, m)
    BY <1>1, <1>3 DEF From
  <2>2. CASE idx < m
    BY <1>2, <2>1, <2>2, SubSeqProperties
  <2>3. CASE idx = m
    BY <1>2, <2>1, <2>3, SubSeqProperties
  <2> QED
    BY <2>2, <2>3
<1>5. Entries(l, n)
  <2>1. ASSUME NEW k \in 1 .. n PROVE l[k].addr \in Int /\ l[k].len \in Int
    <3>1. idx + k \in 1 .. m
      BY <1>2
    <3>2. sges[idx + k] \in NatSge
      BY <3>1, ElementOfSeq
    <3> QED
      BY <1>4, <3>2 DEF NatSge
  <2> QED
    BY <1>4, <2>1 DEF Entries
<1>6. PICK f \in [0 .. n -> Taking] : AdvanceRun(f, sges, bytes, cur, l, n)
  <2>1. cur.idx \in Int /\ cur.off \in Int /\ bytes \in Int
    BY DEF CursorIn
  <2> QED
    BY <1>3, <1>5, <2>1, SgeAdvanceLoop
<1>7. PICK S : S = {k \in 0 .. n : Taken(f[k], sges, m, idx, k)}
  OBVIOUS
<1>8. 0 \in S
  <2>1. f[0] = [idx |-> cur.idx, off |-> cur.off, bytes |-> bytes, dst |-> <<>>]
    BY <1>6 DEF AdvanceRun
  <2>2. CursorIn(sges, f[0], m)
    BY <2>1 DEF CursorIn
  <2>3. f[0].bytes \in Nat /\ f[0].idx = idx + 0 /\ Len(f[0].dst) <= 0
        /\ Parts(f[0].dst, sges, m)
    BY <1>1, <2>1, EmptySeq DEF Parts
  <2> QED
    BY <1>7, <2>2, <2>3 DEF Taken
<1>9. ASSUME NEW k \in 1 .. n, k - 1 \in S PROVE k \in S
  <2>1. Taken(f[k - 1], sges, m, idx, k - 1)
    BY <1>7, <1>9
  <2>2. f[k - 1] \in Taking /\ f[k] = SgeTake(f[k - 1], sges[idx + k])
    BY <1>4, <1>6 DEF AdvanceRun
  <2>3. idx + k <= m /\ k \in Nat \ {0}
    BY <1>2
  <2>4. Taken(SgeTake(f[k - 1], sges[idx + k]), sges, m, idx, k)
    BY <2>1, <2>2, <2>3, TakenStep
  <2> QED
    BY <1>7, <2>2, <2>4
<1>10. n \in S
  <2>1. Inductive(S, n)
    BY <1>8, <1>9 DEF Inductive
  <2> QED
    BY <2>1, Induct
<1>11. Taken(f[n], sges, m, idx, n) /\ adv = f[n] /\ f[n] \in Taking
  BY <1>6, <1>7, <1>10 DEF AdvanceRun
<1>12. Len(adv.dst) \in Nat
  BY <1>11, LenProperties DEF Taking
<1> QED
  BY <1>2, <1>11, <1>12 DEF Taken

LEMMA WholeLength ==
  ASSUME NEW sges \in Seq(NatSge)
  PROVE  SgeLen(sges, Start) \in Nat
<1>1. PICK n \in Nat : n = Len(sges)
  BY LenProperties
<1>2. PICK l : l = From(sges, Start.idx)
  OBVIOUS
<1>3. Sized(l, n)
  <2>1. l = SubSeq(sges, 1, n)
    BY <1>1, <1>2 DEF From, Start
  <2>2. Len(l) = n /\ \A k \in 1 .. n : l[k] = sges[k]
    <3>1. CASE n = 0
      BY <1>1, <2>1, <3>1, SubSeqProperties
    <3>2. CASE n # 0
      BY <1>1, <2>1, <3>2, SubSeqProperties
    <3> QED
      BY <3>1, <3>2
  <2>3. ASSUME NEW k \in 1 .. n PROVE l[k].len \in Nat
    <3>1. sges[k] \in NatSge
      BY <1>1, ElementOfSeq
    <3> QED
      BY <2>2, <3>1 DEF NatSge
  <2> QED
    BY <2>2, <2>3 DEF Sized
<1>4. PICK f \in [0 .. n -> Nat] : LenRun(f, sges, Start, l, n)
  BY <1>2, <1>3, SgeLenLoop
<1>5. f[n] \in Nat /\ SgeLen(sges, Start) = f[n] - 0
  BY <1>4 DEF LenRun, Start
<1> QED
  BY <1>5

\* Counting up to n.
LEMMA CountingList ==
  ASSUME NEW n \in Nat, NEW l, l = [i \in 1 .. n |-> i]
  PROVE  Len(l) = n /\ \A k \in 1 .. n : l[k] = k
<1>1. l \in [1 .. n -> Nat]
  OBVIOUS
<1>2. l \in Seq(Nat)
  BY <1>1
<1>3. DOMAIN l = 1 .. n /\ DOMAIN l = 1 .. Len(l) /\ Len(l) \in Nat
  BY <1>1, <1>2, LenProperties
<1> QED
  BY <1>3

(***************************************************************************)
(* The packets of a message: the lists that its scatter list is cut into   *)
(* are made of parts of its entries, and are not longer.                   *)
(***************************************************************************)
PartList(list, sges, m) == Len(list) \in Nat /\ Len(list) <= m /\ Parts(list, sges, m)
PartLists(lists, sges, m) == \A i \in 1 .. Len(lists) : PartList(lists[i], sges, m)

LEMMA AppendPartList ==
  ASSUME NEW sges, NEW m, NEW lists \in Seq(Seq(IntSge)), PartLists(lists, sges, m),
         NEW list \in Seq(IntSge), PartList(list, sges, m)
  PROVE  PartLists(Append(lists, list), sges, m)
<1>1. Len(lists) \in Nat /\ Len(Append(lists, list)) = Len(lists) + 1
  BY LenProperties, AppendProperties
<1>2. ASSUME NEW i \in 1 .. Len(lists) + 1 PROVE PartList(Append(lists, list)[i], sges, m)
  <2>1. CASE i = Len(lists) + 1
    <3>1. Append(lists, list)[i] = list
      BY <2>1, AppendProperties
    <3> QED
      BY <3>1
  <2>2. CASE i \in 1 .. Len(lists)
    <3>1. Append(lists, list)[i] = lists[i]
      BY <2>2, AppendProperties
    <3> QED
      BY <2>2, <3>1 DEF PartLists
  <2> QED
    BY <1>1, <2>1, <2>2
<1> QED
  BY <1>1, <1>2 DEF PartLists

LEMMA SegmentsParts ==
  ASSUME NEW sges \in Seq(NatSge), NEW m \in Nat, m = Len(sges), NEW mtu \in Nat \ {0}
  PROVE  PartLists(Segments(sges, mtu), sges, m) /\ Len(Segments(sges, mtu)) \in Nat
<1> DEFINE payload == SgeLen(sges, Start)
           packets == (payload + mtu - 1) \div mtu
<1>1. payload \in Nat
  BY WholeLength
<1> HIDE DEF payload
<1>2. packets \in Int
  <2>1. PICK y \in Int : y = payload + mtu - 1
    BY <1>1
  <2> QED
    BY <2>1, DivMod
<1> HIDE DEF packets
<1>3. CASE packets <= 1
  <2>1. Segments(sges, mtu) = <<sges>>
    BY <1>3 DEF Segments, payload, packets
  <2>2. ASSUME NEW e \in 1 .. m PROVE PartOf(sges[e], sges, m)
    <3>1. sges[e] \in NatSge
      BY ElementOfSeq
    <3>2. sges[e].addr \in Nat /\ sges[e].len \in Nat \ {0}
      BY <3>1 DEF NatSge
    <3>3. Within(sges[e].addr, sges[e].len, sges[e].addr, sges[e].len)
      BY <3>2 DEF Within
    <3> QED
      BY <3>2, <3>3 DEF PartOf
  <2>3. PartList(sges, sges, m)
    BY <2>2 DEF PartList, Parts
  <2>4. Len(<<sges>>) \in Nat
    OBVIOUS
  <2> QED
    BY <2>1, <2>3, <2>4 DEF PartLists
<1>4. CASE packets > 1
  <2> DEFINE Bytes(i) == IF i < packets THEN mtu ELSE payload - (packets - 1) * mtu
             Adv(x, i) == SgeAdvance(sges, Bytes(i), x.cur)
             T(x, i) == [cur |-> [idx |-> Adv(x, i).idx, off |-> Adv(x, i).off],
                         lists |-> Append(x.lists, Adv(x, i).dst)]
             Acc == [cur : [idx : Int, off : Int], lists : Seq(Seq(IntSge))]
             D == {x \in Acc : CursorIn(sges, x.cur, m) /\ PartLists(x.lists, sges, m)}
             b == [cur |-> Start, lists |-> <<>>]
             list == [i \in 1 .. packets |-> i]
             Builds(f) == f = [k \in 0 .. Len(list) |->
                                 IF k = 0 THEN b ELSE T(f[k - 1], list[k])]
  <2>1. \A i \in 1 .. packets : Bytes(i) \in Nat
    <3>1. PICK y \in Int, q \in Int, r \in 0 .. mtu - 1 :
            y = payload + mtu - 1 /\ y = mtu * q + r /\ q = y \div mtu
      <4>1. PICK y \in Int : y = payload + mtu - 1
        BY <1>1
      <4> QED
        BY <4>1, Euclid
    <3>2. q = packets
      BY <3>1 DEF packets
    <3>3. PICK z \in Int : z = mtu * q
      OBVIOUS
    <3>4. (q - 1) * mtu = z - mtu
      BY <3>3
    <3>5. payload - (packets - 1) * mtu \in Nat
      BY <1>1, <3>1, <3>2, <3>3, <3>4
    <3> QED
      BY <3>5
  <2>2. b \in D
    <3>1. b \in Acc
      BY EmptySeq DEF Start
    <3>2. CursorIn(sges, b.cur, m) /\ PartLists(b.lists, sges, m)
      BY EmptySeq DEF CursorIn, PartLists, Start
    <3> QED
      BY <3>1, <3>2
  <2> HIDE DEF Bytes
  <2>3. ASSUME NEW i \in 1 .. packets, NEW x \in D PROVE T(x, i) \in D
    <3>1. PICK adv : adv = Adv(x, i)
      OBVIOUS
    <3>2. x.lists \in Seq(Seq(IntSge)) /\ CursorIn(sges, x.cur, m)
          /\ PartLists(x.lists, sges, m)
      OBVIOUS
    <3>3. /\ CursorIn(sges, adv, m) /\ adv \in Taking
          /\ Len(adv.dst) \in Nat /\ Len(adv.dst) <= m /\ Parts(adv.dst, sges, m)
      BY <2>1, <3>1, <3>2, AdvanceParts
    <3>4. adv.dst \in Seq(IntSge) /\ adv.idx \in Int /\ adv.off \in Int
      BY <3>3 DEF Taking
    <3>5. PartLists(Append(x.lists, adv.dst), sges, m)
      <4>1. PartList(adv.dst, sges, m)
        BY <3>3 DEF PartList
      <4> QED
        BY <3>2, <3>4, <4>1, AppendPartList
    <3>6. Append(x.lists, adv.dst) \in Seq(Seq(IntSge))
      BY <3>2, <3>4, AppendProperties
    <3>7. T(x, i) = [cur |-> [idx |-> adv.idx, off |-> adv.off],
                     lists |-> Append(x.lists, adv.dst)]
      BY <3>1
    <3>8. T(x, i) \in Acc
      BY <3>4, <3>6, <3>7
    <3>9. CursorIn(sges, T(x, i).cur, m)
      BY <3>3, <3>7 DEF CursorIn
    <3> QED
      BY <3>5, <3>7, <3>8, <3>9
  <2>4. packets \in Nat /\ Len(list) = packets /\ \A k \in 1 .. packets : list[k] = k
    <3>1. packets \in Nat
      BY <1>2, <1>4
    <3> QED
      BY <3>1, CountingList
  <2> HIDE DEF T, D, b, list
  <2>5. PICK G : G = [k \in 1 .. packets |-> [x \in D |-> T(x, k)]]
    OBVIOUS
  <2>6. \A k \in 1 .. packets : \A x \in D : G[k][x] = T(x, k) /\ G[k][x] \in D
    BY <2>3, <2>5
  <2>7. PICK f \in [0 .. packets -> D] :
          Turns(f, b, packets, G) /\ \A k \in 1 .. packets : f[k - 1] \in D
    BY ONLY <2>2, <2>4, <2>6, LoopExists
  <2>8. f[0] = b /\ \A k \in 1 .. packets : f[k - 1] \in D /\ f[k] = T(f[k - 1], k)
    BY <2>6, <2>7 DEF Turns
  <2>9. Builds(f)
    BY <2>4, <2>7, <2>8
  <2>10. PICK g : g = (CHOOSE h : Builds(h)) /\ Builds(g)
    <3> HIDE DEF Builds
    <3> QED
      BY <2>9
  <2>11. g[0] = b /\ \A k \in 1 .. packets : g[k] = T(g[k - 1], k)
    <3>1. 0 \in 0 .. packets /\ \A k \in 1 .. packets : k \in 0 .. packets /\ k # 0
      BY <2>4
    <3> QED
      BY <2>4, <2>10, <3>1
  <2>12. \A k \in 0 .. packets : g[k] = f[k]
    <3>1. SameBody(g, f, packets)
      BY <2>8, <2>11 DEF SameBody
    <3> QED
      BY ONLY <2>4, <3>1, SameTurns
  <2>13. Segments(sges, mtu) = (CHOOSE h : Builds(h))[Len(list)].lists
    <3>1. Segments(sges, mtu) = IF packets <= 1 THEN <<sges>>
                                ELSE (CHOOSE h : Builds(h))[Len(list)].lists
      BY DEF Segments, Loop, T, b, Bytes, list, payload, packets
    <3>2. ~(packets <= 1)
      BY <1>2, <1>4
    <3> HIDE DEF Builds
    <3> QED
      BY ONLY <3>1, <3>2
  <2>14. f[packets] \in D
    BY <2>4, <2>7
  <2> HIDE DEF Builds
  <2>15. Segments(sges, mtu) = f[packets].lists
    BY <2>4, <2>10, <2>12, <2>13
  <2>16. f[packets].lists \in Seq(Seq(IntSge)) /\ PartLists(f[packets].lists, sges, m)
    BY <2>14 DEF D
  <2>17. Len(f[packets].lists) \in Nat
    BY <2>16, LenProperties
  <2> QED
    BY <2>15, <2>16, <2>17
<1> QED
  BY <1>2, <1>3, <1>4

-----------------------------------------------------------------------------
(***************************************************************************)
(* Sequences of whatever elements.                                         *)
(***************************************************************************)
LEMMA SeqIs ==
  ASSUME NEW S, NEW s \in Seq(S)
  PROVE  IsSeq(s)
<1>1. Len(s) \in Nat /\ s \in [1 .. Len(s) -> S]
  BY LenProperties
<1> QED
  BY <1>1 DEF IsSeq

LEMMA IsSeqIn ==
  ASSUME NEW s, IsSeq(s), NEW S, \A i \in 1 .. Len(s) : s[i] \in S
  PROVE  s \in Seq(S)
<1>1. PICK n \in Nat : n = Len(s)
  BY DEF IsSeq
<1>2. PICK t : t = [i \in 1 .. n |-> s[i]]
  OBVIOUS
<1>3. t \in Seq(S)
  BY <1>1, <1>2
<1> QED
  BY <1>1, <1>2, <1>3 DEF IsSeq

\* A sequence is one over the set of its elements.
Elements(s) == {s[i] : i \in 1 .. Len(s)}

LEMMA SeqElements == ASSUME NEW s, IsSeq(s) PROVE s \in Seq(Elements(s))
<1>1. \A i \in 1 .. Len(s) : s[i] \in Elements(s)
  BY DEF Elements
<1> HIDE DEF Elements
<1> QED
  BY <1>1, IsSeqIn

LEMMA FunctionIsSeq ==
  ASSUME NEW n \in Nat, NEW s, DOMAIN s = 1 .. n, s = [i \in DOMAIN s |-> s[i]]
  PROVE  IsSeq(s) /\ Len(s) = n
<1>1. PICK S : S = {s[i] : i \in 1 .. n}
  OBVIOUS
<1>2. s \in [1 .. n -> S]
  BY <1>1
<1>3. s \in Seq(S) /\ Len(s) = n
  BY <1>2
<1> QED
  BY <1>3, SeqIs

LEMMA EmptyIs == IsSeq(<<>>) /\ Len(<<>>) = 0
<1>1. <<>> \in Seq(Nat) /\ Len(<<>>) = 0
  BY EmptySeq
<1> QED
  BY <1>1, SeqIs

LEMMA OneIs == ASSUME NEW x PROVE IsSeq(<<x>>) /\ Len(<<x>>) = 1 /\ <<x>>[1] = x
<1>1. <<x>> \in Seq({x}) /\ Len(<<x>>) = 1 /\ <<x>>[1] = x
  OBVIOUS
<1> QED
  BY <1>1, SeqIs

LEMMA ConcatIs ==
  ASSUME NEW s, IsSeq(s), NEW t, IsSeq(t)
  PROVE  /\ IsSeq(s \o t) /\ Len(s \o t) = Len(s) + Len(t)
         /\ \A i \in 1 .. Len(s) : (s \o t)[i] = s[i]
         /\ \A i \in 1 .. Len(t) : (s \o t)[Len(s) + i] = t[i]
<1>1. PICK S : S = Elements(s) \cup Elements(t)
  OBVIOUS
<1>2. s \in Seq(S) /\ t \in Seq(S)
  BY <1>1, SeqElements, SeqMonotonic
<1>3. PICK m \in Nat, n \in Nat : m = Len(s) /\ n = Len(t)
  BY DEF IsSeq
<1>4. /\ s \o t \in Seq(S) /\ Len(s \o t) = m + n
      /\ \A i \in 1 .. m + n : (s \o t)[i] = IF i <= m THEN s[i] ELSE t[i - m]
  BY <1>2, <1>3, ConcatProperties
<1>5. IsSeq(s \o t)
  BY <1>4, SeqIs
<1>6. \A i \in 1 .. m : (s \o t)[i] = s[i]
  BY <1>4
<1>7. ASSUME NEW i \in 1 .. n PROVE (s \o t)[m + i] = t[i]
  <2>1. m + i \in 1 .. m + n /\ ~(m + i <= m) /\ (m + i) - m = i
    OBVIOUS
  <2> QED
    BY <1>4, <2>1
<1> QED
  BY <1>3, <1>4, <1>5, <1>6, <1>7

Associates(s, t, u) == (s \o t) \o u = s \o (t \o u)

LEMMA ConcatAssociates ==
  ASSUME NEW s, IsSeq(s), NEW t, IsSeq(t), NEW u, IsSeq(u)
  PROVE  Associates(s, t, u)
<1>1. PICK S : S = Elements(s) \cup Elements(t) \cup Elements(u)
  OBVIOUS
<1>2. s \in Seq(S) /\ t \in Seq(S) /\ u \in Seq(S)
  <2>1. ASSUME NEW v, IsSeq(v), Elements(v) \subseteq S PROVE v \in Seq(S)
    <3>1. \A i \in 1 .. Len(v) : v[i] \in S
      BY <2>1 DEF Elements
    <3> QED
      BY <2>1, <3>1, IsSeqIn
  <2> QED
    BY <1>1, <2>1
<1> QED
  BY ONLY <1>2, ConcatAssociative DEF Associates

LEMMA AppendIs ==
  ASSUME NEW s, IsSeq(s), NEW x
  PROVE  /\ IsSeq(Append(s, x)) /\ Len(Append(s, x)) = Len(s) + 1
         /\ \A i \in 1 .. Len(s) : Append(s, x)[i] = s[i]
         /\ Append(s, x)[Len(s) + 1] = x
<1>1. PICK S : S = Elements(s) \cup {x}
  OBVIOUS
<1>2. s \in Seq(S) /\ x \in S
  BY <1>1, SeqElements, SeqMonotonic
<1>3. /\ Append(s, x) \in Seq(S) /\ Len(Append(s, x)) = Len(s) + 1
      /\ \A i \in 1 .. Len(s) : Append(s, x)[i] = s[i]
      /\ Append(s, x)[Len(s) + 1] = x
  BY <1>2, AppendProperties
<1> QED
  BY <1>3, SeqIs

LEMMA TailIs ==
  ASSUME NEW s, IsSeq(s), s # <<>>
  PROVE  /\ IsSeq(Tail(s)) /\ Len(s) \in Nat \ {0} /\ Len(Tail(s)) = Len(s) - 1
         /\ \A i \in 1 .. Len(Tail(s)) : Tail(s)[i] = s[i + 1]
         /\ Head(s) = s[1]
<1>1. PICK S : S = Elements(s)
  OBVIOUS
<1>2. s \in Seq(S)
  BY <1>1, SeqElements
<1>3. /\ Tail(s) \in Seq(S) /\ Len(Tail(s)) = Len(s) - 1
      /\ \A i \in 1 .. Len(Tail(s)) : Tail(s)[i] = s[i + 1]
  BY <1>2, HeadTailProperties
<1>4. Len(s) \in Nat \ {0}
  BY <1>2, EmptySeq
<1>5. Head(s) = s[1]
  BY <1>2, <1>4
<1>6. IsSeq(Tail(s))
  BY <1>3, SeqIs
<1> QED
  BY <1>3, <1>4, <1>5, <1>6

\* The units behind position x up to position y.
Slice(w, x, y) == SubSeq(w, x + 1, y)

LEMMA SliceIs ==
  ASSUME NEW w, IsSeq(w), NEW x \in Nat, NEW y \in Nat, x <= y, y <= Len(w)
  PROVE  /\ IsSeq(Slice(w, x, y)) /\ Len(Slice(w, x, y)) = y - x
         /\ Slice(w, x, y) \in Seq(Elements(w))
         /\ \A i \in 1 .. y - x : Slice(w, x, y)[i] = w[x + i]
<1>1. PICK n \in Nat : n = Len(w)
  BY DEF IsSeq
<1>2. \A i \in x + 1 .. y : w[i] \in Elements(w)
  BY <1>1 DEF Elements
<1>3. PICK s : s = SubSeq(w, x + 1, y)
  OBVIOUS
<1> HIDE DEF Elements
<1>4. /\ s \in Seq(Elements(w))
      /\ Len(s) = IF x + 1 <= y THEN y - (x + 1) + 1 ELSE 0
      /\ \A i \in 1 .. y - (x + 1) + 1 : s[i] = w[(x + 1) + i - 1]
  BY <1>2, <1>3, SubSeqProperties
<1>5. Len(s) = y - x
  BY <1>4
<1>6. ASSUME NEW i \in 1 .. y - x PROVE s[i] = w[x + i]
  <2>1. i \in 1 .. y - (x + 1) + 1 /\ (x + 1) + i - 1 = x + i
    OBVIOUS
  <2> QED
    BY <1>4, <2>1
<1>7. IsSeq(s)
  BY <1>4, SeqIs
<1> QED
  BY <1>3, <1>4, <1>5, <1>6, <1>7 DEF Slice

LEMMA SliceOfSlice ==
  ASSUME NEW w, IsSeq(w), NEW x \in Nat, NEW y \in Nat, x <= y, y <= Len(w),
         NEW i \in Nat, NEW j \in Nat, i <= j, j <= y - x
  PROVE  Slice(Slice(w, x, y), i, j) = Slice(w, x + i, x + j)
<1>1. PICK s : s = Slice(w, x, y)
  OBVIOUS
<1>2. /\ IsSeq(s) /\ Len(s) = y - x /\ s \in Seq(Elements(w))
      /\ \A k \in 1 .. y - x : s[k] = w[x + k]
  BY <1>1, SliceIs
<1>3. PICK t, u : t = Slice(s, i, j) /\ u = Slice(w, x + i, x + j)
  OBVIOUS
<1>4. Len(t) = j - i /\ IsSeq(t) /\ \A k \in 1 .. j - i : t[k] = s[i + k]
  <2>1. IsSeq(s) /\ j <= Len(s)
    BY <1>2
  <2>2. /\ IsSeq(Slice(s, i, j)) /\ Len(Slice(s, i, j)) = j - i
        /\ \A k \in 1 .. j - i : Slice(s, i, j)[k] = s[i + k]
    BY <2>1, SliceIs
  <2> QED
    BY ONLY <1>3, <2>2
<1>5. Len(u) = j - i /\ IsSeq(u) /\ \A k \in 1 .. j - i : u[k] = w[(x + i) + k]
  <2>1. x + i \in Nat /\ x + j \in Nat /\ x + i <= x + j
    OBVIOUS
  <2>2. x + j <= Len(w)
    BY DEF IsSeq
  <2>3. Len(u) = (x + j) - (x + i) /\ IsSeq(u)
        /\ \A k \in 1 .. (x + j) - (x + i) : u[k] = w[(x + i) + k]
    BY <1>3, <2>1, <2>2, SliceIs
  <2>4. (x + j) - (x + i) = j - i
    OBVIOUS
  <2> QED
    BY ONLY <2>3, <2>4
<1>6. ASSUME NEW k \in 1 .. j - i PROVE t[k] = u[k]
  <2>1. i + k \in 1 .. y - x /\ x + (i + k) = (x + i) + k
    OBVIOUS
  <2> QED
    BY <1>2, <1>4, <1>5, <2>1
<1>7. t = [k \in 1 .. j - i |-> t[k]] /\ u = [k \in 1 .. j - i |-> u[k]]
  BY <1>4, <1>5 DEF IsSeq
<1>8. t = u
  BY ONLY <1>6, <1>7
<1> QED
  BY <1>1, <1>3, <1>8

LEMMA SlicesJoin ==
  ASSUME NEW w, IsSeq(w), NEW x \in Nat, NEW y \in Nat, NEW z \in Nat,
         x <= y, y <= z, z <= Len(w)
  PROVE  Slice(w, x, y) \o Slice(w, y, z) = Slice(w, x, z)
<1>1. PICK s, t, u : s = Slice(w, x, y) /\ t = Slice(w, y, z) /\ u = Slice(w, x, z)
  OBVIOUS
<1>2. y <= Len(w) /\ x <= z
  BY DEF IsSeq
<1>3. /\ IsSeq(s) /\ Len(s) = y - x /\ IsSeq(t) /\ Len(t) = z - y
      /\ IsSeq(u) /\ Len(u) = z - x
      /\ \A i \in 1 .. y - x : s[i] = w[x + i]
      /\ \A i \in 1 .. z - y : t[i] = w[y + i]
      /\ \A i \in 1 .. z - x : u[i] = w[x + i]
  BY <1>1, <1>2, SliceIs
<1>4. PICK v : v = s \o t
  OBVIOUS
<1>5. /\ IsSeq(v) /\ Len(v) = Len(s) + Len(t)
      /\ \A i \in 1 .. Len(s) : v[i] = s[i]
      /\ \A i \in 1 .. Len(t) : v[Len(s) + i] = t[i]
  <2>1. IsSeq(s) /\ IsSeq(t)
    BY <1>3
  <2> QED
    BY <1>4, <2>1, ConcatIs
<1>6. Len(v) = z - x
  BY <1>3, <1>5
<1>7. ASSUME NEW i \in 1 .. z - x PROVE v[i] = u[i]
  <2>1. CASE i <= y - x
    BY <1>3, <1>5, <2>1
  <2>2. CASE ~(i <= y - x)
    <3>1. PICK j \in 1 .. z - y : j = i - (y - x)
      BY <2>2
    <3>2. (y - x) + j = i /\ y + j = x + i
      BY <3>1
    <3>3. v[i] = t[j]
      BY <1>3, <1>5, <3>1, <3>2
    <3>4. t[j] = w[x + i]
      BY <1>3, <3>1, <3>2
    <3> QED
      BY <1>3, <3>3, <3>4
  <2> QED
    BY <2>1, <2>2
<1>8. v = [i \in 1 .. z - x |-> v[i]] /\ u = [i \in 1 .. z - x |-> u[i]]
  BY <1>3, <1>5, <1>6 DEF IsSeq
<1>9. v = u
  BY ONLY <1>7, <1>8
<1> QED
  BY <1>1, <1>4, <1>9

-----------------------------------------------------------------------------
(***************************************************************************)
(* The two buffers of a frame.  Whatever headers and padding were taken    *)
(* off, they hold the units of the frame behind a position p up to a       *)
(* position q, cut somewhere between.                                      *)
(***************************************************************************)
Taker(acc, buf, bytes) == Smaller(Len(buf), bytes - Len(acc.data))
TakeFront(acc, buf, bytes) ==
  [bufs |-> Append(acc.bufs, From(buf, Taker(acc, buf, bytes))),
   data |-> acc.data \o SubSeq(buf, 1, Taker(acc, buf, bytes))]
TakeBack(acc, buf, bytes) ==
  [bufs |-> <<SubSeq(buf, 1, Len(buf) - Taker(acc, buf, bytes))>> \o acc.bufs,
   data |-> From(buf, Len(buf) - Taker(acc, buf, bytes)) \o acc.data]
Untaken == [bufs |-> <<>>, data |-> <<>>]

LEMMA AdvanceTwo ==
  ASSUME NEW bufs, Len(bufs) = 2, NEW bytes
  PROVE  IovAdvance(bufs, bytes) = TakeFront(TakeFront(Untaken, bufs[1], bytes), bufs[2], bytes)
<1> DEFINE T(x, k) == TakeFront(x, bufs[k], bytes)
           Builds(f) == f = [k \in 0 .. Len(bufs) |-> IF k = 0 THEN Untaken ELSE T(f[k - 1], k)]
<1>1. IovAdvance(bufs, bytes) = (CHOOSE h : Builds(h))[Len(bufs)]
  BY DEF IovAdvance, Loop, TakeFront, Taker, Untaken
<1>2. PICK f : f = [k \in 0 .. 2 |-> IF k = 0 THEN Untaken
                                     ELSE IF k = 1 THEN T(Untaken, 1) ELSE T(T(Untaken, 1), 2)]
  OBVIOUS
<1> HIDE DEF T
<1>3. Builds(f)
  <2>1. f[0] = Untaken /\ f[1] = T(Untaken, 1) /\ f[2] = T(T(Untaken, 1), 2)
    BY <1>2
  <2>2. ASSUME NEW k \in 0 .. 2 PROVE f[k] = IF k = 0 THEN Untaken ELSE T(f[k - 1], k)
    <3>1. k = 0 \/ k = 1 \/ k = 2
      OBVIOUS
    <3> QED
      BY <2>1, <3>1
  <2>3. f = [k \in 0 .. 2 |-> f[k]]
    BY <1>2
  <2> QED
    BY <2>2, <2>3
<1>4. PICK g : g = (CHOOSE h : Builds(h)) /\ Builds(g)
  <2> HIDE DEF Builds
  <2> QED
    BY <1>3
<1>5. g[0] = Untaken /\ g[1] = T(g[0], 1) /\ g[2] = T(g[1], 2)
  <2>1. \A k \in 0 .. 2 : g[k] = IF k = 0 THEN Untaken ELSE T(g[k - 1], k)
    BY <1>4
  <2> QED
    BY <2>1
<1> HIDE DEF Builds
<1>6. IovAdvance(bufs, bytes) = g[2]
  BY <1>1, <1>4
<1> QED
  BY <1>5, <1>6 DEF T

LEMMA ReverseTwo ==
  ASSUME NEW bufs, Len(bufs) = 2, NEW bytes
  PROVE  IovReverse(bufs, bytes) = TakeBack(TakeBack(Untaken, bufs[2], bytes), bufs[1], bytes)
<1>0. PICK list : list = Reverse(bufs)
  OBVIOUS
<1> DEFINE T(x, k) == TakeBack(x, list[k], bytes)
           Builds(f) == f = [k \in 0 .. Len(list) |-> IF k = 0 THEN Untaken ELSE T(f[k - 1], k)]
<1>1. IovReverse(bufs, bytes) = (CHOOSE h : Builds(h))[Len(list)]
  BY <1>0 DEF IovReverse, Loop, TakeBack, Taker, Untaken
<1>2. Len(list) = 2 /\ list[1] = bufs[2] /\ list[2] = bufs[1]
  <2>1. list = [i \in 1 .. 2 |-> bufs[(2 - i) + 1]]
    BY <1>0 DEF Reverse
  <2>2. DOMAIN list = 1 .. 2 /\ list = [i \in DOMAIN list |-> list[i]]
    BY <2>1
  <2>3. Len(list) = 2
    BY <2>2, FunctionIsSeq
  <2> QED
    BY <2>1, <2>3
<1>3. PICK f : f = [k \in 0 .. 2 |-> IF k = 0 THEN Untaken
                                     ELSE IF k = 1 THEN T(Untaken, 1) ELSE T(T(Untaken, 1), 2)]
  OBVIOUS
<1> HIDE DEF T
<1>4. Builds(f)
  <2>1. f[0] = Untaken /\ f[1] = T(Untaken, 1) /\ f[2] = T(T(Untaken, 1), 2)
    BY <1>3
  <2>2. ASSUME NEW k \in 0 .. 2 PROVE f[k] = IF k = 0 THEN Untaken ELSE T(f[k - 1], k)
    <3>1. k = 0 \/ k = 1 \/ k = 2
      OBVIOUS
    <3> QED
      BY <2>1, <3>1
  <2>3. f = [k \in 0 .. 2 |-> f[k]]
    BY <1>3
  <2> QED
    BY <1>2, <2>2, <2>3
<1>5. PICK g : g = (CHOOSE h : Builds(h)) /\ Builds(g)
  <2> HIDE DEF Builds
  <2> QED
    BY <1>4
<1>6. g[0] = Untaken /\ g[1] = T(g[0], 1) /\ g[2] = T(g[1], 2)
  <2>1. \A k \in 0 .. 2 : g[k] = IF k = 0 THEN Untaken ELSE T(g[k - 1], k)
    BY <1>2, <1>5
  <2> QED
    BY <2>1
<1> HIDE DEF Builds
<1>7. IovReverse(bufs, bytes) = g[2]
  BY <1>1, <1>2, <1>5
<1> QED
  BY <1>2, <1>6, <1>7 DEF T

\* The window p .. q of the frame w, cut at k.
Window(w, p, k, q) == <<Slice(w, p, k), Slice(w, k, q)>>
Places(w, p, k, q) == p <= k /\ k <= q /\ q <= Len(w) /\ IsSeq(w)

LEMMA WindowLen ==
  ASSUME NEW w, NEW p \in Nat, NEW k \in Nat, NEW q \in Nat, Places(w, p, k, q)
  PROVE  IovLen(Window(w, p, k, q)) = q - p
<1>1. PICK bufs : bufs = Window(w, p, k, q)
  OBVIOUS
<1>2. Len(bufs) = 2 /\ bufs[1] = Slice(w, p, k) /\ bufs[2] = Slice(w, k, q)
  BY <1>1 DEF Window
<1>3. Len(bufs[1]) = k - p /\ Len(bufs[2]) = q - k
  <2>1. IsSeq(w) /\ p <= k /\ k <= Len(w) /\ k <= q /\ q <= Len(w)
    BY DEF Places, IsSeq
  <2>2. Len(Slice(w, p, k)) = k - p /\ Len(Slice(w, k, q)) = q - k
    BY <2>1, SliceIs
  <2> QED
    BY <1>2, <2>2
<1>4. PICK n \in Nat : n = 2
  OBVIOUS
<1>5. \A i \in 1 .. n : Len(bufs[i]) \in Nat
  <2>1. k - p \in Nat /\ q - k \in Nat
    BY DEF Places
  <2>2. ASSUME NEW i \in 1 .. n PROVE i = 1 \/ i = 2
    BY <1>4
  <2> QED
    BY <1>3, <2>1, <2>2
<1>6. PICK f \in [0 .. n -> Nat] :
        /\ f[0] = 0
        /\ \A i \in 1 .. n : f[i - 1] \in Nat /\ f[i] = f[i - 1] + Len(bufs[i])
        /\ IovLen(bufs) = f[n]
  BY <1>2, <1>4, <1>5, IovLenLoop
<1>7. f[1] = 0 + Len(bufs[1]) /\ f[2] = f[1] + Len(bufs[2])
  BY <1>4, <1>6
<1>8. IovLen(bufs) = 0 + (k - p) + (q - k)
  BY <1>3, <1>4, <1>6, <1>7
<1> QED
  BY <1>1, <1>8

Spans(w, x, y) == IsSeq(w) /\ x <= y /\ y <= Len(w)

LEMMA SliceLen ==
  ASSUME NEW w, NEW x \in Nat, NEW y \in Nat, Spans(w, x, y)
  PROVE  IsSeq(Slice(w, x, y)) /\ Len(Slice(w, x, y)) = y - x
BY SliceIs DEF Spans

Cut(w, x, y, n) == Spans(w, x, y) /\ n <= y - x

Halves(s, w, x, y, n) ==
  /\ From(s, n) = Slice(w, x + n, y)
  /\ SubSeq(s, 1, n) = Slice(w, x, x + n)

LEMMA SliceCuts ==
  ASSUME NEW w, NEW x \in Nat, NEW y \in Nat, NEW n \in Nat, Cut(w, x, y, n)
  PROVE  Halves(Slice(w, x, y), w, x, y, n)
<1>s. PICK s : s = Slice(w, x, y)
  OBVIOUS
<1>0. IsSeq(w) /\ x <= y /\ y <= Len(w) /\ n <= y - x
  BY DEF Cut, Spans
<1>1. PICK l \in Nat : l = y - x
  BY <1>0
<1>2. Len(s) = l
  BY <1>s, <1>0, <1>1, SliceIs
<1>3. From(s, n) = Slice(s, n, l) /\ SubSeq(s, 1, n) = Slice(s, 0, n)
  BY <1>2 DEF From, Slice
<1>4. Slice(s, n, l) = Slice(w, x + n, x + l)
  <2>1. n <= l /\ l <= y - x
    BY <1>0, <1>1
  <2> QED
    BY <1>s, <1>0, <2>1, SliceOfSlice
<1>5. Slice(s, 0, n) = Slice(w, x + 0, x + n)
  <2>1. 0 \in Nat /\ 0 <= n /\ n <= y - x
    BY <1>0
  <2> QED
    BY <1>s, <1>0, <2>1, SliceOfSlice
<1>6. x + l = y /\ x + 0 = x
  BY <1>1
<1> QED
  BY ONLY <1>s, <1>3, <1>4, <1>5, <1>6 DEF Halves

LEMMA SmallerIs ==
  ASSUME NEW x \in Nat, NEW y \in Nat
  PROVE  /\ Smaller(x, y) \in Nat /\ Smaller(x, y) <= x /\ Smaller(x, y) <= y
         /\ (Smaller(x, y) = x \/ Smaller(x, y) = y)
BY DEF Smaller

LEMMA Pair ==
  ASSUME NEW u, NEW v
  PROVE  Append(<<u>>, v) = <<u, v>> /\ <<u>> \o <<v>> = <<u, v>>
<1>1. PICK S : S = {u, v}
  OBVIOUS
<1>2. <<u>> \in Seq(S) /\ <<v>> \in Seq(S) /\ <<u, v>> \in Seq(S) /\ v \in S
  BY <1>1
<1>3. Len(<<u>>) = 1 /\ Len(<<v>>) = 1 /\ Len(<<u, v>>) = 2
  OBVIOUS
<1>4. PICK x, y : x = Append(<<u>>, v) /\ y = <<u>> \o <<v>>
  OBVIOUS
<1>5. x \in Seq(S) /\ Len(x) = 2 /\ x[1] = u /\ x[2] = v
  BY <1>2, <1>3, <1>4, AppendProperties
<1>6. y \in Seq(S) /\ Len(y) = 2 /\ y[1] = u /\ y[2] = v
  BY <1>2, <1>3, <1>4, ConcatProperties
<1>7. \A i \in 1 .. 2 : i = 1 \/ i = 2
  OBVIOUS
<1>8. <<u, v>>[1] = u /\ <<u, v>>[2] = v
  OBVIOUS
<1>9. x = <<u, v>>
  BY ONLY <1>2, <1>3, <1>5, <1>7, <1>8, SeqEqual
<1>10. y = <<u, v>>
  BY ONLY <1>2, <1>3, <1>6, <1>7, <1>8, SeqEqual
<1> QED
  BY ONLY <1>4, <1>9, <1>10

LEMMA NoSlice == ASSUME NEW w, NEW x \in Nat PROVE Slice(w, x, x) = <<>>
BY SubSeqEmpty DEF Slice

LEMMA EmptyJoins ==
  ASSUME NEW s, IsSeq(s)
  PROVE  s \o <<>> = s /\ <<>> \o s = s
<1>1. s \in Seq(Elements(s))
  BY SeqElements
<1> QED
  BY <1>1, ConcatEmptySeq

Advanced(bufs, w, p, m, j, q, n) ==
  /\ Places(w, p + m, j, q)
  /\ IovAdvance(bufs, n) = [bufs |-> Window(w, p + m, j, q), data |-> Slice(w, p, p + m)]

LEMMA WindowAdvance ==
  ASSUME NEW w, NEW p \in Nat, NEW k \in Nat, NEW q \in Nat, Places(w, p, k, q),
         NEW n \in Nat, NEW m \in Nat, m = Smaller(q - p, n)
  PROVE  \E j \in Nat : Advanced(Window(w, p, k, q), w, p, m, j, q, n)
<1> USE DEF Advanced
<1>1. PICK bufs, a, b : bufs = Window(w, p, k, q) /\ a = Slice(w, p, k) /\ b = Slice(w, k, q)
  OBVIOUS
<1>2. Len(bufs) = 2 /\ bufs[1] = a /\ bufs[2] = b
  BY <1>1 DEF Window
<1>3. IsSeq(w) /\ p <= k /\ k <= q /\ q <= Len(w) /\ k <= Len(w) /\ Len(w) \in Nat
  BY DEF Places, IsSeq
<1>s. Spans(w, p, k) /\ Spans(w, k, q)
  BY <1>3 DEF Spans
<1>4. Len(a) = k - p /\ Len(b) = q - k
  BY <1>1, <1>s, SliceLen
<1>d. PICK d \in Nat, e \in Nat : d = k - p /\ e = q - k /\ k = p + d /\ q = p + d + e
                              /\ q - p = d + e
  BY ONLY <1>3, p \in Nat, k \in Nat, q \in Nat
<1>50. /\ Smaller(d, n) \in Nat /\ Smaller(d, n) <= d /\ Smaller(d, n) <= n
      /\ (Smaller(d, n) = d \/ Smaller(d, n) = n)
  BY ONLY d \in Nat, n \in Nat, SmallerIs
<1>5. PICK m1 \in Nat : m1 = Smaller(d, n) /\ m1 <= d /\ m1 <= n /\ (m1 = d \/ m1 = n)
  BY <1>50
<1>r. PICK r \in Nat : r = n - m1
  BY ONLY <1>5, n \in Nat, m1 \in Nat
<1>60. /\ Smaller(e, r) \in Nat /\ Smaller(e, r) <= e /\ Smaller(e, r) <= r
      /\ (Smaller(e, r) = e \/ Smaller(e, r) = r)
  BY ONLY e \in Nat, r \in Nat, SmallerIs
<1>6. PICK m2 \in Nat : m2 = Smaller(e, r) /\ m2 <= e /\ m2 <= r /\ (m2 = e \/ m2 = r)
  BY <1>60
<1>l. Len(w) >= p + d + e /\ m1 <= k - p /\ m2 <= q - k
  BY <1>3, <1>d, <1>5, <1>6
<1>c. Cut(w, p, k, m1) /\ Cut(w, k, q, m2)
  BY <1>s, <1>l DEF Cut
<1>7. PICK x : x = TakeFront(Untaken, a, n)
  OBVIOUS
<1>8. x.bufs = <<Slice(w, p + m1, k)>> /\ x.data = Slice(w, p, p + m1)
  <2>1. Taker(Untaken, a, n) = m1
    <3>1. Len(Untaken.data) = 0
      BY EmptyIs DEF Untaken
    <3>2. n - 0 = n
      OBVIOUS
    <3> QED
      BY <1>4, <1>d, <1>5, <3>1, <3>2 DEF Taker
  <2>2. From(a, m1) = Slice(w, p + m1, k) /\ SubSeq(a, 1, m1) = Slice(w, p, p + m1)
    <3>1. Halves(Slice(w, p, k), w, p, k, m1)
      BY ONLY <1>c, SliceCuts, p \in Nat, k \in Nat, m1 \in Nat
    <3> QED
      BY ONLY <1>1, <3>1 DEF Halves
  <2>3. x = [bufs |-> Append(<<>>, Slice(w, p + m1, k)), data |-> <<>> \o Slice(w, p, p + m1)]
    BY <1>7, <2>1, <2>2 DEF TakeFront, Untaken
  <2>4. Append(<<>>, Slice(w, p + m1, k)) = <<Slice(w, p + m1, k)>>
    OBVIOUS
  <2>5. IsSeq(Slice(w, p, p + m1))
    <3>1. p <= p + m1 /\ p + m1 <= Len(w) /\ p + m1 \in Nat
      BY <1>3, <1>l, <1>d, <1>5
    <3>2. Spans(w, p, p + m1)
      BY <1>3, <3>1 DEF Spans
    <3> QED
      BY <3>1, <3>2, SliceLen
  <2> QED
    BY <2>3, <2>4, <2>5, EmptyJoins
<1>9. PICK y : y = TakeFront(x, b, n)
  OBVIOUS
<1>10. /\ y.bufs = <<Slice(w, p + m1, k), Slice(w, k + m2, q)>>
       /\ y.data = Slice(w, p, p + m1) \o Slice(w, k, k + m2)
       /\ y = [bufs |-> y.bufs, data |-> y.data]
  <2>1. Taker(x, b, n) = m2
    <3>1. p <= p + m1 /\ p + m1 <= Len(w) /\ p + m1 \in Nat /\ (p + m1) - p = m1
      BY <1>3, <1>l, <1>d, <1>5
    <3>2. Spans(w, p, p + m1)
      BY <1>3, <3>1 DEF Spans
    <3>3. Len(Slice(w, p, p + m1)) = (p + m1) - p
      BY <3>1, <3>2, SliceLen
    <3>4. Len(x.data) = m1
      BY <1>8, <3>1, <3>3
    <3> QED
      BY <1>4, <1>d, <1>r, <1>6, <3>4 DEF Taker
  <2>2. From(b, m2) = Slice(w, k + m2, q) /\ SubSeq(b, 1, m2) = Slice(w, k, k + m2)
    <3>1. Halves(Slice(w, k, q), w, k, q, m2)
      BY ONLY <1>c, SliceCuts, q \in Nat, k \in Nat, m2 \in Nat
    <3> QED
      BY ONLY <1>1, <3>1 DEF Halves
  <2>3. y = [bufs |-> Append(x.bufs, Slice(w, k + m2, q)), data |-> x.data \o Slice(w, k, k + m2)]
    BY <1>9, <2>1, <2>2 DEF TakeFront
  <2>4. Append(x.bufs, Slice(w, k + m2, q)) = <<Slice(w, p + m1, k), Slice(w, k + m2, q)>>
    BY ONLY <1>8, Pair
  <2> QED
    BY <1>8, <2>3, <2>4
<1>11. IovAdvance(bufs, n) = y
  BY <1>2, <1>7, <1>9, AdvanceTwo
<1>12. CASE n < k - p
  <2>1. m1 = n /\ m2 = 0 /\ m = n /\ p + m <= k
    BY <1>d, <1>5, <1>r, <1>6, <1>12 DEF Smaller
  <2>2. k + m2 = k /\ p + m1 = p + m
    BY ONLY <2>1, k \in Nat
  <2>3. Places(w, p + m, k, q)
    BY <1>3, <2>1 DEF Places
  <2>4. y.bufs = Window(w, p + m, k, q)
    BY <1>10, <2>2 DEF Window
  <2>5. y.data = Slice(w, p, p + m)
    <3>1. IsSeq(Slice(w, p, p + m))
      <4>1. p <= p + m /\ p + m <= Len(w) /\ p + m \in Nat
        BY <1>3, <2>1
      <4>2. Spans(w, p, p + m)
        BY <1>3, <4>1 DEF Spans
      <4> QED
        BY <4>1, <4>2, SliceLen
    <3>2. Slice(w, k, k) = <<>>
      BY ONLY NoSlice, k \in Nat
    <3>3. Slice(w, p, p + m) \o <<>> = Slice(w, p, p + m)
      BY ONLY <3>1, EmptyJoins
    <3>4. y.data = Slice(w, p, p + m1) \o Slice(w, k, k + m2)
      BY ONLY <1>10
    <3> QED
      BY ONLY <2>2, <3>2, <3>3, <3>4
  <2> QED
    BY <1>1, <1>10, <1>11, <2>3, <2>4, <2>5
<1>13. CASE ~(n < k - p)
  <2>0. m1 = d /\ m = d + m2
    BY <1>d, <1>5, <1>r, <1>6, <1>13 DEF Smaller
  <2>1. PICK j \in Nat : j = k + m2 /\ p + m1 = k /\ p + m = j /\ j <= q /\ k <= j
    BY ONLY <1>d, <1>6, <2>0, p \in Nat, d \in Nat, e \in Nat, m2 \in Nat
  <2>2. Places(w, j, j, q)
    BY <1>3, <2>1 DEF Places
  <2>3. y.bufs = Window(w, j, j, q)
    <3>1. Slice(w, k, k) = <<>> /\ Slice(w, j, j) = <<>>
      BY NoSlice
    <3> QED
      BY <1>10, <2>1, <3>1 DEF Window
  <2>4. y.data = Slice(w, p, j)
    <3>1. IsSeq(w) /\ p <= k /\ k <= j /\ j <= Len(w)
      BY <1>3, <2>1
    <3>2. Slice(w, p, k) \o Slice(w, k, j) = Slice(w, p, j)
      BY ONLY <3>1, SlicesJoin, p \in Nat, k \in Nat, j \in Nat
    <3> QED
      BY <1>10, <2>1, <3>2
  <2> QED
    BY <1>1, <1>10, <1>11, <2>1, <2>2, <2>3, <2>4
<1> QED
  BY <1>12, <1>13

Reversed(bufs, w, p, m, j, q, n) ==
  Places(w, p, j, q - m) /\ IovReverse(bufs, n).bufs = Window(w, p, j, q - m)

LEMMA WindowReverse ==
  ASSUME NEW w, NEW p \in Nat, NEW k \in Nat, NEW q \in Nat, Places(w, p, k, q),
         NEW n \in Nat, NEW m \in Nat, m = Smaller(q - p, n)
  PROVE  \E j \in Nat : Reversed(Window(w, p, k, q), w, p, m, j, q, n)
<1> USE DEF Reversed
<1>1. PICK bufs, a, b : bufs = Window(w, p, k, q) /\ a = Slice(w, p, k) /\ b = Slice(w, k, q)
  OBVIOUS
<1>2. Len(bufs) = 2 /\ bufs[1] = a /\ bufs[2] = b
  BY <1>1 DEF Window
<1>3. IsSeq(w) /\ p <= k /\ k <= q /\ q <= Len(w) /\ k <= Len(w) /\ Len(w) \in Nat
  BY DEF Places, IsSeq
<1>s. Spans(w, p, k) /\ Spans(w, k, q)
  BY <1>3 DEF Spans
<1>4. Len(a) = k - p /\ Len(b) = q - k
  BY <1>1, <1>s, SliceLen
<1>d. PICK d \in Nat, e \in Nat : d = k - p /\ e = q - k /\ k = p + d /\ q = p + d + e
                              /\ q - p = d + e
  BY ONLY <1>3, p \in Nat, k \in Nat, q \in Nat
<1>50. /\ Smaller(e, n) \in Nat /\ Smaller(e, n) <= e /\ Smaller(e, n) <= n
      /\ (Smaller(e, n) = e \/ Smaller(e, n) = n)
  BY ONLY e \in Nat, n \in Nat, SmallerIs
<1>5. PICK m2 \in Nat : m2 = Smaller(e, n) /\ m2 <= e /\ m2 <= n /\ (m2 = e \/ m2 = n)
  BY <1>50
<1>r. PICK r \in Nat : r = n - m2
  BY ONLY <1>5, n \in Nat, m2 \in Nat
<1>60. /\ Smaller(d, r) \in Nat /\ Smaller(d, r) <= d /\ Smaller(d, r) <= r
      /\ (Smaller(d, r) = d \/ Smaller(d, r) = r)
  BY ONLY d \in Nat, r \in Nat, SmallerIs
<1>6. PICK m1 \in Nat : m1 = Smaller(d, r) /\ m1 <= d /\ m1 <= r /\ (m1 = d \/ m1 = r)
  BY <1>60
<1>7. PICK x : x = TakeBack(Untaken, b, n)
  OBVIOUS
<1>8. x.bufs = <<Slice(w, k, q - m2)>> /\ Len(x.data) = m2
  <2>1. Taker(Untaken, b, n) = m2
    <3>1. Len(Untaken.data) = 0
      BY EmptyIs DEF Untaken
    <3>2. n - 0 = n
      OBVIOUS
    <3> QED
      BY <1>4, <1>d, <1>5, <3>1, <3>2 DEF Taker
  <2>2. PICK l \in Nat : l = (q - k) - m2 /\ l <= q - k /\ k + l = q - m2
    BY ONLY <1>3, <1>d, <1>5, q \in Nat, k \in Nat, e \in Nat, m2 \in Nat
  <2>c. Cut(w, k, q, l)
    BY <1>s, <2>2 DEF Cut
  <2>3. From(b, l) = Slice(w, k + l, q) /\ SubSeq(b, 1, l) = Slice(w, k, k + l)
    <3>1. Halves(Slice(w, k, q), w, k, q, l)
      BY ONLY <2>c, SliceCuts, q \in Nat, k \in Nat, l \in Nat
    <3> QED
      BY ONLY <1>1, <3>1 DEF Halves
  <2>4. x = [bufs |-> <<Slice(w, k, k + l)>> \o <<>>, data |-> Slice(w, k + l, q) \o <<>>]
    BY <1>4, <1>7, <2>1, <2>2, <2>3 DEF TakeBack, Untaken
  <2>5. IsSeq(Slice(w, k + l, q)) /\ Len(Slice(w, k + l, q)) = m2
    <3>1. k + l \in Nat /\ k + l <= q /\ q - (k + l) = m2
      BY <1>3, <2>2
    <3>s. Spans(w, k + l, q)
      BY <1>3, <3>1 DEF Spans
    <3>2. IsSeq(Slice(w, k + l, q)) /\ Len(Slice(w, k + l, q)) = q - (k + l)
      BY <3>1, <3>s, SliceLen
    <3> QED
      BY ONLY <3>1, <3>2
  <2>6. IsSeq(<<Slice(w, k, k + l)>>)
    BY OneIs
  <2> QED
    BY <2>2, <2>4, <2>5, <2>6, EmptyJoins
<1>9. PICK y : y = TakeBack(x, a, n)
  OBVIOUS
<1>10. y.bufs = <<Slice(w, p, k - m1), Slice(w, k, q - m2)>>
  <2>1. Taker(x, a, n) = m1
    BY <1>4, <1>d, <1>r, <1>6, <1>8 DEF Taker
  <2>2. PICK l \in Nat : l = (k - p) - m1 /\ l <= k - p /\ p + l = k - m1
    BY ONLY <1>3, <1>d, <1>6, p \in Nat, k \in Nat, d \in Nat, m1 \in Nat
  <2>c. Cut(w, p, k, l)
    BY <1>s, <2>2 DEF Cut
  <2>3. SubSeq(a, 1, l) = Slice(w, p, p + l)
    <3>1. Halves(Slice(w, p, k), w, p, k, l)
      BY ONLY <2>c, SliceCuts, p \in Nat, k \in Nat, l \in Nat
    <3> QED
      BY ONLY <1>1, <3>1 DEF Halves
  <2>4. y.bufs = <<SubSeq(a, 1, l)>> \o x.bufs
    BY <1>4, <1>9, <2>1, <2>2 DEF TakeBack
  <2> QED
    BY ONLY <1>8, <2>2, <2>3, <2>4, Pair
<1>11. IovReverse(bufs, n) = y
  BY <1>2, <1>7, <1>9, ReverseTwo
<1>12. CASE n < q - k
  <2>1. m2 = n /\ m1 = 0 /\ m = n /\ k <= q - m /\ q - m <= q
    BY <1>d, <1>5, <1>r, <1>6, <1>12 DEF Smaller
  <2>2. k - m1 = k /\ q - m2 = q - m
    BY ONLY <2>1, k \in Nat
  <2>3. Places(w, p, k, q - m)
    BY <1>3, <2>1 DEF Places
  <2>4. y.bufs = Window(w, p, k, q - m)
    BY <1>10, <2>2 DEF Window
  <2> QED
    BY <1>1, <1>11, <2>3, <2>4
<1>13. CASE ~(n < q - k)
  <2>0. m2 = e /\ m = e + m1
    BY <1>d, <1>5, <1>r, <1>6, <1>13 DEF Smaller
  <2>1. PICK j \in Nat : j = k - m1 /\ q - m2 = k /\ q - m = j /\ p <= j /\ j <= k
    BY ONLY <1>d, <1>6, <2>0, p \in Nat, d \in Nat, e \in Nat, m1 \in Nat
  <2>2. Places(w, p, j, j)
    BY <1>3, <2>1 DEF Places
  <2>3. y.bufs = Window(w, p, j, j)
    <3>1. Slice(w, k, k) = <<>> /\ Slice(w, j, j) = <<>>
      BY NoSlice
    <3> QED
      BY <1>10, <2>1, <3>1 DEF Window
  <2> QED
    BY <1>1, <1>11, <2>1, <2>2, <2>3
<1> QED
  BY <1>12, <1>13

-----------------------------------------------------------------------------
(***************************************************************************)
(* roce_net_decap takes the headers from their places in the frame.        *)
(***************************************************************************)
Decoded == {"vnet", "eth", "ip", "options", "udp", "bth", "bufs", "ok"}
Undecoded(bufs) ==
  [vnet |-> <<>>, eth |-> <<>>, ip |-> <<>>, options |-> <<>>, udp |-> <<>>,
   bth |-> <<>>, bufs |-> bufs, ok |-> TRUE]

Stages(bufs, d0, d1, d2, d3, d4, d5, d6) ==
  /\ d0 = Undecoded(bufs)
  /\ d1 = TakeHeader(d0, "vnet") /\ d2 = TakeHeader(d1, "eth")
  /\ d3 = TakeHeader(d2, "ip") /\ d4 = TakeHeader(d3, "options")
  /\ d5 = TakeHeader(d4, "udp") /\ d6 = TakeHeader(d5, "bth")
  /\ Decap(bufs) = IF d6.ok /\ Genuine(d6, IovReverse(d6.bufs, 1))
                   THEN [d6 EXCEPT !.ip = Masked(@), !.bufs = IovReverse(d6.bufs, 1).bufs]
                   ELSE [d6 EXCEPT !.ok = FALSE]

LEMMA SixHeaders ==
  ASSUME NEW bufs
  PROVE  \E d0, d1, d2, d3, d4, d5, d6 : Stages(bufs, d0, d1, d2, d3, d4, d5, d6)
<1> DEFINE T(x, k) == TakeHeader(x, Headers[k])
           Builds(f) == f = [k \in 0 .. Len(Headers) |->
                               IF k = 0 THEN Undecoded(bufs) ELSE T(f[k - 1], k)]
           d == (CHOOSE h : Builds(h))[Len(Headers)]
<1>1. Decap(bufs) = IF d.ok /\ Genuine(d, IovReverse(d.bufs, 1))
                    THEN [d EXCEPT !.ip = Masked(@), !.bufs = IovReverse(d.bufs, 1).bufs]
                    ELSE [d EXCEPT !.ok = FALSE]
  BY DEF Decap, Loop, Undecoded
<1>2. /\ Len(Headers) = 6
      /\ Headers[1] = "vnet" /\ Headers[2] = "eth" /\ Headers[3] = "ip"
      /\ Headers[4] = "options" /\ Headers[5] = "udp" /\ Headers[6] = "bth"
  BY DEF Headers
<1> HIDE DEF T
<1>3. PICK e0, e1, e2, e3, e4, e5, e6 :
        /\ e0 = Undecoded(bufs) /\ e1 = T(e0, 1) /\ e2 = T(e1, 2) /\ e3 = T(e2, 3)
        /\ e4 = T(e3, 4) /\ e5 = T(e4, 5) /\ e6 = T(e5, 6)
  OBVIOUS
<1>4. PICK f : f = [k \in 0 .. 6 |-> IF k = 0 THEN e0 ELSE IF k = 1 THEN e1
                                     ELSE IF k = 2 THEN e2 ELSE IF k = 3 THEN e3
                                     ELSE IF k = 4 THEN e4 ELSE IF k = 5 THEN e5 ELSE e6]
  OBVIOUS
<1>5. Builds(f)
  <2>1. /\ f[0] = e0 /\ f[1] = e1 /\ f[2] = e2 /\ f[3] = e3 /\ f[4] = e4 /\ f[5] = e5
        /\ f[6] = e6
    BY <1>4
  <2>2. ASSUME NEW k \in 0 .. 6
        PROVE  f[k] = IF k = 0 THEN Undecoded(bufs) ELSE T(f[k - 1], k)
    <3>1. k = 0 \/ k = 1 \/ k = 2 \/ k = 3 \/ k = 4 \/ k = 5 \/ k = 6
      OBVIOUS
    <3> QED
      BY <1>3, <2>1, <3>1
  <2>3. f = [k \in 0 .. 6 |-> f[k]]
    BY <1>4
  <2> QED
    BY <1>2, <2>2, <2>3
<1>6. PICK g : g = (CHOOSE h : Builds(h)) /\ Builds(g)
  <2> HIDE DEF Builds
  <2> QED
    BY <1>5
<1>7. \A k \in 0 .. 6 : g[k] = IF k = 0 THEN Undecoded(bufs) ELSE T(g[k - 1], k)
  BY <1>2, <1>6
<1>8. /\ g[0] = Undecoded(bufs) /\ g[1] = T(g[0], 1) /\ g[2] = T(g[1], 2) /\ g[3] = T(g[2], 3)
      /\ g[4] = T(g[3], 4) /\ g[5] = T(g[4], 5) /\ g[6] = T(g[5], 6)
  BY <1>7
<1>9. d = g[6]
  <2>1. Len(Headers) = 6
    BY <1>2
  <2>2. g = (CHOOSE h : Builds(h))
    BY <1>6
  <2> HIDE DEF Builds
  <2> QED
    BY ONLY <2>1, <2>2
<1> HIDE DEF Builds, d
<1>10. /\ T(g[0], 1) = TakeHeader(g[0], "vnet") /\ T(g[1], 2) = TakeHeader(g[1], "eth")
       /\ T(g[2], 3) = TakeHeader(g[2], "ip") /\ T(g[3], 4) = TakeHeader(g[3], "options")
       /\ T(g[4], 5) = TakeHeader(g[4], "udp") /\ T(g[5], 6) = TakeHeader(g[5], "bth")
  BY <1>2 DEF T
<1>11. Stages(bufs, g[0], g[1], g[2], g[3], g[4], g[5], g[6])
  BY <1>1, <1>8, <1>9, <1>10 DEF Stages
<1> QED
  BY <1>11

UnitsOf(s, w, x, y) == IsSeq(s) /\ Len(s) = y - x /\ \A i \in 1 .. y - x : s[i] = w[x + i]

LEMMA UnitsBehind ==
  ASSUME NEW w, NEW x \in Nat, NEW y \in Nat, NEW j \in Nat, NEW q \in Nat,
         x <= y, Places(w, y, j, q)
  PROVE  UnitsOf(Slice(w, x, y), w, x, y)
<1>1. IsSeq(w) /\ y <= Len(w)
  <2>1. IsSeq(w) /\ y <= j /\ j <= q /\ q <= Len(w) /\ Len(w) \in Nat
    BY DEF Places, IsSeq
  <2> QED
    BY ONLY <2>1, y \in Nat, j \in Nat, q \in Nat
<1>2. PICK s : s = Slice(w, x, y)
  OBVIOUS
<1>3. IsSeq(s) /\ Len(s) = y - x /\ \A i \in 1 .. y - x : s[i] = w[x + i]
  BY <1>1, <1>2, SliceIs
<1> QED
  BY ONLY <1>2, <1>3 DEF UnitsOf

\* Header h, of n units, is taken from the window p .. q: t is d after it.
Taking1(d, h, n, w, p, q, t) ==
  \E m \in Nat, j \in Nat :
    /\ m = Smaller(q - p, n) /\ Places(w, p + m, j, q)
    /\ t.bufs = Window(w, p + m, j, q) /\ t[h] = Slice(w, p, p + m)
    /\ h # "options" => m = n
    /\ DOMAIN t = Decoded
    /\ \A x \in Decoded \ {h, "bufs", "ok"} : t[x] = d[x]

LEMMA HeaderTaken ==
  ASSUME NEW w, NEW p \in Nat, NEW k \in Nat, NEW q \in Nat, Places(w, p, k, q),
         NEW d, DOMAIN d = Decoded, d.bufs = Window(w, p, k, q),
         NEW h \in Decoded \ {"bufs", "ok"},
         NEW n \in Nat, n = HeaderLen(d, h), NEW t, t = TakeHeader(d, h), d.ok, t.ok
  PROVE  Taking1(d, h, n, w, p, q, t)
<1>1. PICK l \in Nat : l = q - p
  BY DEF Places
<1>2. PICK m \in Nat : m = Smaller(l, n)
  BY SmallerIs
<1>a. PICK j \in Nat : Advanced(Window(w, p, k, q), w, p, m, j, q, n)
  <2>1. m = Smaller(q - p, n)
    BY <1>1, <1>2
  <2> QED
    BY ONLY <2>1, WindowAdvance, Places(w, p, k, q), w = w, p \in Nat, k \in Nat, q \in Nat,
            n \in Nat, m \in Nat
<1>3. /\ Places(w, p + m, j, q)
      /\ IovAdvance(d.bufs, n) = [bufs |-> Window(w, p + m, j, q), data |-> Slice(w, p, p + m)]
  BY <1>a DEF Advanced
<1>4. PICK data, bufs : data = Slice(w, p, p + m) /\ bufs = Window(w, p + m, j, q)
  OBVIOUS
<1>5. PICK ok : /\ t = [d EXCEPT ![h] = data, !.bufs = bufs, !.ok = ok]
                /\ ok /\ h # "options" => Len(data) = n
  <2>1. PICK adv : adv = IovAdvance(d.bufs, HeaderLen(d, h))
    OBVIOUS
  <2>2. adv.data = data /\ adv.bufs = bufs
    BY <1>3, <1>4, <2>1
  <2>3. PICK ok : ok = CASE h = "options" -> Len(adv.data) <= IhlWords
                         [] h = "eth" -> Len(adv.data) = HeaderLen(d, h) /\ adv.data[1].mac = Mac
                         [] OTHER -> Len(adv.data) = HeaderLen(d, h)
    OBVIOUS
  <2>4. t = [d EXCEPT ![h] = adv.data, !.bufs = adv.bufs, !.ok = ok]
    BY <2>1, <2>3 DEF TakeHeader
  <2>5. ok /\ h # "options" => Len(data) = n
    BY <2>2, <2>3
  <2> QED
    BY <2>2, <2>4, <2>5
<1>6. /\ DOMAIN t = Decoded /\ t[h] = data /\ t.bufs = bufs
      /\ h # "options" => Len(data) = n
      /\ \A x \in Decoded \ {h, "bufs", "ok"} : t[x] = d[x]
  BY <1>5 DEF Decoded
<1>7. h # "options" => m = n
  <2>1. IsSeq(w) /\ p <= p + m /\ p + m <= Len(w) /\ (p + m) - p = m /\ p + m \in Nat
    BY <1>3 DEF Places, IsSeq
  <2>2. Spans(w, p, p + m)
    BY <2>1 DEF Spans
  <2>3. Len(data) = (p + m) - p
    BY ONLY <1>4, <2>1, <2>2, SliceLen, p \in Nat
  <2> QED
    BY <1>6, <2>1, <2>3
<1>8. m = Smaller(q - p, n)
  BY <1>1, <1>2
<1> QED
  BY ONLY <1>3, <1>4, <1>6, <1>7, <1>8, m \in Nat, j \in Nat DEF Taking1

\* What roce_recv_bth gets of a frame: the BTH at position t, and the buffers behind it.
Arrived(w, d, t, j, q) ==
  /\ Places(w, t, j, q) /\ d.bufs = Window(w, t, j, q)
  /\ d.bth[1] = w[t] /\ w[t].padcnt \in Nat
  /\ t < q /\ w[t].type = "UD" => w[t + 1].src \in Nat
  /\ IsSeq(d.ip)

LEMMA MaskedIsSeq == ASSUME NEW ip, IsSeq(ip) PROVE IsSeq(Masked(ip))
<1>1. PICK n \in Nat : n = Len(ip) /\ DOMAIN ip = 1 .. n
  BY DEF IsSeq
<1>2. PICK m : m = Masked(ip)
  OBVIOUS
<1>3. DOMAIN m = 1 .. n /\ m = [i \in DOMAIN m |-> m[i]]
  BY <1>1, <1>2 DEF Masked
<1> QED
  BY <1>2, <1>3, FunctionIsSeq

LEMMA Decapped ==
  ASSUME NEW w, Shaped(w), NEW cut \in Nat, cut <= Len(w),
         NEW d, d = Decap(<<SubSeq(w, 1, cut), From(w, cut)>>), d.ok
  PROVE  \E t \in Nat, j \in Nat, q \in Nat : Arrived(w, d, t, j, q)
<1>1. PICK len \in Nat : len = Len(w)
  BY DEF Shaped, IsSeq
<1>2. PICK bufs : bufs = Window(w, 0, cut, len)
  OBVIOUS
<1>3. <<SubSeq(w, 1, cut), From(w, cut)>> = bufs
  BY <1>1, <1>2 DEF Window, Slice, From
<1>4. PICK d0, d1, d2, d3, d4, d5, d6 : Stages(bufs, d0, d1, d2, d3, d4, d5, d6)
  BY SixHeaders
<1>5. \/ d6.ok /\ d = [d6 EXCEPT !.ip = Masked(@), !.bufs = IovReverse(d6.bufs, 1).bufs]
      \/ d = [d6 EXCEPT !.ok = FALSE]
  BY <1>3, <1>4 DEF Stages
<1> DEFINE Field(x) == x \in Decoded \ {"bufs", "ok"}
<1>6. Field("vnet") /\ Field("eth") /\ Field("ip") /\ Field("options") /\ Field("udp")
      /\ Field("bth")
  BY DEF Decoded
<1>7. DOMAIN d0 = Decoded /\ d0.bufs = bufs
  BY <1>4 DEF Stages, Undecoded, Decoded
<1>8. Places(w, 0, cut, len)
  <2>1. IsSeq(w)
    BY DEF Shaped
  <2> QED
    BY ONLY <1>1, <2>1, cut \in Nat, cut <= Len(w) DEF Places
<1>9. ASSUME NEW x, NEW h, NEW y, y = TakeHeader(x, h)
      PROVE  (~x.ok => ~y.ok) /\ (DOMAIN x = Decoded => DOMAIN y = Decoded)
  <2>1. ~x.ok => ~y.ok
    BY ONLY <1>9 DEF TakeHeader
  <2>2. DOMAIN x = Decoded => DOMAIN y = Decoded
    BY ONLY <1>9 DEF TakeHeader
  <2> QED
    BY ONLY <2>1, <2>2
<1>10. /\ d1 = TakeHeader(d0, "vnet") /\ d2 = TakeHeader(d1, "eth")
       /\ d3 = TakeHeader(d2, "ip") /\ d4 = TakeHeader(d3, "options")
       /\ d5 = TakeHeader(d4, "udp") /\ d6 = TakeHeader(d5, "bth")
  BY <1>4 DEF Stages
<1>11. d0.ok /\ d1.ok /\ d2.ok /\ d3.ok /\ d4.ok /\ d5.ok /\ d6.ok /\ DOMAIN d6 = Decoded
  <2>1. DOMAIN d6 = Decoded
    BY ONLY <1>7, <1>9, <1>10
  <2>2. d6.ok
    BY <1>5, <2>1 DEF Decoded
  <2> QED
    BY ONLY <1>9, <1>10, <2>1, <2>2
<1>12. VnetHdr \in Nat /\ 0 \in Nat /\ 1 \in Nat
  BY FramesAssumption
\* The vnet header.
<1>13. PICK p1 \in Nat, j1 \in Nat :
         /\ p1 = VnetHdr /\ Places(w, p1, j1, len)
         /\ d1.bufs = Window(w, p1, j1, len) /\ DOMAIN d1 = Decoded
  <2>1. HeaderLen(d0, "vnet") = VnetHdr
    BY DEF HeaderLen
  <2>2. Taking1(d0, "vnet", VnetHdr, w, 0, len, d1)
    BY ONLY <1>2, <1>6, <1>7, <1>8, <1>10, <1>11, <1>12, <2>1, HeaderTaken, cut \in Nat,
            len \in Nat
  <2> QED
    BY <2>2 DEF Taking1
\* The Ethernet header.
<1>14. PICK p2 \in Nat, j2 \in Nat :
         /\ p2 = p1 + 1 /\ Places(w, p2, j2, len)
         /\ d2.bufs = Window(w, p2, j2, len) /\ DOMAIN d2 = Decoded
         /\ d2.eth = Slice(w, p1, p2)
  <2>1. HeaderLen(d1, "eth") = 1
    BY DEF HeaderLen
  <2>2. Taking1(d1, "eth", 1, w, p1, len, d2)
    BY ONLY <1>6, <1>10, <1>11, <1>12, <1>13, <2>1, HeaderTaken, len \in Nat
  <2> QED
    BY <2>2 DEF Taking1
<1>15. d2.eth[1] = w[p2]
  <2>1. Len(d2.eth) = 1 /\ \A i \in 1 .. 1 : d2.eth[i] = w[p1 + i]
    <3>1. p1 <= p2 /\ p2 - p1 = 1
      BY <1>14
    <3>2. UnitsOf(Slice(w, p1, p2), w, p1, p2)
      BY ONLY <1>14, <3>1, UnitsBehind, p1 \in Nat, p2 \in Nat, j2 \in Nat, len \in Nat
    <3> QED
      BY ONLY <1>14, <3>1, <3>2 DEF UnitsOf
  <2> QED
    BY <1>14, <2>1
\* The IP header.
<1>16. PICK n \in Nat : n = (IF w[p2].family = "v4" THEN 1 ELSE 2) /\ n \in {1, 2}
  OBVIOUS
<1>17. PICK p3 \in Nat, j3 \in Nat :
         /\ p3 = p2 + n /\ Places(w, p3, j3, len)
         /\ d3.bufs = Window(w, p3, j3, len) /\ DOMAIN d3 = Decoded
         /\ d3.ip = Slice(w, p2, p3) /\ d3.eth = d2.eth
  <2>1. HeaderLen(d2, "ip") = n
    BY <1>15, <1>16 DEF HeaderLen
  <2>2. Taking1(d2, "ip", n, w, p2, len, d3)
    BY ONLY <1>6, <1>10, <1>11, <1>14, <2>1, HeaderTaken, len \in Nat, n \in Nat
  <2>3. d3.eth = d2.eth
    <3>1. "eth" \in Decoded \ {"ip", "bufs", "ok"}
      BY DEF Decoded
    <3> QED
      BY <2>2, <3>1 DEF Taking1
  <2> QED
    BY <2>2, <2>3 DEF Taking1
<1>18. IsSeq(d3.ip) /\ d3.ip[1] = w[p2 + 1] /\ p2 + 1 <= len
  <2>0. p2 <= p3
    BY ONLY <1>17, p2 \in Nat, n \in Nat
  <2>1. p3 <= len
    BY <1>17 DEF Places
  <2>2. IsSeq(d3.ip) /\ \A i \in 1 .. p3 - p2 : d3.ip[i] = w[p2 + i]
    <3>1. UnitsOf(Slice(w, p2, p3), w, p2, p3)
      BY ONLY <1>17, <2>0, UnitsBehind, p2 \in Nat, p3 \in Nat, j3 \in Nat, len \in Nat
    <3> QED
      BY ONLY <1>17, <3>1 DEF UnitsOf
  <2>3. 1 \in 1 .. p3 - p2 /\ p2 + 1 <= p3
    BY ONLY <1>16, <1>17, p2 \in Nat, p3 \in Nat
  <2> QED
    BY ONLY <2>1, <2>2, <2>3, p2 \in Nat, p3 \in Nat, len \in Nat
\* Its options.
<1>19. PICK ihl \in Nat :
         ihl = IF w[p2].family = "v4" THEN OptionsLen(w[p2 + 1]) ELSE 0
  <2>1. (VnetHdr + 1) + 1 = p2 + 1
    BY ONLY <1>12, <1>13, <1>14
  <2>2. w[p2 + 1].ihl \in Nat
    BY <1>1, <1>18, <2>1 DEF Shaped
  <2>3. OptionsLen(w[p2 + 1]) \in Nat
    BY ONLY <2>2 DEF OptionsLen, MinIhl, LenWords
  <2> QED
    BY <2>3
<1>20. PICK m4 \in Nat, p4 \in Nat, j4 \in Nat :
         /\ m4 = Smaller(len - p3, ihl) /\ p4 = p3 + m4 /\ Places(w, p4, j4, len)
         /\ d4.bufs = Window(w, p4, j4, len) /\ DOMAIN d4 = Decoded /\ d4.ip = d3.ip
  <2>1. HeaderLen(d3, "options") = ihl
    BY <1>15, <1>17, <1>18, <1>19 DEF HeaderLen
  <2>2. Taking1(d3, "options", ihl, w, p3, len, d4)
    BY ONLY <1>6, <1>10, <1>11, <1>17, <2>1, HeaderTaken, len \in Nat, ihl \in Nat
  <2>3. "ip" \in Decoded \ {"options", "bufs", "ok"}
    BY DEF Decoded
  <2>4. d4.ip = d3.ip
    BY <2>2, <2>3 DEF Taking1
  <2>5. PICK m \in Nat, j \in Nat :
          /\ m = Smaller(len - p3, ihl) /\ Places(w, p3 + m, j, len)
          /\ d4.bufs = Window(w, p3 + m, j, len) /\ DOMAIN d4 = Decoded
    BY <2>2 DEF Taking1
  <2>6. PICK p \in Nat : p = p3 + m
    OBVIOUS
  <2>7. Places(w, p, j, len) /\ d4.bufs = Window(w, p, j, len)
    BY ONLY <2>5, <2>6
  <2> WITNESS m \in Nat, p \in Nat, j \in Nat
  <2> QED
    BY ONLY <2>4, <2>5, <2>6, <2>7
\* The UDP header.
<1>21. PICK p5 \in Nat, j5 \in Nat :
         /\ p5 = p4 + 1 /\ Places(w, p5, j5, len)
         /\ d5.bufs = Window(w, p5, j5, len) /\ DOMAIN d5 = Decoded /\ d5.ip = d4.ip
  <2>1. HeaderLen(d4, "udp") = 1
    BY DEF HeaderLen
  <2>2. Taking1(d4, "udp", 1, w, p4, len, d5)
    BY ONLY <1>6, <1>10, <1>11, <1>12, <1>20, <2>1, HeaderTaken, len \in Nat
  <2>3. "ip" \in Decoded \ {"udp", "bufs", "ok"}
    BY DEF Decoded
  <2>4. d5.ip = d4.ip
    BY <2>2, <2>3 DEF Taking1
  <2>5. PICK m \in Nat, j \in Nat :
          /\ m = 1 /\ Places(w, p4 + m, j, len)
          /\ d5.bufs = Window(w, p4 + m, j, len) /\ DOMAIN d5 = Decoded
    BY <2>2 DEF Taking1
  <2>6. PICK p \in Nat : p = p4 + m
    OBVIOUS
  <2>7. Places(w, p, j, len) /\ d5.bufs = Window(w, p, j, len)
    BY ONLY <2>5, <2>6
  <2>8. p = p4 + 1
    BY ONLY <2>5, <2>6
  <2> WITNESS p \in Nat, j \in Nat
  <2> QED
    BY ONLY <2>4, <2>5, <2>7, <2>8
\* The BTH.
<1>22. PICK p6 \in Nat, j6 \in Nat :
         /\ p6 = p5 + 1 /\ Places(w, p6, j6, len)
         /\ d6.bufs = Window(w, p6, j6, len) /\ d6.ip = d5.ip
         /\ d6.bth = Slice(w, p5, p6)
  <2>1. HeaderLen(d5, "bth") = 1
    BY DEF HeaderLen
  <2>2. Taking1(d5, "bth", 1, w, p5, len, d6)
    BY ONLY <1>6, <1>10, <1>11, <1>12, <1>21, <2>1, HeaderTaken, len \in Nat
  <2>3. "ip" \in Decoded \ {"bth", "bufs", "ok"}
    BY DEF Decoded
  <2>4. d6.ip = d5.ip
    BY <2>2, <2>3 DEF Taking1
  <2>5. PICK m \in Nat, j \in Nat :
          /\ m = 1 /\ Places(w, p5 + m, j, len)
          /\ d6.bufs = Window(w, p5 + m, j, len) /\ d6.bth = Slice(w, p5, p5 + m)
    BY <2>2 DEF Taking1
  <2>6. PICK p \in Nat : p = p5 + m
    OBVIOUS
  <2>7. /\ Places(w, p, j, len) /\ d6.bufs = Window(w, p, j, len)
        /\ d6.bth = Slice(w, p5, p)
    BY ONLY <2>5, <2>6
  <2>8. p = p5 + 1
    BY ONLY <2>5, <2>6
  <2> WITNESS p \in Nat, j \in Nat
  <2> QED
    BY ONLY <2>4, <2>5, <2>7, <2>8
<1>23. d6.bth[1] = w[p6]
  <2>1. p5 <= p6 /\ p6 - p5 = 1
    BY <1>22
  <2>2. UnitsOf(Slice(w, p5, p6), w, p5, p6)
    BY ONLY <1>22, <2>1, UnitsBehind, p5 \in Nat, p6 \in Nat, j6 \in Nat, len \in Nat
  <2>3. \A i \in 1 .. p6 - p5 : d6.bth[i] = w[p5 + i]
    BY ONLY <1>22, <2>2 DEF UnitsOf
  <2>4. 1 \in 1 .. p6 - p5
    BY ONLY <2>1, p5 \in Nat, p6 \in Nat
  <2>5. d6.bth[1] = w[p5 + 1]
    BY ONLY <2>3, <2>4
  <2> QED
    BY ONLY <1>22, <2>5
\* The options were there in full, so the BTH is where the frame has it.
<1>24. p6 = p3 + ihl + 2 /\ p6 <= len
  <2>1. p4 + 1 <= len /\ p6 <= len
    BY <1>1, <1>21, <1>22 DEF Places
  <2>2. m4 = Smaller(len - p3, ihl) /\ p4 = p3 + m4
    BY <1>20
  <2>3. m4 = ihl
    BY ONLY <2>1, <2>2, p3 \in Nat, p4 \in Nat, m4 \in Nat, ihl \in Nat, len \in Nat
    DEF Smaller
  <2>4. p5 = p4 + 1 /\ p6 = p5 + 1
    BY <1>21, <1>22
  <2> QED
    BY ONLY <2>1, <2>2, <2>3, <2>4, p3 \in Nat, p4 \in Nat, ihl \in Nat
<1>25. /\ w[p6].padcnt \in Nat
       /\ p6 < len /\ w[p6].type = "UD" => w[p6 + 1].src \in Nat
  <2> DEFINE eth == VnetHdr + 1
             ip == eth + 1
             udp == IF w[eth].family = "v4" THEN ip + 1 + OptionsLen(w[ip]) ELSE ip + 2
             bth == udp + 1
  <2>1. /\ ip <= Len(w) /\ bth <= Len(w) => w[bth].padcnt \in Nat
        /\ ip <= Len(w) /\ bth < Len(w) /\ w[bth].type = "UD" => w[bth + 1].src \in Nat
    BY DEF Shaped
  <2>2. eth = p2 /\ ip = p2 + 1
    BY ONLY <1>12, <1>13, <1>14
  <2>3. udp = p3 + 1 + ihl
    <3>1. CASE w[p2].family = "v4"
      <4>1. n = 1 /\ ihl = OptionsLen(w[p2 + 1])
        BY <1>16, <1>19, <3>1
      <4>2. udp = p2 + 1 + 1 + ihl
        BY ONLY <2>2, <3>1, <4>1
      <4> QED
        BY ONLY <1>17, <4>1, <4>2, p2 \in Nat, p3 \in Nat, ihl \in Nat
    <3>2. CASE w[p2].family # "v4"
      <4>1. n = 2 /\ ihl = 0
        BY <1>16, <1>19, <3>2
      <4>2. udp = p2 + 1 + 2
        BY ONLY <2>2, <3>2
      <4> QED
        BY ONLY <1>17, <4>1, <4>2, p2 \in Nat, p3 \in Nat, ihl \in Nat
    <3> QED
      BY <3>1, <3>2
  <2> HIDE DEF eth, ip, udp
  <2>5. bth = p6
    BY ONLY <1>24, <2>3, p3 \in Nat, p6 \in Nat, ihl \in Nat
  <2> HIDE DEF bth
  <2>6. ip <= Len(w) /\ bth <= Len(w) /\ Len(w) = len
    BY <1>1, <1>18, <1>24, <2>2, <2>5
  <2> QED
    BY ONLY <2>1, <2>5, <2>6
\* The ICRC.
<1>26. PICK m \in Nat : m = Smaller(len - p6, 1) /\ m <= len - p6
  <2>1. len - p6 \in Nat
    BY ONLY <1>24, len \in Nat, p6 \in Nat
  <2>2. Smaller(len - p6, 1) \in Nat /\ Smaller(len - p6, 1) <= len - p6
    BY ONLY <2>1, <1>12, SmallerIs
  <2> QED
    BY ONLY <2>2
<1>27. PICK q \in Nat : q = len - m /\ q <= len
  BY ONLY <1>24, <1>26, len \in Nat, p6 \in Nat, m \in Nat
<1>28. PICK j \in Nat : Places(w, p6, j, q) /\ IovReverse(d6.bufs, 1).bufs = Window(w, p6, j, q)
  <2>1. m = Smaller(len - p6, 1)
    BY <1>26
  <2>2. PICK k \in Nat : Reversed(Window(w, p6, j6, len), w, p6, m, k, len, 1)
    BY ONLY <1>12, <1>22, <2>1, WindowReverse, p6 \in Nat, j6 \in Nat, len \in Nat, m \in Nat
  <2> QED
    BY ONLY <1>22, <1>27, <2>2, k \in Nat DEF Reversed
<1>29. d.bufs = Window(w, p6, j, q) /\ d.bth = d6.bth /\ d.ip = Masked(d6.ip)
  BY <1>5, <1>11, <1>28 DEF Decoded
<1>30. IsSeq(d.ip)
  BY <1>18, <1>20, <1>21, <1>22, <1>29, MaskedIsSeq
<1>31. p6 < q /\ w[p6].type = "UD" => w[p6 + 1].src \in Nat
  BY <1>25, <1>27
<1>32. Arrived(w, d, p6, j, q)
  BY <1>23, <1>25, <1>28, <1>29, <1>30, <1>31 DEF Arrived
<1> QED
  BY ONLY <1>32, p6 \in Nat, j \in Nat, q \in Nat

-----------------------------------------------------------------------------
(* A UD QP and the receive WR in resp.wr. *)

Gids == {"none", "v4", "v6"}

\* The state of the receiver that a frame goes through.
Fields == {"rq", "resp", "mem", "comps", "failed", "dest", "abort", "ok"}

\* A WR in resp.wr stays there when its cursor moves.
LEMMA HeldStays ==
  ASSUME NEW x, NEW y
  PROVE  [<<x>> EXCEPT ![1] = y] # <<>>
<1>1. DOMAIN [<<x>> EXCEPT ![1] = y] = {1} /\ DOMAIN <<>> = {}
  OBVIOUS
<1> QED
  BY <1>1


\* From a QP without a WR in resp.wr, a packet leaves none there unless it is refused;
\* one with a WR there keeps it, and completes nothing.
Outcome(s, t) ==
  /\ s.resp # <<>> => t.resp = s.resp /\ t.comps = s.comps /\ t.failed = s.failed
  /\ s.resp = <<>> /\ t.abort = "none"
       => IF t.resp = <<>> THEN t.failed = s.failed ELSE t.failed

LEMMA UdDeliver ==
  ASSUME NEW s, DOMAIN s = Fields, s.abort = "none", NEW r, NEW x, s.resp = <<x>>,
         NEW adv, NEW map, NEW bufs, NEW t, t = Deliver(s, r, adv, map, bufs, TRUE)
  PROVE  /\ DOMAIN t = Fields
         /\ t.abort = "none" => IF t.resp = <<>> THEN t.failed = s.failed ELSE t.failed
<1> DEFINE moved == [s EXCEPT !.resp[1].cur = [idx |-> adv.idx, off |-> adv.off]]
           cells == Units(map.iovs)
           data == FlattenSeq(bufs)
           length == r.byte_len + IovLen(bufs)
<1>1. DOMAIN moved = Fields /\ moved.resp # <<>> /\ moved.failed = s.failed
  <2>1. moved = [s EXCEPT !.resp = [s.resp EXCEPT ![1].cur = [idx |-> adv.idx, off |-> adv.off]]]
    OBVIOUS
  <2>2. [s.resp EXCEPT ![1].cur = [idx |-> adv.idx, off |-> adv.off]] # <<>>
    BY HeldStays
  <2> QED
    BY <2>1, <2>2 DEF Fields
<1> HIDE DEF moved, length, cells, data
<1>2. CASE ~Mapped(Mr, adv.dst)
  <2>1. t = [moved EXCEPT !.ok = FALSE, !.failed = TRUE]
    BY <1>2 DEF Deliver, moved
  <2> QED
    BY <2>1, <1>1 DEF Fields
<1>3. CASE Mapped(Mr, adv.dst) /\ map.num > 2 * MaxSge
  <2>1. t = [moved EXCEPT !.ok = FALSE, !.abort = "iovs"]
    BY <1>3 DEF Deliver, moved
  <2> QED
    BY <2>1, <1>1 DEF Fields
<1>4. CASE Mapped(Mr, adv.dst) /\ ~(map.num > 2 * MaxSge) /\ map.num # SgePages(adv.dst)
  <2>1. t = [moved EXCEPT !.ok = FALSE, !.abort = "pages"]
    BY <1>4 DEF Deliver, moved
  <2> QED
    BY <2>1, <1>1 DEF Fields
<1>5. CASE Mapped(Mr, adv.dst) /\ ~(map.num > 2 * MaxSge) /\ map.num = SgePages(adv.dst)
  <2>1. \E memory, completed :
          t = [moved EXCEPT !.mem = memory, !.resp = <<>>, !.comps = completed]
    BY <1>5 DEF Deliver, moved
  <2> QED
    BY <2>1, <1>1 DEF Fields
<1> QED
  BY <1>2, <1>3, <1>4, <1>5

LEMMA UdPayload ==
  ASSUME NEW s, DOMAIN s = Fields, s.abort = "none", NEW bufs,
         NEW t, t = RecvPayload(s, bufs, FALSE, TRUE)
  PROVE  DOMAIN t = Fields /\ Outcome(s, t)
<1>1. CASE s.resp # <<>> \/ s.rq = <<>>
  <2>1. t = [s EXCEPT !.ok = FALSE]
    BY <1>1 DEF RecvPayload
  <2> QED
    BY <2>1 DEF Fields, Outcome
<1>2. CASE s.resp = <<>> /\ s.rq # <<>>
  <2>1. PICK p : p = PopRecvWr(s)
    OBVIOUS
  <2>2. PICK r : p.resp = <<r>> /\ DOMAIN p = Fields /\ p.abort = "none" /\ p.failed = s.failed
    BY <2>1, <1>2 DEF PopRecvWr, Fields
  <2>0. p.resp # <<>>
    BY <2>2
  <2>3. t = Fill(p, p.resp[1], bufs, TRUE)
    BY <1>2, <2>1 DEF RecvPayload
  <2>4. PICK x, adv, map : \/ t = [p EXCEPT !.ok = FALSE, !.abort = "sge_len"]
                           \/ t = [p EXCEPT !.ok = FALSE, !.failed = TRUE]
                           \/ t = Deliver(p, x, adv, map, bufs, TRUE)
    BY <2>3 DEF Fill
  <2>5. CASE t = [p EXCEPT !.ok = FALSE, !.abort = "sge_len"]
    BY <2>0, <2>2, <2>5, <1>2 DEF Fields, Outcome
  <2>6. CASE t = [p EXCEPT !.ok = FALSE, !.failed = TRUE]
    BY <2>0, <2>2, <2>6, <1>2 DEF Fields, Outcome
  <2>7. CASE t = Deliver(p, x, adv, map, bufs, TRUE)
    <3>1. /\ DOMAIN t = Fields
          /\ t.abort = "none" => IF t.resp = <<>> THEN t.failed = p.failed ELSE t.failed
      BY <2>2, <2>7, UdDeliver
    <3> QED
      BY <3>1, <2>2, <1>2 DEF Outcome
  <2> QED
    BY <2>4, <2>5, <2>6, <2>7
<1> QED
  BY <1>1, <1>2

LEMMA UdFrameOutcome ==
  ASSUME NEW s, DOMAIN s = Fields, s.abort = "none", type = "UD", NEW d,
         NEW t, t = RecvFrame(s, d)
  PROVE  Outcome(s, t)
<1>1. ASSUME \/ t = [s EXCEPT !.ok = FALSE]
             \/ t = [s EXCEPT !.ok = FALSE, !.abort = "ihlbuf"]
      PROVE Outcome(s, t)
  BY <1>1 DEF Fields, Outcome
<1>2. CASE t # [s EXCEPT !.ok = FALSE] /\ t # [s EXCEPT !.ok = FALSE, !.abort = "ihlbuf"]
  <2>1. PICK bth, bufs : t = RecvUd(s, bth, bufs, d.ip)
    BY <1>2 DEF RecvFrame, RecvBth
  <2>2. PICK deth, p, u : /\ p = [s EXCEPT !.ok = FALSE] \/ p = RecvPayload(s, u, FALSE, TRUE)
                          /\ t = [p EXCEPT !.dest = deth]
    BY <2>1, <1>2 DEF RecvUd
  <2>3. DOMAIN p = Fields /\ Outcome(s, p)
    <3>1. CASE p = [s EXCEPT !.ok = FALSE]
      BY <3>1 DEF Fields, Outcome
    <3>2. CASE p = RecvPayload(s, u, FALSE, TRUE)
      BY <3>2, UdPayload
    <3> QED
      BY <3>1, <3>2, <2>2
  <2>4. t.resp = p.resp /\ t.comps = p.comps /\ t.failed = p.failed /\ t.abort = p.abort
    BY <2>2, <2>3 DEF Fields
  <2> QED
    BY <2>3, <2>4 DEF Outcome
<1> QED
  BY <1>1, <1>2

\* roce_net_recv on a UD QP.
LEMMA UdNetRecv ==
  ASSUME type = "UD", NEW i, NEW cut, NetRecv(i, cut)
  PROVE  /\ abort = "none" /\ type' = type
         /\ resp # <<>> => resp' = resp /\ comps' = comps /\ failed' = failed
         /\ resp = <<>> /\ abort' = "none"
              => IF resp' = <<>> THEN failed' = failed ELSE failed'
<1> DEFINE before == [rq |-> rq, resp |-> resp, mem |-> mem, comps |-> comps,
                      failed |-> failed, dest |-> dest, abort |-> abort, ok |-> TRUE]
<1>1. PICK s, d, after :
        /\ s = before /\ after = RecvFrame(s, d)
        /\ abort = "none" /\ resp' = after.resp /\ comps' = after.comps
        /\ failed' = after.failed /\ abort' = after.abort /\ type' = type
  <2>1. PICK d : \E after \in {RecvFrame(before, d)} :
          /\ Running /\ resp' = after.resp /\ comps' = after.comps
          /\ failed' = after.failed /\ abort' = after.abort /\ type' = type
    BY DEF NetRecv
  <2> QED
    BY <2>1 DEF Running
<1>2. DOMAIN s = Fields /\ s.abort = "none"
  BY <1>1 DEF Fields
<1>3. s.resp = resp /\ s.comps = comps /\ s.failed = failed
  BY <1>1
<1>4. Outcome(s, after)
  BY <1>1, <1>2, UdFrameOutcome
<1> QED
  BY <1>1, <1>3, <1>4 DEF Outcome


\* No other step touches the receive WR of a UD QP; once an assertion has failed no
\* step is left.
LEMMA UdStep ==
  ASSUME type = "UD", [FrameNext]_frame_vars
  PROVE  /\ type' = type
         /\ \/ UNCHANGED <<resp, failed, comps, abort>>
            \/ resp' = resp /\ failed' = failed /\ comps' = comps /\ abort' # "none"
            \/ \E i, cut : NetRecv(i, cut)
<1>1. ASSUME NEW i, NEW gid, AddGid(i, gid) \/ DelGid(i)
      PROVE  UNCHANGED <<type, resp, failed, comps, abort>>
  BY <1>1 DEF AddGid, DelGid
<1>2. ASSUME NEW mod, ModifySender(mod)
      PROVE  UNCHANGED <<type, resp, failed, comps, abort>>
  BY <1>2 DEF ModifySender
<1>3. ASSUME NEW st, ModifyState(st)
      PROVE  UNCHANGED <<type, resp, failed, comps, abort>>
  BY <1>3 DEF ModifyState
<1>4. ASSUME NEW sges, NEW imm, PostSendRc(sges, imm) PROVE FALSE
  BY <1>4 DEF PostSendRc
<1>5. ASSUME NEW sges, NEW imm, NEW ah, NEW src, PostSendUd(sges, imm, ah, src)
      PROVE  /\ UNCHANGED <<type, resp, failed, comps>>
             /\ abort' = abort \/ abort' # "none"
  BY <1>5 DEF PostSendUd
<1>6. ASSUME NEW sges, PostRecv(sges)
      PROVE  UNCHANGED <<type, resp, failed, comps, abort>>
  BY <1>6 DEF PostRecv
<1>7. ASSUME NEW stray, StrayArrives(stray)
      PROVE  UNCHANGED <<type, resp, failed, comps, abort>>
  BY <1>7 DEF StrayArrives
<1>8. ASSUME NEW i, Repeat(i)
      PROVE  UNCHANGED <<type, resp, failed, comps, abort>>
  BY <1>8 DEF Repeat
<1>9. ASSUME NEW i, NEW cut, NetRecv(i, cut) PROVE type' = type
  BY <1>9 DEF NetRecv
<1>10. CASE UNCHANGED frame_vars
  BY <1>10 DEF frame_vars
<1> QED
  BY <1>1, <1>2, <1>3, <1>4, <1>5, <1>6, <1>7, <1>8, <1>9, <1>10 DEF FrameNext

\* No step changes the type of the QPs.
LEMMA TypeStays == ASSUME [FrameNext]_frame_vars PROVE type' = type
BY DEF FrameNext, frame_vars, AddGid, DelGid, ModifySender, ModifyState, PostSendRc,
       PostSendUd, PostRecv, StrayArrives, Repeat, NetRecv

\* Until an assertion ends the process.
UdInv == Running => UdHeldIffRefused

\* A UD QP that runs holds a receive WR between datagrams exactly when
\* roce_recv_payload refused one that had taken it.
THEOREM UdHeldWhileRunning == FrameSpec => [](Running => UdHeldIffRefused)
<1>1. FrameInit => UdInv
  BY DEF FrameInit, UdInv, UdHeldIffRefused
<1>2. UdInv /\ [FrameNext]_frame_vars => UdInv'
  <2> SUFFICES ASSUME UdInv, [FrameNext]_frame_vars, Running', type' = "UD"
               PROVE  resp' # <<>> <=> failed'
    BY DEF UdInv, UdHeldIffRefused
  <2>1. type = "UD"
    BY TypeStays
  <2>2. abort' = "none"
    BY DEF Running
  <2>3. abort = "none" => (resp # <<>> <=> failed)
    BY <2>1 DEF UdInv, UdHeldIffRefused, Running
  <2>4. CASE UNCHANGED <<resp, failed, comps, abort>>
    BY <2>2, <2>3, <2>4
  <2>5. ASSUME NEW i, NEW cut, NetRecv(i, cut) PROVE resp' # <<>> <=> failed'
    <3>1. resp # <<>> <=> failed
      BY <2>1, <2>3, <2>5, UdNetRecv
    <3>2. resp # <<>> => resp' = resp /\ failed' = failed
      BY <2>1, <2>5, UdNetRecv
    <3>3. resp = <<>> => IF resp' = <<>> THEN failed' = failed ELSE failed'
      BY <2>1, <2>2, <2>5, UdNetRecv
    <3> QED
      BY <3>1, <3>2, <3>3
  <2> QED
    BY <2>1, <2>2, <2>4, <2>5, UdStep
<1>3. UdInv <=> (Running => UdHeldIffRefused)
  BY DEF UdInv
<1> QED
  BY <1>1, <1>2, <1>3, PTL DEF FrameSpec

\* With resp.wr set, no datagram is taken and no state change clears it: comps and
\* resp of a UD QP stay for ever.
THEOREM RefusalStaysFinal == FrameSpec => RefusalIsFinal
<1>1. ASSUME [FrameNext]_frame_vars
      PROVE  [type = "UD" /\ resp # <<>> => comps' = comps /\ resp' = resp]_frame_vars
  BY <1>1, UdStep, UdNetRecv
<1> QED
  BY <1>1, PTL DEF FrameSpec, RefusalIsFinal


-----------------------------------------------------------------------------
(***************************************************************************)
(* What the constants give.                                                *)
(***************************************************************************)
\* The region is one of whole pages.
LEMMA RegionIs ==
  ASSUME WholePages
  PROVE  \E n \in Nat : PageRegion(Mr, n)
<1>1. PICK n \in Nat : n = Len(Mr.iovs)
  BY LenProperties DEF WholePages
<1>2. Hold(Mr.page, Mr.iova, Mr.length, n)
  BY <1>1 DEF WholePages, Hold
<1> QED
  BY <1>1, <1>2 DEF WholePages, PageRegion

\* It lies between two multiples of AddrCut.
LEMMA ContextRegionIs ==
  ASSUME WholePages, ContextPages
  PROVE  ContextRegion(Mr)
<1>1. PICK m \in Nat \ {0}, cut \in Nat \ {0} : m = PageSize /\ cut = AddrCut
  BY ScatterAssumption
<1>2. PICK a \in Nat, l \in Nat : a = Mr.iova /\ l = Mr.length
  BY DEF WholePages
<1>3. \E b \in Nat : Inside(cut, b, m, a, l)
  <2>1. PICK q \in Int, r \in 0 .. cut - 1 : a = cut * q + r /\ q = a \div cut
    <3>1. a \in Int
      OBVIOUS
    <3> QED
      BY ONLY <3>1, cut \in Nat \ {0}, Euclid
  <2>2. PICK x \in Int : x = a + l + m - 1
    OBVIOUS
  <2>3. PICK u \in Int, v \in 0 .. cut - 1 : x = cut * u + v /\ u = x \div cut
    BY ONLY cut \in Nat \ {0}, x \in Int, Euclid
  <2>4. u = q
    BY <1>1, <1>2, <2>1, <2>2, <2>3 DEF ContextPages
  <2>5. PICK z \in Int : z = cut * q
    BY ONLY cut \in Nat \ {0}, q \in Int
  <2>6. q \in Nat
    <3>1. z + r >= 0 /\ r < cut /\ z = cut * q
      BY ONLY <2>1, <2>5, a \in Nat, r \in 0 .. cut - 1, cut \in Nat \ {0}
    <3>2. cut * 0 <= cut * q + r
      BY ONLY <3>1, cut \in Nat \ {0}, r \in 0 .. cut - 1, z \in Int
    <3>3. 0 \in Int /\ r \in Int /\ r < cut
      BY ONLY r \in 0 .. cut - 1, cut \in Nat \ {0}
    <3>4. 0 <= q
      BY ONLY <3>2, <3>3, cut \in Nat \ {0}, q \in Int, MultipleBelow
    <3> QED
      BY ONLY <3>4, q \in Int
  <2>7. z <= a /\ a + l + m <= z + cut
    BY ONLY <2>1, <2>2, <2>3, <2>4, <2>5, a \in Nat, l \in Nat, m \in Nat \ {0},
            z \in Int, r \in 0 .. cut - 1, v \in 0 .. cut - 1, cut \in Nat \ {0}
  <2>8. Inside(cut, q, m, a, l)
    BY ONLY <2>5, <2>7 DEF Inside
  <2> QED
    BY ONLY <2>6, <2>8
<1> QED
  BY <1>1, <1>2, <1>3 DEF ContextPages, ContextRegion

\* Parts of the entries of a list, as far as they are in the region.
LEMMA MappedParts ==
  ASSUME NEW sges, NEW m, NEW list, PartList(list, sges, m), Mapped(Mr, list)
  PROVE  Pieces(Mr, list, Len(list))
BY DEF PartList, Parts, PartOf, Mapped, Pieces

\* The parts of a list that a packet fills touch no more pages than its entries do.
LEMMA FewPages ==
  ASSUME WholePages, NEW sges \in Seq(NatSge), NEW m, m = Len(sges),
         NEW pages \in Nat, \A i \in 1 .. m : Touches(sges[i], pages),
         NEW p, PartOf(p, sges, m), InRegion(Mr, p)
  PROVE  CountCopied(SgeCopy(Mr, p)) <= pages
<1>1. PICK e \in 1 .. m : /\ p.addr \in Nat /\ p.len \in Nat \ {0}
                          /\ Within(sges[e].addr, sges[e].len, p.addr, p.len)
  BY DEF PartOf
<1>2. sges[e].addr \in Nat /\ sges[e].len \in Nat \ {0}
  <2>1. sges[e] \in NatSge
    BY ElementOfSeq
  <2> QED
    BY <2>1 DEF NatSge
<1>3. PICK a \in Nat, l \in Nat \ {0}, x \in Nat, k \in Nat \ {0} :
        a = p.addr /\ l = p.len /\ x = sges[e].addr /\ k = sges[e].len
  BY <1>1, <1>2
<1>4. PICK np \in Nat : PageRegion(Mr, np)
  BY RegionIs
<1>5. PICK m1 \in Nat \ {0} : m1 = Mr.page
  BY DEF WholePages
<1>6. PICK c \in Nat \ {0} :
        c = CountCopied(SgeCopy(Mr, p)) /\ Covers(m1, (a % m1) + l, c)
  BY <1>1, <1>3, <1>4, <1>5, SgeCopyPages DEF Touch
<1>7. PICK end \in Nat : /\ end = Smaller(x + k, Mr.iova + Mr.length)
                         /\ a + l <= end
                         /\ (x % m1) + end - x <= pages * m1
  <2>1. PICK io \in Nat, le \in Nat : io = Mr.iova /\ le = Mr.length
    BY DEF WholePages
  <2>2. a + l <= x + k /\ a + l <= io + le
    BY <1>1, <1>3, <2>1 DEF Within, InRegion
  <2>3. Touches(sges[e], pages)
    BY <1>1
  <2>4. PICK end \in Nat : end = Smaller(x + k, io + le) /\ a + l <= end
    BY ONLY <2>2, a \in Nat, l \in Nat \ {0}, x \in Nat, k \in Nat \ {0}, io \in Nat,
            le \in Nat DEF Smaller
  <2>5. (x % m1) + end - x <= pages * m1
    BY ONLY <1>3, <1>5, <2>1, <2>3, <2>4 DEF Touches
  <2> WITNESS end \in Nat
  <2> QED
    BY ONLY <2>1, <2>4, <2>5
<1>8. x <= a
  BY <1>1, <1>3 DEF Within
\* Counted from the page of a, the bytes end no later than counted from that of x.
<1>9. PICK most \in Nat : most = pages * m1 /\ (a % m1) + l <= most
  <2> PICK most \in Nat : most = pages * m1
    BY ONLY pages \in Nat, m1 \in Nat \ {0}
  <2>0. x \in Int /\ a \in Int
    OBVIOUS
  <2>1. PICK q \in Int, r \in 0 .. m1 - 1 : x = m1 * q + r /\ q = x \div m1 /\ r = x % m1
    BY ONLY <2>0, m1 \in Nat \ {0}, Euclid
  <2>2. PICK u \in Int, v \in 0 .. m1 - 1 : a = m1 * u + v /\ u = a \div m1 /\ v = a % m1
    BY ONLY <2>0, m1 \in Nat \ {0}, Euclid
  <2>3. PICK y \in Int, z \in Int : y = m1 * q /\ z = m1 * u
    BY ONLY m1 \in Nat \ {0}, q \in Int, u \in Int
  <2>4. x = y + r /\ a = z + v /\ r < m1 /\ v < m1 /\ r \in Int /\ v \in Int
    <3>1. x = y + r /\ a = z + v
      <4>1. x = m1 * q + r /\ a = m1 * u + v
        BY ONLY <2>1, <2>2
      <4> QED
        BY ONLY <2>3, <4>1
    <3>2. r < m1 /\ v < m1 /\ r \in Int /\ v \in Int
      BY ONLY r \in 0 .. m1 - 1, v \in 0 .. m1 - 1, m1 \in Nat \ {0}
    <3> QED
      BY ONLY <3>1, <3>2
  <2>5. y <= z
    <3>1. y <= z + v
      BY ONLY <1>8, <2>4, y \in Int, z \in Int, x \in Nat, r \in 0 .. m1 - 1
    <3>2. m1 * q <= m1 * u + v
      BY ONLY <2>3, <3>1
    <3>3. q <= u
      BY ONLY <2>4, <3>2, MultipleBelow, m1 \in Nat \ {0}, q \in Int, u \in Int
    <3>4. q = u \/ m1 * q + m1 <= m1 * u
      <4>1. q = u \/ q < u
        BY ONLY <3>3, q \in Int, u \in Int
      <4> QED
        BY ONLY <4>1, MultiplesApart, m1 \in Nat \ {0}, q \in Int, u \in Int
    <3>5. q = u => y = z
      BY ONLY <2>3
    <3>6. y = z \/ y + m1 <= z
      BY ONLY <2>3, <3>4, <3>5
    <3> QED
      BY ONLY <3>6, m1 \in Nat \ {0}, y \in Int, z \in Int
  <2>6. r + end - x <= most
    BY ONLY <1>7, <2>1, most = pages * m1
  <2>7. v + l <= most
    BY ONLY <1>7, <2>4, <2>5, <2>6, x \in Nat, a \in Nat, l \in Nat \ {0},
            end \in Nat, most \in Nat, y \in Int, z \in Int
  <2>8. (a % m1) + l <= most
    BY ONLY <2>2, <2>7
  <2> QED
    BY ONLY <2>8, most \in Nat, most = pages * m1
<1>10. c <= pages
  <2>1. m1 * (c - 1) < (a % m1) + l
    BY <1>6 DEF Covers
  <2>2. (a % m1) \in Int
    BY ONLY a \in Nat, m1 \in Nat \ {0}
  <2>3. SUFFICES ASSUME pages < c PROVE FALSE
    BY ONLY <2>3, c \in Nat \ {0}, pages \in Nat
  <2>4. pages = c - 1 \/ pages < c - 1
    BY ONLY <2>3, c \in Nat \ {0}, pages \in Nat
  <2>5. PICK y \in Int, z \in Int : y = m1 * (c - 1) /\ z = m1 * pages
    BY ONLY m1 \in Nat \ {0}, c \in Nat \ {0}, pages \in Nat
  <2>6. pages < c - 1 => z + m1 <= y
    BY ONLY <2>5, MultiplesApart, m1 \in Nat \ {0}, c - 1 \in Int, pages \in Int
  <2>7. pages = c - 1 => z = y
    BY ONLY <2>5
  <2>8. z = most
    BY ONLY <1>9, <2>5, m1 \in Nat \ {0}, pages \in Nat
  <2> QED
    BY ONLY <1>9, <2>1, <2>2, <2>4, <2>5, <2>6, <2>7, <2>8, l \in Nat \ {0},
            m1 \in Nat \ {0}, y \in Int, z \in Int, most \in Nat
<1> QED
  BY <1>6, <1>10

-----------------------------------------------------------------------------
(***************************************************************************)
(* The units of a payload, and the memory they are written to.             *)
(***************************************************************************)
\* Sequences one after the other are a sequence.
Sequences(ss, n, S) == n = Len(ss) /\ \A k \in 1 .. n : ss[k] \in Seq(S)

LEMMA FlattenIs ==
  ASSUME NEW S, NEW ss, IsSeq(ss), NEW n \in Nat, Sequences(ss, n, S)
  PROVE  FlattenSeq(ss) \in Seq(S)
<1> DEFINE Builds(f) == f = [i \in 1 .. Len(ss) |->
                               IF i = 1 THEN ss[i] ELSE f[i - 1] \o ss[i]]
<1>1. n = Len(ss) /\ \A k \in 1 .. n : ss[k] \in Seq(S)
  BY DEF Sequences
<1>2. CASE n = 0
  <2>1. FlattenSeq(ss) = ss
    BY <1>1, <1>2 DEF FlattenSeq
  <2>2. \A i \in 1 .. Len(ss) : ss[i] \in S
    BY <1>1, <1>2
  <2> QED
    BY <2>1, <2>2, IsSeqIn
<1>3. CASE n # 0
  <2>1. PICK G : G = [k \in 1 .. n |->
                        [x \in Seq(S) |-> IF k = 1 THEN ss[1] ELSE x \o ss[k]]]
    OBVIOUS
  <2>2. ASSUME NEW k \in 1 .. n, NEW x \in Seq(S)
        PROVE  G[k][x] = (IF k = 1 THEN ss[1] ELSE x \o ss[k]) /\ G[k][x] \in Seq(S)
    <3>1. ss[k] \in Seq(S) /\ x \o ss[k] \in Seq(S)
      BY <1>1, ConcatProperties
    <3> QED
      BY <2>1, <3>1
  <2>3. <<>> \in Seq(S)
    BY EmptySeq
  <2>4. PICK f \in [0 .. n -> Seq(S)] :
          Turns(f, <<>>, n, G) /\ \A k \in 1 .. n : f[k - 1] \in Seq(S)
    BY ONLY <2>2, <2>3, n \in Nat, LoopExists
  <2>5. \A k \in 1 .. n : f[k] = IF k = 1 THEN ss[1] ELSE f[k - 1] \o ss[k]
    BY <2>2, <2>4 DEF Turns
  <2>6. PICK h : h = [k \in 1 .. n |-> f[k]]
    OBVIOUS
  <2>7. Builds(h)
    <3>1. \A k \in 1 .. n : h[k] = IF k = 1 THEN ss[k] ELSE h[k - 1] \o ss[k]
      BY <2>5, <2>6
    <3> QED
      BY <1>1, <2>6, <3>1
  <2>8. PICK g : g = (CHOOSE x : Builds(x)) /\ Builds(g)
    <3> HIDE DEF Builds
    <3> QED
      BY <2>7
  <2>9. \A k \in 1 .. n : g[k] = IF k = 1 THEN ss[k] ELSE g[k - 1] \o ss[k]
    BY <1>1, <2>8
  <2>10. PICK D : D = {k \in 0 .. n : k # 0 => g[k] \in Seq(S)}
    OBVIOUS
  <2>11. ASSUME NEW k \in 1 .. n, k - 1 \in D PROVE k \in D
    <3>1. CASE k = 1
      BY <1>1, <2>9, <2>10, <3>1
    <3>2. CASE k # 1
      <4>1. g[k - 1] \in Seq(S) /\ ss[k] \in Seq(S)
        BY <1>1, <2>10, <2>11, <3>2
      <4>2. g[k - 1] \o ss[k] \in Seq(S)
        BY <4>1, ConcatProperties
      <4>3. g[k] = g[k - 1] \o ss[k]
        BY ONLY <2>9, <3>2, k \in 1 .. n
      <4>4. k \in 0 .. n /\ g[k] \in Seq(S)
        BY <4>2, <4>3
      <4> QED
        BY <2>10, <4>4
    <3> QED
      BY <3>1, <3>2
  <2>12. Inductive(D, n)
    BY <2>10, <2>11 DEF Inductive
  <2>13. n \in D
    BY <2>12, Induct
  <2>14. FlattenSeq(ss) = (CHOOSE x : Builds(x))[n]
    BY <1>1, <1>3 DEF FlattenSeq
  <2> QED
    BY <1>3, <2>8, <2>10, <2>13, <2>14
<1> QED
  BY <1>2, <1>3

\* The units of buffers are cells of memory.
LEMMA UnitsAre ==
  ASSUME NEW iovs \in Seq(IntIov)
  PROVE  Units(iovs) \in Seq(Int)
<1> DEFINE Cells(i) == [j \in 1 .. iovs[i].len |-> iovs[i].base + j - 1]
<1>1. PICK n \in Nat : n = Len(iovs)
  BY LenProperties
<1>2. PICK ss : ss = [i \in 1 .. n |-> Cells(i)]
  OBVIOUS
<1>3. IsSeq(ss) /\ Len(ss) = n
  <2>1. DOMAIN ss = 1 .. n /\ ss = [i \in DOMAIN ss |-> ss[i]]
    BY <1>2
  <2> QED
    BY <2>1, FunctionIsSeq
<1>4. ASSUME NEW k \in 1 .. n PROVE ss[k] \in Seq(Int)
  <2>1. iovs[k] \in IntIov
    BY <1>1, ElementOfSeq
  <2>2. PICK b \in Int, l \in Int : b = iovs[k].base /\ l = iovs[k].len
    BY <2>1 DEF IntIov
  <2>3. PICK c : c = Cells(k)
    OBVIOUS
  <2>4. PICK m \in Nat : 1 .. l = 1 .. m
    <3>1. CASE l \in Nat
      BY <3>1
    <3>2. CASE l \notin Nat
      <4>1. l < 0
        BY ONLY <3>2, l \in Int
      <4>2. \A j : j \in 1 .. l <=> j \in 1 .. 0
        BY ONLY <4>1, l \in Int
      <4>3. 1 .. l = 1 .. 0
        BY ONLY <4>2
      <4> QED
        BY <4>3
    <3> QED
      BY <3>1, <3>2
  <2>5. c = [j \in 1 .. m |-> b + j - 1]
    BY <2>2, <2>3, <2>4
  <2>6. DOMAIN c = 1 .. m /\ c = [j \in DOMAIN c |-> c[j]] /\ \A j \in 1 .. m : c[j] \in Int
    BY <2>5
  <2>7. IsSeq(c) /\ Len(c) = m
    BY <2>6, FunctionIsSeq
  <2>8. c \in Seq(Int)
    BY <2>6, <2>7, IsSeqIn
  <2> QED
    BY <1>2, <2>3, <2>8
<1>5. Sequences(ss, n, Int)
  BY <1>3, <1>4 DEF Sequences
<1>6. FlattenSeq(ss) \in Seq(Int)
  BY <1>3, <1>5, FlattenIs
<1> QED
  BY <1>1, <1>2, <1>6 DEF Units

\* Memory keeps its cells when a payload is written to it.
Memory(m) == m = [c \in HostCells |-> m[c]]

LEMMA ScatterIs ==
  ASSUME NEW m, Memory(m), NEW cells, NEW n \in Nat, n = Len(cells), NEW data
  PROVE  Memory(Scatter(m, cells, data))
<1> DEFINE S == {m[c] : c \in HostCells} \cup {data[i] : i \in 1 .. n}
           D == [HostCells -> S]
           list == [i \in 1 .. Len(cells) |-> i]
           T(x, k) == [x EXCEPT ![cells[k]] = data[k]]
           Builds(f) == f = [k \in 0 .. Len(list) |->
                               IF k = 0 THEN m ELSE T(f[k - 1], list[k])]
<1>1. Len(list) = n /\ \A k \in 1 .. n : list[k] = k
  BY CountingList
<1>2. m \in D
  BY DEF Memory
<1>3. ASSUME NEW k \in 1 .. n, NEW x \in D PROVE T(x, k) \in D
  <2>1. data[k] \in S
    OBVIOUS
  <2> HIDE DEF S
  <2> QED
    BY <2>1
<1> HIDE DEF D, T, list
<1>4. PICK G : G = [k \in 1 .. n |-> [x \in D |-> T(x, k)]]
  OBVIOUS
<1>5. \A k \in 1 .. n : \A x \in D : G[k][x] = T(x, k) /\ G[k][x] \in D
  BY <1>3, <1>4
<1>6. PICK f \in [0 .. n -> D] : Turns(f, m, n, G) /\ \A k \in 1 .. n : f[k - 1] \in D
  BY ONLY <1>2, <1>5, n \in Nat, LoopExists
<1>7. f[0] = m /\ \A k \in 1 .. n : f[k] = T(f[k - 1], k)
  BY <1>5, <1>6 DEF Turns
<1>8. Builds(f)
  BY <1>1, <1>6, <1>7
<1>9. PICK g : g = (CHOOSE h : Builds(h)) /\ Builds(g)
  <2> HIDE DEF Builds
  <2> QED
    BY <1>8
<1>10. g[0] = m /\ \A k \in 1 .. n : g[k] = T(g[k - 1], k)
  <2>1. 0 \in 0 .. n /\ \A k \in 1 .. n : k \in 0 .. n /\ k # 0
    OBVIOUS
  <2> QED
    BY <1>1, <1>9, <2>1
<1>11. \A k \in 0 .. n : g[k] = f[k]
  <2>1. SameBody(g, f, n)
    BY <1>7, <1>10 DEF SameBody
  <2> QED
    BY ONLY <2>1, n \in Nat, SameTurns
<1>12. Scatter(m, cells, data) = (CHOOSE h : Builds(h))[Len(list)]
  BY DEF Scatter, Loop, T, list
<1> HIDE DEF Builds
<1>13. Scatter(m, cells, data) = f[n] /\ f[n] \in D
  BY <1>1, <1>6, <1>9, <1>11, <1>12
<1> QED
  BY <1>13 DEF Memory, D

-----------------------------------------------------------------------------
(***************************************************************************)
(* The frames of roce_post_send have their headers where they are taken    *)
(* off.                                                                    *)
(***************************************************************************)
BodyIs(body) ==
  /\ IsSeq(body) /\ 1 <= Len(body) /\ body[1].padcnt \in Nat
  /\ body[1].type = "UD" => 2 <= Len(body) /\ body[2].src \in Nat

LEMMA BuiltBody ==
  ASSUME NEW n, NEW cells, Len(cells) \in Nat, NEW op, NEW qpn, NEW eths, IsSeq(eths),
         type = "UD" => 1 <= Len(eths) /\ eths[1].src \in Nat
  PROVE  BodyIs(Body(n, cells, op, qpn, eths))
<1>1. PICK c \in Nat : c = Len(cells)
  OBVIOUS
<1>2. PICK padcnt \in Nat : padcnt = (-Len(cells)) % PadUnit
  <2>1. PICK m \in Nat \ {0} : m = PadUnit
    BY FramesAssumption
  <2>2. -c \in Int
    OBVIOUS
  <2>3. (-c) % m \in 0 .. m - 1
    BY ONLY <2>2, m \in Nat \ {0}, DivMod
  <2>4. (-c) % m \in Nat
    BY ONLY <2>3, m \in Nat \ {0}
  <2> QED
    BY <1>1, <2>1, <2>4
<1>3. PICK bth : bth = [k |-> "bth", type |-> type, op |-> op, padcnt |-> padcnt,
                        qpn |-> qpn, pkey |-> TRUE]
  OBVIOUS
<1>4. PICK text, pad : /\ text = Tagged(n, cells)
                       /\ pad = [i \in 1 .. padcnt |-> [k |-> "pad"]]
  OBVIOUS
<1>5. IsSeq(text) /\ Len(text) \in Nat
  <2>1. DOMAIN text = 1 .. c /\ text = [i \in DOMAIN text |-> text[i]]
    BY <1>1, <1>4 DEF Tagged
  <2> QED
    BY <2>1, FunctionIsSeq
<1>6. IsSeq(pad) /\ Len(pad) \in Nat
  <2>1. DOMAIN pad = 1 .. padcnt /\ pad = [i \in DOMAIN pad |-> pad[i]]
    BY <1>4
  <2> QED
    BY <2>1, FunctionIsSeq
<1>7. IsSeq(<<bth>>) /\ Len(<<bth>>) = 1 /\ <<bth>>[1] = bth
  BY OneIs
<1>8. PICK s : s = <<bth>> \o eths
  OBVIOUS
<1>9. PICK e \in Nat : e = Len(eths)
  BY DEF IsSeq
<1>10. /\ IsSeq(s) /\ Len(s) = 1 + e /\ s[1] = bth
       /\ \A i \in 1 .. e : s[1 + i] = eths[i]
  <2>1. /\ IsSeq(s) /\ Len(s) = Len(<<bth>>) + e
        /\ \A i \in 1 .. Len(<<bth>>) : s[i] = <<bth>>[i]
        /\ \A i \in 1 .. e : s[Len(<<bth>>) + i] = eths[i]
    BY <1>7, <1>8, <1>9, ConcatIs
  <2>2. 1 \in 1 .. 1
    OBVIOUS
  <2> QED
    BY ONLY <1>7, <2>1, <2>2
<1>11. PICK u : u = s \o text
  OBVIOUS
<1>12. IsSeq(u) /\ Len(u) = Len(s) + Len(text) /\ \A i \in 1 .. Len(s) : u[i] = s[i]
  BY <1>5, <1>10, <1>11, ConcatIs
<1>13. PICK body : body = u \o pad
  OBVIOUS
<1>14. IsSeq(body) /\ Len(body) = Len(u) + Len(pad) /\ \A i \in 1 .. Len(u) : body[i] = u[i]
  BY <1>6, <1>12, <1>13, ConcatIs
<1>15. body = Body(n, cells, op, qpn, eths)
  BY <1>2, <1>3, <1>4, <1>8, <1>11, <1>13 DEF Body
<1>16. PICK l1 \in Nat, l2 \in Nat, l3 \in Nat :
         l1 = Len(text) /\ l2 = Len(pad) /\ l3 = Len(body) /\ l3 = 1 + e + l1 + l2
  BY <1>5, <1>6, <1>9, <1>10, <1>12, <1>14
<1>17. \A i \in 1 .. 1 + e : body[i] = s[i]
  <2>1. Len(u) = 1 + e + l1
    BY <1>9, <1>10, <1>12, <1>16
  <2>2. ASSUME NEW i \in 1 .. 1 + e PROVE body[i] = s[i]
    <3>1. i \in 1 .. Len(s)
      BY <1>10
    <3>2. i \in 1 .. Len(u)
      BY ONLY <2>1, e \in Nat, l1 \in Nat, i \in 1 .. 1 + e
    <3>3. u[i] = s[i] /\ body[i] = u[i]
      BY ONLY <1>12, <1>14, <3>1, <3>2
    <3> QED
      BY ONLY <3>3
  <2> QED
    BY ONLY <2>2
<1>18. body[1] = bth
  <2>1. 1 \in 1 .. 1 + e
    BY ONLY e \in Nat
  <2> QED
    BY ONLY <1>10, <1>17, <2>1
<1>19. body[1].padcnt \in Nat /\ body[1].type = type
  BY <1>3, <1>18
<1>20. ASSUME type = "UD" PROVE 2 <= Len(body) /\ body[2].src \in Nat
  <2>1. 1 <= e /\ eths[1].src \in Nat
    BY <1>9, <1>20
  <2>2. 2 \in 1 .. 1 + e /\ 1 \in 1 .. e /\ 1 + 1 = 2
    BY ONLY <2>1, e \in Nat
  <2>3. body[2] = eths[1]
    BY ONLY <1>10, <1>17, <2>2
  <2>4. 2 <= l3
    BY ONLY <1>16, <2>1, e \in Nat, l1 \in Nat, l2 \in Nat
  <2> QED
    BY <1>16, <2>1, <2>3, <2>4
<1>21. 1 <= Len(body)
  BY <1>16
<1> QED
  BY <1>14, <1>15, <1>19, <1>20, <1>21 DEF BodyIs

\* c is s followed by t.
Joined(c, s, t) ==
  /\ IsSeq(c) /\ Len(c) = Len(s) + Len(t)
  /\ \A i \in 1 .. Len(s) : c[i] = s[i]
  /\ \A i \in 1 .. Len(t) : c[Len(s) + i] = t[i]

LEMMA Join ==
  ASSUME NEW s, IsSeq(s), NEW t, IsSeq(t), NEW c, c = s \o t
  PROVE  Joined(c, s, t)
<1>1. /\ IsSeq(s \o t) /\ Len(s \o t) = Len(s) + Len(t)
      /\ \A i \in 1 .. Len(s) : (s \o t)[i] = s[i]
      /\ \A i \in 1 .. Len(t) : (s \o t)[Len(s) + i] = t[i]
  BY ConcatIs
<1> QED
  BY <1>1 DEF Joined

LEMMA BuiltFrame ==
  ASSUME NEW ah, NEW body, BodyIs(body)
  PROVE  Shaped(Frame(ah, body))
<1>1. PICK n \in Nat : n = (IF Family(ah.gid) = "v4" THEN 1 ELSE 2) /\ n \in {1, 2}
  OBVIOUS
<1>2. PICK v \in Nat : v = VnetHdr
  BY FramesAssumption
<1>3. PICK vnet, eth, ip, udp, icrc :
        /\ vnet = [i \in 1 .. v |-> [k |-> "vnet"]]
        /\ eth = [k |-> "eth", mac |-> ah.mac, family |-> Family(ah.gid)]
        /\ ip = IpHeader(ah)
        /\ udp = [k |-> "udp", roce |-> TRUE, len |-> 1 + Len(body) + 1]
        /\ icrc = [k |-> "icrc", of |-> Masked(ip) \o <<udp>> \o body]
  OBVIOUS
<1>4. PICK b \in Nat : b = Len(body) /\ 1 <= b
  BY DEF BodyIs, IsSeq
<1>5. IsSeq(vnet) /\ Len(vnet) = v
  <2>1. DOMAIN vnet = 1 .. v /\ vnet = [i \in DOMAIN vnet |-> vnet[i]]
    BY <1>3
  <2> QED
    BY <2>1, FunctionIsSeq
<1>6. IsSeq(ip) /\ Len(ip) = n /\ ip[1].ihl = MinIhl
  <2> DEFINE Part(i) == [k |-> "ip", part |-> i, src |-> gids[ah.sgid], ihl |-> MinIhl,
                         hops |-> "sent"]
  <2>1. ip = IF Family(ah.gid) = "v4" THEN <<Part(1)>> ELSE <<Part(1), Part(2)>>
    BY <1>3 DEF IpHeader
  <2>2. Part(1).ihl = MinIhl
    OBVIOUS
  <2> HIDE DEF Part
  <2>3. CASE Family(ah.gid) = "v4"
    <3>1. ip = <<Part(1)>> /\ n = 1
      BY <1>1, <2>1, <2>3
    <3> QED
      BY <2>2, <3>1, OneIs
  <2>4. CASE Family(ah.gid) # "v4"
    <3>1. ip = <<Part(1), Part(2)>> /\ n = 2
      BY <1>1, <2>1, <2>4
    <3>2. ip = <<Part(1)>> \o <<Part(2)>>
      BY <3>1, Pair
    <3>3. /\ IsSeq(<<Part(1)>>) /\ Len(<<Part(1)>>) = 1 /\ <<Part(1)>>[1] = Part(1)
          /\ IsSeq(<<Part(2)>>) /\ Len(<<Part(2)>>) = 1
      BY OneIs
    <3>4. IsSeq(ip) /\ Len(ip) = 1 + 1 /\ \A i \in 1 .. 1 : ip[i] = <<Part(1)>>[i]
      BY <3>2, <3>3, ConcatIs
    <3>5. 1 \in 1 .. 1 /\ 1 + 1 = 2
      OBVIOUS
    <3> QED
      BY ONLY <2>2, <3>1, <3>3, <3>4, <3>5
  <2> QED
    BY <2>3, <2>4
\* The headers one after the other.
<1>7. PICK front : front = vnet \o <<eth>>
  OBVIOUS
<1>8. IsSeq(front) /\ Len(front) = v + 1 /\ front[v + 1] = eth
  <2>1. IsSeq(<<eth>>) /\ Len(<<eth>>) = 1 /\ <<eth>>[1] = eth
    BY OneIs
  <2>2. /\ IsSeq(front) /\ Len(front) = Len(vnet) + Len(<<eth>>)
        /\ \A i \in 1 .. Len(<<eth>>) : front[Len(vnet) + i] = <<eth>>[i]
    <3>1. IsSeq(vnet) /\ IsSeq(<<eth>>)
      BY <1>5, <1>7, <2>1
    <3>2. Joined(front, vnet, <<eth>>)
      BY ONLY <3>1, <1>7, Join
    <3> QED
      BY ONLY <3>2 DEF Joined
  <2>3. 1 \in 1 .. 1
    OBVIOUS
  <2> QED
    BY ONLY <1>5, <2>1, <2>2, <2>3
<1>9. PICK head : head = ip \o <<udp>>
  OBVIOUS
<1>10. IsSeq(head) /\ Len(head) = n + 1 /\ head[1] = ip[1]
  <2>1. IsSeq(<<udp>>) /\ Len(<<udp>>) = 1
    BY OneIs
  <2>2. /\ IsSeq(head) /\ Len(head) = Len(ip) + Len(<<udp>>)
        /\ \A i \in 1 .. Len(ip) : head[i] = ip[i]
    BY <1>6, <1>9, <2>1, ConcatIs
  <2>3. 1 \in 1 .. n
    BY ONLY <1>1
  <2> QED
    BY ONLY <1>6, <2>1, <2>2, <2>3
<1>11. PICK covered : covered = head \o body
  OBVIOUS
<1>12. /\ IsSeq(covered) /\ Len(covered) = n + 1 + b /\ covered[1] = ip[1]
       /\ \A i \in 1 .. b : covered[n + 1 + i] = body[i]
  <2>1. IsSeq(body)
    BY DEF BodyIs
  <2>2. /\ IsSeq(covered) /\ Len(covered) = Len(head) + Len(body)
        /\ \A i \in 1 .. Len(head) : covered[i] = head[i]
        /\ \A i \in 1 .. Len(body) : covered[Len(head) + i] = body[i]
    <3>1. IsSeq(head) /\ IsSeq(body)
      BY <1>10, <1>11, <2>1
    <3>2. Joined(covered, head, body)
      BY ONLY <3>1, <1>11, Join
    <3> QED
      BY ONLY <3>2 DEF Joined
  <2>3. 1 \in 1 .. n + 1
    BY ONLY n \in Nat
  <2> QED
    BY ONLY <1>4, <1>10, <2>2, <2>3
<1>13. PICK most : most = front \o covered
  OBVIOUS
<1>14. /\ IsSeq(most) /\ Len(most) = v + 1 + (n + 1 + b) /\ most[v + 1] = eth
       /\ \A i \in 1 .. n + 1 + b : most[v + 1 + i] = covered[i]
  <2>1. /\ IsSeq(most) /\ Len(most) = Len(front) + Len(covered)
        /\ \A i \in 1 .. Len(front) : most[i] = front[i]
        /\ \A i \in 1 .. Len(covered) : most[Len(front) + i] = covered[i]
    <3>1. IsSeq(front) /\ IsSeq(covered)
      BY <1>8, <1>12, <1>13
    <3>2. Joined(most, front, covered)
      BY ONLY <3>1, <1>13, Join
    <3> QED
      BY ONLY <3>2 DEF Joined
  <2>2. v + 1 \in 1 .. v + 1
    BY ONLY v \in Nat
  <2> QED
    BY ONLY <1>8, <1>12, <2>1, <2>2
<1>15. PICK w : w = most \o <<icrc>>
  OBVIOUS
<1>16. PICK len \in Nat : len = v + 1 + (n + 1 + b)
  OBVIOUS
<1>17. IsSeq(w) /\ Len(w) = len + 1 /\ \A i \in 1 .. len : w[i] = most[i]
  <2>1. IsSeq(<<icrc>>) /\ Len(<<icrc>>) = 1
    BY OneIs
  <2>2. /\ IsSeq(w) /\ Len(w) = Len(most) + Len(<<icrc>>)
        /\ \A i \in 1 .. Len(most) : w[i] = most[i]
    BY <1>14, <1>15, <2>1, ConcatIs
  <2> QED
    BY ONLY <1>14, <1>16, <2>1, <2>2
<1>18. w = Frame(ah, body)
  <2>1. Frame(ah, body) = front \o ip \o <<udp>> \o body \o <<icrc>>
    BY <1>2, <1>3, <1>7 DEF Frame
  <2>2. front \o ip \o <<udp>> \o body = front \o covered
    <3>0. PICK one : one = <<udp>>
      OBVIOUS
    <3>1. IsSeq(front) /\ IsSeq(ip) /\ IsSeq(one) /\ IsSeq(body) /\ IsSeq(head)
      BY <1>6, <1>8, <1>10, <3>0, OneIs DEF BodyIs
    <3>2. Associates(front, ip, one) /\ Associates(front, head, body)
      BY ONLY <3>1, ConcatAssociates
    <3> QED
      BY ONLY <1>9, <1>11, <3>0, <3>2 DEF Associates
  <2> QED
    BY <1>13, <1>15, <2>1, <2>2
<1>19. w[v + 1] = eth /\ \A i \in 1 .. n + 1 + b : w[v + 1 + i] = covered[i]
  <2>1. v + 1 \in 1 .. len
    BY ONLY <1>16, v \in Nat, n \in Nat, b \in Nat
  <2>2. ASSUME NEW i \in 1 .. n + 1 + b PROVE w[v + 1 + i] = covered[i]
    <3>1. v + 1 + i \in 1 .. len
      BY ONLY <1>16, v \in Nat, n \in Nat, b \in Nat, i \in 1 .. n + 1 + b
    <3> QED
      BY ONLY <1>14, <1>17, <3>1, i \in 1 .. n + 1 + b
  <2> QED
    BY ONLY <1>14, <1>17, <2>1, <2>2
<1>20. w[v + 1 + 1].ihl = MinIhl
  <2>1. 1 \in 1 .. n + 1 + b
    BY ONLY n \in Nat, b \in Nat
  <2>2. w[v + 1 + 1] = ip[1]
    BY ONLY <1>12, <1>19, <2>1
  <2> QED
    BY ONLY <1>6, <2>2
<1>21. \A i \in 1 .. b : w[v + 1 + (n + 1 + i)] = body[i]
  <2>1. ASSUME NEW i \in 1 .. b PROVE w[v + 1 + (n + 1 + i)] = body[i]
    <3>1. n + 1 + i \in 1 .. n + 1 + b
      BY ONLY n \in Nat, b \in Nat, i \in 1 .. b
    <3>2. w[v + 1 + (n + 1 + i)] = covered[n + 1 + i]
      BY ONLY <1>19, <3>1
    <3>3. covered[n + 1 + i] = body[i]
      BY ONLY <1>12, i \in 1 .. b
    <3> QED
      BY ONLY <3>2, <3>3
  <2> QED
    BY ONLY <2>1
<1>22. PICK t \in Nat : t = v + 1 + 1 + n + 1
  OBVIOUS
<1>23. w[t] = body[1] /\ t <= len /\ (2 <= b => w[t + 1] = body[2])
  <2>1. 1 \in 1 .. b /\ t = v + 1 + (n + 1 + 1)
    BY ONLY <1>4, <1>22, b \in Nat, v \in Nat, n \in Nat
  <2>2. 2 <= b => 2 \in 1 .. b
    BY ONLY b \in Nat
  <2>3. t + 1 = v + 1 + (n + 1 + 2)
    BY ONLY <1>22, v \in Nat, n \in Nat
  <2>4. t <= len
    BY ONLY <1>4, <1>16, <1>22, b \in Nat, v \in Nat, n \in Nat
  <2>5. w[t] = body[1]
    BY ONLY <1>21, <2>1
  <2>6. 2 <= b => w[t + 1] = body[2]
    BY ONLY <1>21, <2>2, <2>3
  <2> QED
    BY ONLY <2>4, <2>5, <2>6
<1>24. /\ w[t].padcnt \in Nat
       /\ w[t].type = "UD" => w[t + 1].src \in Nat
  BY <1>4, <1>23 DEF BodyIs
<1>25. Shaped(w)
  <2> DEFINE pe == VnetHdr + 1
             pi == pe + 1
             udpp == IF w[pe].family = "v4" THEN pi + 1 + OptionsLen(w[pi]) ELSE pi + 2
             bth == udpp + 1
  <2>1. pe = v + 1 /\ pi = v + 1 + 1
    BY <1>2
  <2>2. w[pe].family = Family(ah.gid)
    BY <1>3, <1>19, <2>1
  <2>4. w[pi].ihl \in Nat /\ OptionsLen(w[pi]) = 0
    BY <1>20, <2>1 DEF OptionsLen, MinIhl, LenWords
  <2>3. udpp = v + 1 + 1 + n
    BY <1>1, <2>1, <2>2, <2>4
  <2> HIDE DEF udpp
  <2>5. bth = t
    BY <1>22, <2>3
  <2> HIDE DEF bth, pi, pe
  <2>6. /\ pi <= Len(w) => w[pi].ihl \in Nat
        /\ pi <= Len(w) /\ bth <= Len(w) => w[bth].padcnt \in Nat
        /\ pi <= Len(w) /\ bth < Len(w) /\ w[bth].type = "UD" => w[bth + 1].src \in Nat
    BY <1>24, <2>4, <2>5
  <2> QED
    BY <1>17, <2>6 DEF Shaped, pe, pi, udpp, bth
<1> QED
  BY <1>18, <1>25

\* A list in the region can be mapped, and its payload has a length.
Mappable(list) ==
  /\ ContextPages => MapSge(Mr, list).num = SgePages(list)
  /\ Len(Units(MapSge(Mr, list).iovs)) \in Nat

LEMMA PiecesMappable ==
  ASSUME WholePages, NEW list, NEW n \in Nat, Pieces(Mr, list, n)
  PROVE  Mappable(list)
<1>1. PICK np \in Nat : PageRegion(Mr, np)
  BY RegionIs
<1>2. /\ MapSge(Mr, list) \in Mapping
      /\ ContextRegion(Mr) => MapSge(Mr, list).num = SgePages(list)
  BY <1>1, MapSgePages
<1>3. Units(MapSge(Mr, list).iovs) \in Seq(Int)
  <2>1. MapSge(Mr, list).iovs \in Seq(IntIov)
    BY <1>2 DEF Mapping
  <2> QED
    BY <2>1, UnitsAre
<1>4. Len(Units(MapSge(Mr, list).iovs)) \in Nat
  BY <1>3, LenProperties
<1> QED
  BY <1>2, <1>4, ContextRegionIs DEF Mappable

LEMMA WholeMappable ==
  ASSUME WholePages, NEW sges \in Seq(NatSge), Mapped(Mr, sges)
  PROVE  Mappable(sges)
<1>1. PICK n \in Nat : n = Len(sges)
  BY LenProperties
<1>2. ASSUME NEW k \in 1 .. n
      PROVE  sges[k].addr \in Nat /\ sges[k].len \in Nat \ {0} /\ InRegion(Mr, sges[k])
  <2>1. sges[k] \in NatSge
    BY <1>1, ElementOfSeq
  <2>2. InRegion(Mr, sges[k])
    BY <1>1 DEF Mapped
  <2> QED
    BY <2>1, <2>2 DEF NatSge
<1>3. Pieces(Mr, sges, n)
  BY <1>1, <1>2 DEF Pieces
<1> QED
  BY <1>3, PiecesMappable

LEMMA SegmentsMappable ==
  ASSUME WholePages, NEW sges \in Seq(NatSge), NEW mtu \in Nat \ {0}
  PROVE  /\ Len(Segments(sges, mtu)) \in Nat
         /\ \A i \in 1 .. Len(Segments(sges, mtu)) :
              Mapped(Mr, Segments(sges, mtu)[i]) => Mappable(Segments(sges, mtu)[i])
<1>1. PICK m \in Nat : m = Len(sges)
  BY LenProperties
<1>2. PICK lists : lists = Segments(sges, mtu)
  OBVIOUS
<1>3. PartLists(lists, sges, m) /\ Len(lists) \in Nat
  BY <1>1, <1>2, SegmentsParts
<1>4. ASSUME NEW i \in 1 .. Len(lists), Mapped(Mr, lists[i]) PROVE Mappable(lists[i])
  <2>1. PartList(lists[i], sges, m)
    BY <1>3 DEF PartLists
  <2>2. Pieces(Mr, lists[i], Len(lists[i]))
    BY <1>4, <2>1, MappedParts
  <2>3. Len(lists[i]) \in Nat
    BY <2>1 DEF PartList
  <2> QED
    BY <2>2, <2>3, PiecesMappable
<1> QED
  BY <1>2, <1>3, <1>4

\* How the process may end, if at all: "pages" only when a page of the region is not one
\* of the context.
Ends(a, S) == a \in S /\ (ContextPages => a # "pages")

\* A list that roce_build_req_pkt refuses, or whose pages it counts otherwise.
LEMMA BuildErrorIs ==
  ASSUME NEW list, Mapped(Mr, list) => Mappable(list)
  PROVE  /\ Ends(BuildError(list), {"none", "map_refused", "pages"})
         /\ BuildError(list) = "none" => Mapped(Mr, list)
BY DEF Ends, BuildError, Mappable

LEMMA FirstErrorIs ==
  ASSUME NEW lists, Len(lists) \in Nat, Unbuildable(lists) # {},
         \A i \in 1 .. Len(lists) : Mapped(Mr, lists[i]) => Mappable(lists[i])
  PROVE  Ends(FirstError(lists), {"map_refused", "pages"})
<1>1. PICK S : S = Unbuildable(lists)
  OBVIOUS
<1>2. S \in SUBSET Nat /\ S # {}
  BY <1>1 DEF Unbuildable
<1>3. \E i \in S : \A j \in S : i <= j
  BY <1>2, Least
<1>4. PICK i \in S : FirstError(lists) = BuildError(lists[i])
  BY <1>1, <1>3 DEF FirstError
<1>5. i \in 1 .. Len(lists) /\ BuildError(lists[i]) # "none"
  BY <1>1 DEF Unbuildable
<1>6. Ends(BuildError(lists[i]), {"none", "map_refused", "pages"})
  BY <1>5, BuildErrorIs
<1> QED
  BY <1>4, <1>5, <1>6 DEF Ends

LEMMA ImmIs == ASSUME NEW imm PROVE IsSeq(Imm(imm))
BY EmptyIs, OneIs DEF Imm

LEMMA RcFramesShaped ==
  ASSUME WholePages, NEW sges \in Seq(NatSge), snd.path_mtu \in Nat \ {0},
         Unbuildable(Segments(sges, snd.path_mtu)) = {}, type = "RC", NEW n, NEW imm
  PROVE  /\ IsSeq(RcFrames(n, sges, imm))
         /\ \A i \in 1 .. Len(RcFrames(n, sges, imm)) : Shaped(RcFrames(n, sges, imm)[i])
<1>1. PICK lists : lists = Segments(sges, snd.path_mtu)
  OBVIOUS
<1>2. Len(lists) \in Nat /\ \A i \in 1 .. Len(lists) : Mappable(lists[i])
  <2>1. /\ Len(lists) \in Nat
        /\ \A i \in 1 .. Len(lists) : Mapped(Mr, lists[i]) => Mappable(lists[i])
    BY <1>1, SegmentsMappable
  <2>2. \A i \in 1 .. Len(lists) : BuildError(lists[i]) = "none"
    BY <1>1 DEF Unbuildable
  <2> QED
    BY <2>1, <2>2, BuildErrorIs
<1>3. PICK last \in Nat : last = Len(lists)
  BY <1>2
<1>4. PICK frames : frames = RcFrames(n, sges, imm)
  OBVIOUS
<1>5. ASSUME NEW i \in 1 .. last PROVE Shaped(frames[i])
  <2>1. \E op, eths : /\ frames[i] = Frame(snd.ah_attr,
                                           Body(n, Units(MapSge(Mr, lists[i]).iovs), op, Qpn, eths))
                      /\ eths = Imm(imm) \/ eths = <<>>
    BY <1>1, <1>3, <1>4 DEF RcFrames
  <2>2. PICK op, eths : /\ frames[i] = Frame(snd.ah_attr,
                                           Body(n, Units(MapSge(Mr, lists[i]).iovs), op, Qpn, eths))
                        /\ eths = Imm(imm) \/ eths = <<>>
    BY ONLY <2>1
  <2>3. IsSeq(eths)
    BY <2>2, ImmIs, EmptyIs
  <2>4. PICK cells : cells = Units(MapSge(Mr, lists[i]).iovs)
    OBVIOUS
  <2>5. Len(cells) \in Nat
    BY <1>2, <1>3, <2>4 DEF Mappable
  <2>6. type # "UD"
    OBVIOUS
  <2>7. BodyIs(Body(n, cells, op, Qpn, eths))
    BY ONLY <2>3, <2>5, <2>6, BuiltBody
  <2> QED
    BY <2>2, <2>4, <2>7, BuiltFrame
<1>6. DOMAIN frames = 1 .. last /\ frames = [i \in DOMAIN frames |-> frames[i]]
  BY <1>1, <1>3, <1>4 DEF RcFrames
<1>7. IsSeq(frames) /\ Len(frames) = last
  BY <1>6, FunctionIsSeq
<1> QED
  BY <1>4, <1>5, <1>7

LEMMA UdFrameShaped ==
  ASSUME WholePages, NEW sges \in Seq(NatSge), Mapped(Mr, sges),
         NEW n, NEW imm, NEW ah, NEW src \in Nat
  PROVE  Shaped(UdFrame(n, sges, imm, ah, src))
<1>1. PICK deth, eths : deth = [k |-> "deth", src |-> src] /\ eths = <<deth>> \o Imm(imm)
  OBVIOUS
<1>2. IsSeq(eths) /\ 1 <= Len(eths) /\ eths[1] = deth
  <2>1. IsSeq(<<deth>>) /\ Len(<<deth>>) = 1 /\ <<deth>>[1] = deth
    BY OneIs
  <2>2. IsSeq(Imm(imm)) /\ Len(Imm(imm)) \in Nat
    BY ImmIs DEF IsSeq
  <2>3. Joined(eths, <<deth>>, Imm(imm))
    BY <1>1, <2>1, <2>2, Join
  <2>4. 1 \in 1 .. 1
    OBVIOUS
  <2>5. /\ IsSeq(eths) /\ Len(eths) = Len(<<deth>>) + Len(Imm(imm))
        /\ \A i \in 1 .. Len(<<deth>>) : eths[i] = <<deth>>[i]
    BY ONLY <2>3 DEF Joined
  <2> QED
    BY ONLY <2>1, <2>2, <2>4, <2>5
<1>3. PICK cells : cells = Units(MapSge(Mr, sges).iovs)
  OBVIOUS
<1>4. Len(cells) \in Nat
  BY <1>3, WholeMappable DEF Mappable
<1>5. eths[1].src \in Nat
  BY <1>1, <1>2
<1>6. PICK op : op = [place |-> "ONLY", imm |-> imm]
  OBVIOUS
<1>7. BodyIs(Body(n, cells, op, ah.qpn, eths))
  BY ONLY <1>2, <1>4, <1>5, BuiltBody
<1>8. UdFrame(n, sges, imm, ah, src) = Frame(ah, Body(n, cells, op, ah.qpn, eths))
  BY <1>1, <1>3, <1>6 DEF UdFrame
<1> QED
  BY <1>7, <1>8, BuiltFrame

-----------------------------------------------------------------------------
(***************************************************************************)
(* The receiver: its queue, the receive WR in resp.wr with a cursor in its *)
(* list, and its memory.                                                   *)
(***************************************************************************)
Queued(q) == IsSeq(q) /\ \A i \in 1 .. Len(q) : q[i].sges \in RecvLists

\* wr with its cursor and byte_len is the receive WR in resp.
HeldWr(resps, wr, cur, len) ==
  /\ resps = <<[wr |-> wr, cur |-> cur, byte_len |-> len]>>
  /\ wr.sges \in RecvLists /\ CursorIn(wr.sges, cur, Len(wr.sges))

Held(resps) == resps = <<>> \/ \E wr, cur, len : HeldWr(resps, wr, cur, len)

Receiver(s) ==
  /\ DOMAIN s = Fields
  /\ Queued(s.rq) /\ Held(s.resp) /\ Memory(s.mem) /\ s.dest \in Nat

LEMMA OnlyChanged == ASSUME NEW x, NEW y PROVE [<<x>> EXCEPT ![1] = y] = <<y>>
OBVIOUS

LEMMA RecvListIs ==
  ASSUME RecvsFit, NEW sges \in RecvLists
  PROVE  \E m \in Nat : /\ m = Len(sges) /\ 1 <= m /\ m <= MaxSge
                        /\ sges \in Seq(NatSge)
                        /\ \E pages \in Nat :
                             /\ m * pages <= 2 * MaxSge
                             /\ \A i \in 1 .. m : Touches(sges[i], pages)
<1>1. /\ sges \in Seq(NatSge) /\ Len(sges) \in 1 .. MaxSge
      /\ \E pages \in Nat : /\ Len(sges) * pages <= 2 * MaxSge
                             /\ \A i \in 1 .. Len(sges) : Touches(sges[i], pages)
  BY DEF RecvsFit
<1>2. MaxSge \in Nat
  BY FramesAssumption
<1>3. Len(sges) \in Nat /\ 1 <= Len(sges) /\ Len(sges) <= MaxSge
  BY ONLY <1>1, <1>2
<1> QED
  BY ONLY <1>1, <1>3

\* What roce_recv_payload maps to take a packet: no more buffers than dst_iovs holds,
\* and as many as pages when those of the region are those of the context.
LEMMA PayloadMapped ==
  ASSUME WholePages, RecvsFit, NEW sges \in RecvLists,
         NEW cur, CursorIn(sges, cur, Len(sges)), NEW bytes \in Nat,
         NEW adv, adv = SgeAdvance(sges, bytes, cur), Mapped(Mr, adv.dst)
  PROVE  Mappable(adv.dst) /\ ~(MapSge(Mr, adv.dst).num > 2 * MaxSge)
<1>1. PICK m \in Nat, pages \in Nat :
         /\ m = Len(sges) /\ sges \in Seq(NatSge)
         /\ m * pages <= 2 * MaxSge /\ \A i \in 1 .. m : Touches(sges[i], pages)
  BY RecvListIs
<1>2. /\ adv \in Taking /\ Len(adv.dst) \in Nat /\ Len(adv.dst) <= m
      /\ Parts(adv.dst, sges, m)
  BY <1>1, AdvanceParts
<1>3. PICK n \in Nat : n = Len(adv.dst) /\ n <= m
  BY <1>2
<1>4. ASSUME NEW k \in 1 .. n
      PROVE  /\ PartOf(adv.dst[k], sges, m) /\ InRegion(Mr, adv.dst[k])
             /\ adv.dst[k].addr \in Nat /\ adv.dst[k].len \in Nat \ {0}
  <2>1. PartOf(adv.dst[k], sges, m)
    BY <1>2, <1>3 DEF Parts
  <2>2. InRegion(Mr, adv.dst[k])
    BY <1>3 DEF Mapped
  <2> QED
    BY <2>1, <2>2 DEF PartOf
<1>5. Pieces(Mr, adv.dst, n)
  BY <1>3, <1>4 DEF Pieces
<1>6. Mappable(adv.dst)
  BY <1>5, PiecesMappable
<1>7. \A k \in 1 .. n : CountCopied(SgeCopy(Mr, adv.dst[k])) <= pages
  BY <1>1, <1>4, FewPages
<1>8. PICK np \in Nat : PageRegion(Mr, np)
  BY RegionIs
<1>9. MapSge(Mr, adv.dst) \in Mapping /\ MapSge(Mr, adv.dst).num <= n * pages
  BY <1>5, <1>7, <1>8, MapSgePages
<1>10. PICK num \in Int : num = MapSge(Mr, adv.dst).num /\ num <= n * pages
  BY <1>9 DEF Mapping
<1>11. MaxSge \in Nat
  BY FramesAssumption
<1>12. n * pages <= m * pages
  BY ONLY <1>3, ProductUpTo, n \in Nat, m \in Nat, pages \in Nat
<1>13. ~(num > 2 * MaxSge)
  <2>1. PICK x \in Int, y \in Int : x = n * pages /\ y = m * pages
    BY ONLY n \in Nat, m \in Nat, pages \in Nat
  <2> QED
    BY ONLY <1>1, <1>10, <1>11, <1>12, <2>1, num \in Int, x \in Int, y \in Int
<1> QED
  BY <1>6, <1>10, <1>13

Delivery(s, wr, cur, len, r, bytes, adv, bufs, completes, t) ==
  /\ Receiver(s) /\ s.abort = "none" /\ HeldWr(s.resp, wr, cur, len) /\ r = s.resp[1]
  /\ adv = SgeAdvance(wr.sges, bytes, cur)
  /\ t = Deliver(s, r, adv, MapSge(Mr, adv.dst), bufs, completes)

LEMMA Delivered ==
  ASSUME FramesGiven, NEW s, NEW wr, NEW cur, NEW len, NEW r, NEW bytes \in Nat,
         NEW adv, NEW bufs, NEW completes, NEW t,
         Delivery(s, wr, cur, len, r, bytes, adv, bufs, completes, t)
  PROVE  Receiver(t) /\ Ends(t.abort, {"none", "pages"})
<1> DEFINE to == [idx |-> adv.idx, off |-> adv.off]
           moved == [s EXCEPT !.resp[1].cur = to]
           memory == Scatter(s.mem, Units(MapSge(Mr, adv.dst).iovs), FlattenSeq(bufs))
           length == r.byte_len + IovLen(bufs)
<1>given. /\ Receiver(s) /\ s.abort = "none" /\ HeldWr(s.resp, wr, cur, len) /\ r = s.resp[1]
       /\ adv = SgeAdvance(wr.sges, bytes, cur)
       /\ t = Deliver(s, r, adv, MapSge(Mr, adv.dst), bufs, completes)
  BY DEF Delivery
<1>0. WholePages /\ RecvsFit
  BY DEF FramesGiven
<1>1. PICK x : x = [wr |-> wr, cur |-> cur, byte_len |-> len]
  OBVIOUS
<1>2. s.resp = <<x>> /\ wr.sges \in RecvLists /\ CursorIn(wr.sges, cur, Len(wr.sges))
  BY <1>given, <1>1 DEF HeldWr
<1>3. CursorIn(wr.sges, to, Len(wr.sges))
  <2>1. PICK m \in Nat : m = Len(wr.sges) /\ wr.sges \in Seq(NatSge)
    BY <1>0, <1>2, RecvListIs
  <2>2. CursorIn(wr.sges, adv, m)
    BY <1>given, <1>2, <2>1, AdvanceParts
  <2> QED
    BY <2>1, <2>2 DEF CursorIn
<1>4. PICK y : y = [x EXCEPT !.cur = to]
  OBVIOUS
<1>5. y = [wr |-> wr, cur |-> to, byte_len |-> len]
  BY <1>1, <1>4
<1>6. [s.resp EXCEPT ![1].cur = to] = <<y>>
  BY <1>2, <1>4, OnlyChanged
<1>7. /\ DOMAIN moved = Fields /\ moved.resp = <<y>> /\ moved.rq = s.rq
      /\ moved.mem = s.mem /\ moved.dest = s.dest /\ moved.abort = "none"
  <2>1. moved = [s EXCEPT !.resp = [s.resp EXCEPT ![1].cur = to]]
    OBVIOUS
  <2> HIDE DEF moved
  <2> QED
    BY <1>given, <1>6, <2>1 DEF Receiver, Fields
<1>8. Held(<<y>>)
  BY <1>2, <1>3, <1>5 DEF Held, HeldWr
<1>9. Queued(s.rq) /\ Memory(s.mem) /\ s.dest \in Nat
  BY <1>given DEF Receiver
<1> HIDE DEF moved, memory, length, to
<1>10. CASE ~Mapped(Mr, adv.dst)
  <2>1. t = [moved EXCEPT !.ok = FALSE, !.failed = TRUE]
    BY <1>given, <1>10 DEF Deliver, moved, to
  <2> QED
    BY <1>7, <1>8, <1>9, <2>1 DEF Receiver, Fields, Ends
<1>11. CASE Mapped(Mr, adv.dst)
  <2>1. Mappable(adv.dst) /\ ~(MapSge(Mr, adv.dst).num > 2 * MaxSge)
    BY <1>given, <1>0, <1>2, <1>11, PayloadMapped
  <2>2. Memory(memory)
    <3>1. PICK cells : cells = Units(MapSge(Mr, adv.dst).iovs) /\ Len(cells) \in Nat
      BY <2>1 DEF Mappable
    <3> QED
      BY <1>9, <3>1, ScatterIs DEF memory
  <2>3. CASE MapSge(Mr, adv.dst).num # SgePages(adv.dst)
    <3>1. t = [moved EXCEPT !.ok = FALSE, !.abort = "pages"]
      BY <1>given, <1>11, <2>1, <2>3 DEF Deliver, moved, to
    <3>2. ~ContextPages
      BY <2>1, <2>3 DEF Mappable
    <3> QED
      BY <1>7, <1>8, <1>9, <3>1, <3>2 DEF Receiver, Fields, Ends
  <2>4. CASE MapSge(Mr, adv.dst).num = SgePages(adv.dst) /\ completes
    <3>1. \E entry : t = [moved EXCEPT !.mem = memory, !.resp = <<>>, !.comps = entry]
      BY <1>given, <1>11, <2>1, <2>4 DEF Deliver, moved, memory, to
    <3>2. /\ DOMAIN t = Fields /\ t.resp = <<>> /\ t.mem = memory /\ t.rq = s.rq
          /\ t.dest = s.dest /\ t.abort = "none"
      BY <1>7, <3>1 DEF Fields
    <3> QED
      BY <1>9, <2>2, <3>2 DEF Receiver, Held, Ends
  <2>5. CASE MapSge(Mr, adv.dst).num = SgePages(adv.dst) /\ ~completes
    <3>1. t = [moved EXCEPT !.mem = memory, !.resp[1].byte_len = length]
      BY <1>given, <1>11, <2>1, <2>5 DEF Deliver, moved, memory, length, to
    <3>2. PICK z : z = [y EXCEPT !.byte_len = length]
      OBVIOUS
    <3>3. [moved.resp EXCEPT ![1].byte_len = length] = <<z>>
      BY <1>7, <3>2, OnlyChanged
    <3>4. /\ DOMAIN t = Fields /\ t.resp = <<z>> /\ t.mem = memory /\ t.rq = s.rq
          /\ t.dest = s.dest /\ t.abort = "none"
      <4>1. t = [moved EXCEPT !.mem = memory,
                              !.resp = [moved.resp EXCEPT ![1].byte_len = length]]
        BY <3>1
      <4> QED
        BY <1>7, <3>3, <4>1 DEF Fields
    <3>5. z = [wr |-> wr, cur |-> to, byte_len |-> length]
      BY <1>5, <3>2
    <3>6. Held(<<z>>)
      BY <1>2, <1>3, <3>5 DEF Held, HeldWr
    <3> QED
      BY <1>9, <2>2, <3>4, <3>6 DEF Receiver, Ends
  <2> QED
    BY <2>4, <2>5, <2>3
<1> QED
  BY <1>10, <1>11

\* Only the assertions of roce_sge_len and on the number of pages can fail.
Received(t) == Receiver(t) /\ Ends(t.abort, {"none", "sge_len", "pages"})

LEMMA Filled ==
  ASSUME FramesGiven, NEW s, Receiver(s), s.abort = "none",
         NEW wr, NEW cur, NEW len, HeldWr(s.resp, wr, cur, len),
         NEW bufs, IovLen(bufs) \in Nat, NEW completes,
         NEW t, t = Fill(s, s.resp[1], bufs, completes)
  PROVE  Received(t) /\ (InList(wr.sges, cur) => t.abort # "sge_len")
<1>1. PICK r : r = s.resp[1]
  OBVIOUS
<1>2. r.wr = wr /\ r.cur = cur
  BY <1>1 DEF HeldWr
<1>3. PICK adv : adv = SgeAdvance(wr.sges, IovLen(bufs), cur)
  OBVIOUS
<1>4. PICK bytes \in Nat : bytes = IovLen(bufs)
  OBVIOUS
<1>5. CASE ~InList(wr.sges, cur)
  <2>1. t = [s EXCEPT !.ok = FALSE, !.abort = "sge_len"]
    BY <1>1, <1>2, <1>5 DEF Fill
  <2> QED
    BY <1>5, <2>1 DEF Received, Receiver, Fields, Ends
<1>6. CASE InList(wr.sges, cur) /\ SgeLen(wr.sges, cur) < IovLen(bufs)
  <2>1. t = [s EXCEPT !.ok = FALSE, !.failed = TRUE]
    BY <1>1, <1>2, <1>6 DEF Fill
  <2> QED
    BY <2>1 DEF Received, Receiver, Fields, Ends
<1>7. CASE InList(wr.sges, cur) /\ ~(SgeLen(wr.sges, cur) < IovLen(bufs))
  <2>1. t = Deliver(s, r, adv, MapSge(Mr, adv.dst), bufs, completes)
    BY <1>1, <1>2, <1>3, <1>7 DEF Fill
  <2>2. /\ FramesGiven /\ Receiver(s) /\ s.abort = "none" /\ HeldWr(s.resp, wr, cur, len)
        /\ adv = SgeAdvance(wr.sges, bytes, cur)
    BY <1>3, <1>4
  <2>3. Receiver(t) /\ Ends(t.abort, {"none", "pages"})
    <3>1. Delivery(s, wr, cur, len, r, bytes, adv, bufs, completes, t)
      BY ONLY <1>1, <2>1, <2>2 DEF Delivery
    <3> QED
      BY ONLY <2>2, <3>1, bytes \in Nat, Delivered
  <2> QED
    BY <2>3 DEF Received, Ends
<1> QED
  BY <1>5, <1>6, <1>7

\* The head of the queue starts at the start of its list.
LEMMA Popped ==
  ASSUME FramesGiven, NEW s, Receiver(s), ~(s.resp = <<>> /\ s.rq = <<>>),
         NEW p, p = PopRecvWr(s)
  PROVE  /\ Receiver(p) /\ p.abort = s.abort
         /\ \E wr, cur, len : /\ HeldWr(p.resp, wr, cur, len)
                              /\ s.resp = <<>> => InList(wr.sges, cur)
<1>1. CASE s.resp # <<>>
  <2>1. p = s
    BY <1>1 DEF PopRecvWr
  <2> QED
    BY <1>1, <2>1 DEF Receiver, Held
<1>2. CASE s.resp = <<>>
  <2>1. PICK wr : wr = Head(s.rq)
    OBVIOUS
  <2>2. PICK x : x = [wr |-> wr, cur |-> Start, byte_len |-> 0]
    OBVIOUS
  <2>3. p = [s EXCEPT !.rq = Tail(@), !.resp = <<x>>]
    BY <1>2, <2>1, <2>2 DEF PopRecvWr
  <2>4. IsSeq(s.rq) /\ \A i \in 1 .. Len(s.rq) : s.rq[i].sges \in RecvLists
    BY DEF Receiver, Queued
  <2>5. /\ IsSeq(Tail(s.rq)) /\ Len(s.rq) \in Nat \ {0} /\ Len(Tail(s.rq)) = Len(s.rq) - 1
        /\ \A i \in 1 .. Len(Tail(s.rq)) : Tail(s.rq)[i] = s.rq[i + 1]
        /\ Head(s.rq) = s.rq[1]
    BY <1>2, <2>4, TailIs
  <2>6. Queued(Tail(s.rq))
    <3>1. ASSUME NEW i \in 1 .. Len(Tail(s.rq)) PROVE Tail(s.rq)[i].sges \in RecvLists
      <4>1. i + 1 \in 1 .. Len(s.rq)
        BY <2>5
      <4> QED
        BY <2>4, <2>5, <4>1
    <3> QED
      BY <2>5, <3>1 DEF Queued
  <2>7. wr.sges \in RecvLists
    <3>1. 1 \in 1 .. Len(s.rq)
      BY <2>5
    <3> QED
      BY <2>1, <2>4, <2>5, <3>1
  <2>8. PICK m \in Nat : m = Len(wr.sges) /\ 1 <= m /\ wr.sges \in Seq(NatSge)
    BY <2>7, RecvListIs DEF FramesGiven
  <2>9. CursorIn(wr.sges, Start, m) /\ InList(wr.sges, Start)
    <3>1. wr.sges[1] \in NatSge
      <4>1. 1 \in 1 .. m
        BY ONLY <2>8, m \in Nat
      <4> QED
        BY <2>8, <4>1, ElementOfSeq
    <3>2. wr.sges[0 + 1].len \in Nat
      BY <3>1 DEF NatSge
    <3> QED
      BY <2>8, <3>2 DEF CursorIn, InList, Start
  <2>10. HeldWr(<<x>>, wr, Start, 0)
    BY <2>2, <2>7, <2>8, <2>9 DEF HeldWr
  <2>11. /\ DOMAIN p = Fields /\ p.rq = Tail(s.rq) /\ p.resp = <<x>> /\ p.mem = s.mem
         /\ p.dest = s.dest /\ p.abort = s.abort
    BY <2>3 DEF Receiver, Fields
  <2>12. Held(<<x>>)
    BY <2>10 DEF Held
  <2>13. Receiver(p)
    BY <2>6, <2>11, <2>12 DEF Receiver
  <2> QED
    BY <2>9, <2>10, <2>11, <2>13
<1> QED
  BY <1>1, <1>2

LEMMA PayloadReceived ==
  ASSUME FramesGiven, NEW s, Receiver(s), s.abort = "none",
         NEW bufs, IovLen(bufs) \in Nat, NEW inprocess, NEW completes,
         NEW t, t = RecvPayload(s, bufs, inprocess, completes)
  PROVE  Received(t) /\ (inprocess = FALSE => t.abort # "sge_len")
<1>1. CASE inprocess # (s.resp # <<>>) \/ (s.resp = <<>> /\ s.rq = <<>>)
  <2>1. t = [s EXCEPT !.ok = FALSE]
    BY <1>1 DEF RecvPayload
  <2> QED
    BY <2>1 DEF Received, Receiver, Fields, Ends
<1>2. CASE inprocess = (s.resp # <<>>) /\ ~(s.resp = <<>> /\ s.rq = <<>>)
  <2>1. PICK p : p = PopRecvWr(s)
    OBVIOUS
  <2>2. Receiver(p) /\ p.abort = "none"
    BY <1>2, <2>1, Popped
  <2>3. PICK wr, cur, len : /\ HeldWr(p.resp, wr, cur, len)
                            /\ s.resp = <<>> => InList(wr.sges, cur)
    BY <1>2, <2>1, Popped
  <2>4. t = Fill(p, p.resp[1], bufs, completes)
    BY <1>2, <2>1 DEF RecvPayload
  <2>5. Received(t) /\ (InList(wr.sges, cur) => t.abort # "sge_len")
    BY <2>2, <2>3, <2>4, Filled
  <2>6. inprocess = FALSE => s.resp = <<>>
    BY <1>2
  <2> QED
    BY <2>3, <2>5, <2>6
<1> QED
  BY <1>1, <1>2

\* roce_get_eth takes the unit in front, when there is one.
LEMMA EthTaken ==
  ASSUME NEW w, NEW p \in Nat, NEW k \in Nat, NEW q \in Nat, Places(w, p, k, q),
         NEW bufs, bufs = Window(w, p, k, q)
  PROVE  /\ IovLen(bufs) = q - p /\ q - p \in Nat
         /\ HasEth(bufs) => p < q
         /\ p < q => \E j \in Nat : Advanced(bufs, w, p, 1, j, q, 1)
<1>1. IovLen(bufs) = q - p
  BY WindowLen
<1>2. q - p \in Nat
  BY DEF Places
<1>3. HasEth(bufs) => p < q
  BY <1>1, <1>2 DEF HasEth
<1>4. ASSUME p < q PROVE \E j \in Nat : Advanced(bufs, w, p, 1, j, q, 1)
  <2>1. 1 = Smaller(q - p, 1) /\ 1 \in Nat
    BY <1>2, <1>4 DEF Smaller
  <2> QED
    BY <2>1, WindowAdvance
<1> QED
  BY <1>1, <1>2, <1>3, <1>4

LEMMA RcReceived ==
  ASSUME FramesGiven, NEW s, Receiver(s), s.abort = "none",
         NEW w, NEW p \in Nat, NEW k \in Nat, NEW q \in Nat, Places(w, p, k, q),
         NEW bufs, bufs = Window(w, p, k, q), NEW bth, NEW t, t = RecvRc(s, bth, bufs)
  PROVE  Received(t)
<1>1. PICK inprocess, completes : /\ inprocess = (bth.op.place \in {"MIDDLE", "LAST"})
                                  /\ completes = (bth.op.place \in {"LAST", "ONLY"})
  OBVIOUS
<1>2. CASE ~bth.op.imm
  <2>1. t = RecvPayload(s, bufs, inprocess, completes)
    BY <1>1, <1>2 DEF RecvRc
  <2>2. IovLen(bufs) \in Nat
    BY EthTaken
  <2> QED
    BY <2>1, <2>2, PayloadReceived
<1>3. CASE bth.op.imm /\ ~HasEth(bufs)
  <2>1. t = [s EXCEPT !.ok = FALSE]
    BY <1>3 DEF RecvRc
  <2> QED
    BY <2>1 DEF Received, Receiver, Fields, Ends
<1>4. CASE bth.op.imm /\ HasEth(bufs)
  <2>1. PICK j \in Nat : Advanced(bufs, w, p, 1, j, q, 1)
    BY <1>4, EthTaken
  <2>2. PICK rest : rest = IovAdvance(bufs, 1).bufs
    OBVIOUS
  <2>3. rest = Window(w, p + 1, j, q) /\ Places(w, p + 1, j, q)
    BY <2>1, <2>2 DEF Advanced
  <2>4. IovLen(rest) \in Nat
    <3>1. p + 1 \in Nat
      OBVIOUS
    <3> QED
      BY <2>3, <3>1, EthTaken
  <2>5. t = RecvPayload(s, rest, inprocess, completes)
    BY <1>1, <1>4, <2>2 DEF RecvRc
  <2> QED
    BY <2>4, <2>5, PayloadReceived
<1> QED
  BY <1>2, <1>3, <1>4

\* The GRH in front of the payload.
LEMMA GrhLen ==
  ASSUME NEW ip, IsSeq(ip), NEW w, NEW p \in Nat, NEW k \in Nat, NEW q \in Nat,
         Places(w, p, k, q), NEW rest, rest = Window(w, p, k, q)
  PROVE  IovLen(<<BuildGrh(ip)>> \o rest) \in Nat
<1>1. PICK grh : grh = BuildGrh(ip)
  OBVIOUS
<1>2. PICK zero : zero = [k |-> "zero"]
  OBVIOUS
<1>3. IsSeq(<<zero>>)
  BY OneIs
<1>4. IsSeq(<<zero>> \o ip)
  BY <1>3, ConcatIs
<1>5. Len(grh) \in Nat
  BY <1>1, <1>2, <1>4 DEF BuildGrh, IsSeq
<1>6. PICK u, v : u = Slice(w, p, k) /\ v = Slice(w, k, q) /\ rest = <<u, v>>
  BY DEF Window
<1>7. Len(u) \in Nat /\ Len(v) \in Nat
  <2>1. Spans(w, p, k) /\ Spans(w, k, q)
    BY DEF Places, Spans, IsSeq
  <2> QED
    BY <1>6, <2>1, SliceLen DEF IsSeq
<1>8. PICK all : all = <<grh>> \o rest
  OBVIOUS
<1>9. Len(all) = 3 /\ all[1] = grh /\ all[2] = u /\ all[3] = v
  <2>1. IsSeq(<<grh>>) /\ Len(<<grh>>) = 1 /\ <<grh>>[1] = grh
    BY OneIs
  <2>2. /\ IsSeq(<<u>>) /\ Len(<<u>>) = 1 /\ <<u>>[1] = u
        /\ IsSeq(<<v>>) /\ Len(<<v>>) = 1 /\ <<v>>[1] = v
    BY OneIs
  <2>3. rest = <<u>> \o <<v>>
    BY <1>6, Pair
  <2>4. Joined(rest, <<u>>, <<v>>)
    BY ONLY <2>2, <2>3, Join
  <2>5. IsSeq(rest) /\ Len(rest) = 2 /\ rest[1] = u /\ rest[2] = v
    <3>1. 1 \in 1 .. 1 /\ 1 + 1 = 2
      OBVIOUS
    <3>2. /\ IsSeq(rest) /\ Len(rest) = Len(<<u>>) + Len(<<v>>)
          /\ \A i \in 1 .. Len(<<u>>) : rest[i] = <<u>>[i]
          /\ \A i \in 1 .. Len(<<v>>) : rest[Len(<<u>>) + i] = <<v>>[i]
      BY ONLY <2>4 DEF Joined
    <3> QED
      BY ONLY <2>2, <3>1, <3>2
  <2>6. Joined(all, <<grh>>, rest)
    BY ONLY <1>8, <2>1, <2>5, Join
  <2>7. /\ Len(all) = Len(<<grh>>) + Len(rest)
        /\ \A i \in 1 .. Len(<<grh>>) : all[i] = <<grh>>[i]
        /\ \A i \in 1 .. Len(rest) : all[Len(<<grh>>) + i] = rest[i]
    BY ONLY <2>6 DEF Joined
  <2>8. 1 \in 1 .. 1 /\ 1 \in 1 .. 2 /\ 2 \in 1 .. 2 /\ 1 + 1 = 2 /\ 1 + 2 = 3
    OBVIOUS
  <2> QED
    BY ONLY <2>1, <2>5, <2>7, <2>8
<1>10. Len(all) = 3 /\ \A i \in 1 .. 3 : Len(all[i]) \in Nat
  <2>1. \A i \in 1 .. 3 : i = 1 \/ i = 2 \/ i = 3
    OBVIOUS
  <2> QED
    BY ONLY <1>5, <1>7, <1>9, <2>1
<1>11. \E f \in [0 .. 3 -> Nat] : IovLen(all) = f[3]
  <2>1. PICK n \in Nat : n = 3
    OBVIOUS
  <2>2. n = Len(all) /\ \A i \in 1 .. n : Len(all[i]) \in Nat
    BY ONLY <1>10, <2>1
  <2>3. \E f \in [0 .. n -> Nat] :
          /\ f[0] = 0
          /\ \A i \in 1 .. n : f[i - 1] \in Nat /\ f[i] = f[i - 1] + Len(all[i])
          /\ IovLen(all) = f[n]
    BY ONLY <2>2, n \in Nat, IovLenLoop
  <2> QED
    BY ONLY <2>1, <2>3
<1> QED
  BY <1>1, <1>8, <1>11

LEMMA UdReceived ==
  ASSUME FramesGiven, NEW s, Receiver(s), s.abort = "none",
         NEW w, NEW p \in Nat, NEW k \in Nat, NEW q \in Nat, Places(w, p, k, q),
         NEW bufs, bufs = Window(w, p, k, q), p < q => w[p + 1].src \in Nat,
         NEW bth, NEW ip, IsSeq(ip), NEW t, t = RecvUd(s, bth, bufs, ip)
  PROVE  Received(t) /\ t.abort # "sge_len"
<1>1. CASE ~HasEth(bufs) \/ bth.op.place # "ONLY"
  <2>1. t = [s EXCEPT !.ok = FALSE]
    BY <1>1 DEF RecvUd
  <2> QED
    BY <2>1 DEF Received, Receiver, Fields, Ends
<1>2. CASE HasEth(bufs) /\ bth.op.place = "ONLY"
  <2>1. p < q
    BY <1>2, EthTaken
  <2>2. PICK j \in Nat : Advanced(bufs, w, p, 1, j, q, 1)
    BY <2>1, EthTaken
  <2>3. PICK p1 \in Nat : p1 = p + 1
    OBVIOUS
  <2>4. PICK deth : deth = IovAdvance(bufs, 1)
    OBVIOUS
  <2>5. deth.bufs = Window(w, p1, j, q) /\ deth.data = Slice(w, p, p1) /\ Places(w, p1, j, q)
    BY <2>2, <2>3, <2>4 DEF Advanced
  <2>6. deth.data[1].src \in Nat
    <3>1. p <= p1 /\ p1 - p = 1
      BY <2>3
    <3>2. UnitsOf(Slice(w, p, p1), w, p, p1)
      BY ONLY <2>5, <3>1, UnitsBehind, p \in Nat, p1 \in Nat, j \in Nat, q \in Nat
    <3>3. \A i \in 1 .. 1 : deth.data[i] = w[p + i]
      BY ONLY <2>5, <3>1, <3>2 DEF UnitsOf
    <3>4. 1 \in 1 .. 1
      OBVIOUS
    <3>5. deth.data[1] = w[p + 1]
      BY ONLY <3>3, <3>4
    <3> QED
      BY <2>1, <3>5
  <2>7. PICK rest : rest = IF bth.op.imm THEN IovAdvance(deth.bufs, 1).bufs ELSE deth.bufs
    OBVIOUS
  <2>8. PICK x : x = IF bth.op.imm /\ ~HasEth(deth.bufs) THEN [s EXCEPT !.ok = FALSE]
                     ELSE RecvPayload(s, <<BuildGrh(ip)>> \o rest, FALSE, TRUE)
    OBVIOUS
  <2>9. t = [x EXCEPT !.dest = deth.data[1].src]
    BY <1>2, <2>4, <2>7, <2>8 DEF RecvUd
  <2>10. Received(x) /\ x.abort # "sge_len"
    <3>1. CASE bth.op.imm /\ ~HasEth(deth.bufs)
      <4>1. x = [s EXCEPT !.ok = FALSE]
        BY <2>8, <3>1
      <4> QED
        BY <4>1 DEF Received, Receiver, Fields, Ends
    <3>2. CASE ~(bth.op.imm /\ ~HasEth(deth.bufs))
      <4>1. \E p2 \in Nat, j2 \in Nat : Places(w, p2, j2, q) /\ rest = Window(w, p2, j2, q)
        <5>1. CASE ~bth.op.imm
          BY <2>5, <2>7, <5>1
        <5>2. CASE bth.op.imm
          <6>1. p1 < q
            BY <2>5, <3>2, <5>2, EthTaken
          <6>2. PICK i \in Nat : Advanced(deth.bufs, w, p1, 1, i, q, 1)
            BY <2>5, <6>1, EthTaken
          <6>3. rest = Window(w, p1 + 1, i, q) /\ Places(w, p1 + 1, i, q) /\ p1 + 1 \in Nat
            BY <2>7, <5>2, <6>2 DEF Advanced
          <6> QED
            BY <6>3
        <5> QED
          BY <5>1, <5>2
      <4>2. PICK p2 \in Nat, j2 \in Nat : Places(w, p2, j2, q) /\ rest = Window(w, p2, j2, q)
        BY <4>1
      <4>3. PICK all : all = <<BuildGrh(ip)>> \o rest
        OBVIOUS
      <4>4. IovLen(all) \in Nat
        BY <4>2, <4>3, GrhLen
      <4>5. x = RecvPayload(s, all, FALSE, TRUE)
        BY <2>8, <3>2, <4>3
      <4> QED
        BY <4>4, <4>5, PayloadReceived
    <3> QED
      BY <3>1, <3>2
  <2> QED
    BY <2>6, <2>9, <2>10 DEF Received, Receiver, Fields, Ends
<1> QED
  BY <1>1, <1>2

\* The padding taken off, what is left goes to the QP or to nobody.
LEMMA FrameReceived ==
  ASSUME FramesGiven, type \in Types, NEW s, Receiver(s), s.abort = "none",
         NEW w, Shaped(w), NEW cut \in Nat, cut <= Len(w),
         NEW d, d = Decap(<<SubSeq(w, 1, cut), From(w, cut)>>), NEW t, t = RecvFrame(s, d)
  PROVE  /\ Receiver(t) /\ Ends(t.abort, {"none", "sge_len", "pages", "ihlbuf"})
         /\ type = "UD" => t.abort # "sge_len"
<1>1. ASSUME \/ t = [s EXCEPT !.ok = FALSE]
             \/ t = [s EXCEPT !.ok = FALSE, !.abort = "ihlbuf"]
      PROVE  Receiver(t) /\ Ends(t.abort, {"none", "ihlbuf"})
  BY <1>1 DEF Receiver, Fields, Ends
<1>2. CASE t # [s EXCEPT !.ok = FALSE] /\ t # [s EXCEPT !.ok = FALSE, !.abort = "ihlbuf"]
  <2>1. d.ok /\ t = RecvBth(s, d)
    BY <1>2 DEF RecvFrame
  <2>2. PICK p \in Nat, j \in Nat, q \in Nat : Arrived(w, d, p, j, q)
    BY <2>1, Decapped
  <2>3. PICK padcnt \in Nat : padcnt = w[p].padcnt
    BY <2>2 DEF Arrived
  <2>4. PICK bth : bth = d.bth[1] /\ bth = w[p]
    BY <2>2 DEF Arrived
  <2>5. PICK bufs : bufs = IovReverse(d.bufs, padcnt).bufs
    OBVIOUS
  <2>6. bth.type = type /\ t = IF type = "RC" THEN RecvRc(s, bth, bufs)
                               ELSE RecvUd(s, bth, bufs, d.ip)
    BY <1>2, <2>1, <2>3, <2>4, <2>5 DEF RecvBth
  <2>7. Places(w, p, j, q) /\ d.bufs = Window(w, p, j, q) /\ IsSeq(d.ip)
        /\ (p < q /\ w[p].type = "UD" => w[p + 1].src \in Nat)
    BY <2>2 DEF Arrived
  <2>8. q - p \in Nat
    BY <2>7 DEF Places
  <2>9. PICK m \in Nat : m = Smaller(q - p, padcnt) /\ m <= q - p
    BY <2>8, SmallerIs
  <2>10. PICK i \in Nat : Reversed(Window(w, p, j, q), w, p, m, i, q, padcnt)
    BY ONLY <2>7, <2>9, WindowReverse, p \in Nat, j \in Nat, q \in Nat, m \in Nat,
            padcnt \in Nat
  <2>11. PICK q1 \in Nat : q1 = q - m /\ q1 <= q
    BY <2>8, <2>9
  <2>12. Places(w, p, i, q1) /\ bufs = Window(w, p, i, q1)
    BY <2>5, <2>7, <2>10, <2>11 DEF Reversed
  <2>13. CASE type = "RC"
    <3>1. Received(t)
      BY <2>6, <2>12, <2>13, RcReceived
    <3> QED
      BY <2>13, <3>1 DEF Received, Ends
  <2>14. CASE type # "RC"
    <3>1. type = "UD"
      BY <2>14, FramesAssumption
    <3>2. p < q1 => w[p + 1].src \in Nat
      BY <2>4, <2>6, <2>7, <2>11, <3>1
    <3>3. t = RecvUd(s, bth, bufs, d.ip)
      BY <2>6, <2>14
    <3>4. Received(t) /\ t.abort # "sge_len"
      BY <2>7, <2>12, <3>2, <3>3, UdReceived
    <3> QED
      BY <3>4 DEF Received, Ends
  <2> QED
    BY <2>13, <2>14
<1> QED
  BY <1>1, <1>2 DEF Ends

-----------------------------------------------------------------------------
(***************************************************************************)
(* The invariant: the types, with what stands behind them, namely frames   *)
(* with their headers in place; and how the process ended.  dst_iovs was   *)
(* never overrun; the assertion of roce_sge_len a UD QP cannot reach, the  *)
(* one on pages no QP when the pages of the region are those of the        *)
(* context.                                                                *)
(***************************************************************************)
SenderTyped(attr) ==
  \E mtu \in 1 .. MaxMtu : \E av :
    attr = [path_mtu |-> mtu, ah_attr |-> av] /\ av.sgid \in 0 .. GidLen - 1

AllShaped(frames) == IsSeq(frames) /\ \A i \in 1 .. Len(frames) : Shaped(frames[i])

FramesInv ==
  /\ type \in Types
  /\ gids \in [0 .. GidLen - 1 -> Gids]
  /\ SenderTyped(snd)
  /\ state \in {"RESET", "RTR"}
  /\ dest \in Nat /\ Queued(rq) /\ Held(resp) /\ Memory(mem)
  /\ AllShaped(wire)
  /\ Ends(abort, {"none", "sge_len", "map_refused", "pages", "ihlbuf"})
  /\ type = "UD" => abort # "sge_len"

LEMMA FramesInvInit == ASSUME FrameInit PROVE FramesInv
<1>1. GidLen \in Nat \ {0} /\ ActiveMtu \in Nat \ {0} /\ MaxMtu \in Nat /\ ActiveMtu <= MaxMtu
  BY FramesAssumption
<1>2. gids \in [0 .. GidLen - 1 -> Gids]
  BY DEF FrameInit, Gids
<1>3. SenderTyped(snd)
  <2>1. ActiveMtu \in 1 .. MaxMtu /\ 0 \in 0 .. GidLen - 1
    BY ONLY <1>1
  <2>2. PICK av : av = [mac |-> Mac, gid |-> "v4", sgid |-> 0]
    OBVIOUS
  <2>3. snd = [path_mtu |-> ActiveMtu, ah_attr |-> av] /\ av.sgid \in 0 .. GidLen - 1
    BY <2>1, <2>2 DEF FrameInit
  <2> QED
    BY <2>1, <2>3 DEF SenderTyped
<1>4. Queued(rq) /\ Held(resp) /\ AllShaped(wire)
  <2>1. \A i : ~(i \in 1 .. 0)
    OBVIOUS
  <2> QED
    BY <2>1, EmptyIs DEF FrameInit, Queued, Held, AllShaped
<1>5. Memory(mem)
  <2>1. mem = [c \in HostCells |-> [k |-> "unwritten"]]
    BY DEF FrameInit
  <2> HIDE DEF HostCells
  <2> QED
    BY <2>1 DEF Memory
<1> QED
  BY <1>2, <1>3, <1>4, <1>5 DEF FrameInit, FramesInv, Ends

\* roce_modify_qp keeps the path MTU and the index of the source GID in their ranges.
LEMMA ModifiedSender ==
  ASSUME SenderTyped(snd), NEW mod \in Mods
  PROVE  SenderTyped(ModifyQp(snd, mod).attr)
<1>0. PICK mtu \in 1 .. MaxMtu :
        \E av : snd = [path_mtu |-> mtu, ah_attr |-> av] /\ av.sgid \in 0 .. GidLen - 1
  BY DEF SenderTyped
<1>1. PICK av : snd = [path_mtu |-> mtu, ah_attr |-> av] /\ av.sgid \in 0 .. GidLen - 1
  BY <1>0
<1>2. /\ "ah_attr" \in DOMAIN mod => mod.ah_attr.sgid \in Nat
      /\ "path_mtu" \in DOMAIN mod => mod.path_mtu \in Nat \ {0}
      /\ GidLen \in Nat \ {0} /\ MaxMtu \in Nat
  BY FramesAssumption
<1> DEFINE Store(acc, name) ==
             IF name \notin DOMAIN mod \/ acc.refused THEN acc
             ELSE IF Allowed(name, mod[name])
             THEN [acc EXCEPT !.attr[name] = mod[name]]
             ELSE [acc EXCEPT !.refused = TRUE]
           first == Store([attr |-> snd, refused |-> FALSE], "ah_attr")
<1>3. ASSUME "ah_attr" \in DOMAIN mod, Allowed("ah_attr", mod["ah_attr"])
      PROVE  mod["ah_attr"].sgid \in 0 .. GidLen - 1
  BY <1>2, <1>3 DEF Allowed
<1>4. ASSUME "path_mtu" \in DOMAIN mod, Allowed("path_mtu", mod["path_mtu"])
      PROVE  mod["path_mtu"] \in 1 .. MaxMtu
  BY <1>2, <1>4 DEF Allowed
<1>5. \E no, av2 : /\ first = [attr |-> [path_mtu |-> mtu, ah_attr |-> av2], refused |-> no]
                   /\ av2.sgid \in 0 .. GidLen - 1
  <2>1. CASE "ah_attr" \notin DOMAIN mod
    BY <1>1, <2>1
  <2>2. CASE "ah_attr" \in DOMAIN mod /\ Allowed("ah_attr", mod["ah_attr"])
    BY <1>1, <1>3, <2>2
  <2>3. CASE "ah_attr" \in DOMAIN mod /\ ~Allowed("ah_attr", mod["ah_attr"])
    BY <1>1, <2>3
  <2> QED
    BY <2>1, <2>2, <2>3
<1>6. PICK no, av2 : /\ first = [attr |-> [path_mtu |-> mtu, ah_attr |-> av2], refused |-> no]
                     /\ av2.sgid \in 0 .. GidLen - 1
  BY <1>5
<1> HIDE DEF first
<1>7. \E mtu2 \in 1 .. MaxMtu : \E no2 :
        Store(first, "path_mtu")
          = [attr |-> [path_mtu |-> mtu2, ah_attr |-> av2], refused |-> no2]
  <2>1. CASE "path_mtu" \notin DOMAIN mod \/ no
    BY <1>6, <2>1
  <2>2. CASE "path_mtu" \in DOMAIN mod /\ ~no /\ Allowed("path_mtu", mod["path_mtu"])
    BY <1>4, <1>6, <2>2
  <2>3. CASE "path_mtu" \in DOMAIN mod /\ ~no /\ ~Allowed("path_mtu", mod["path_mtu"])
    BY <1>6, <2>3
  <2> QED
    BY <2>1, <2>2, <2>3
<1>8. ModifyQp(snd, mod) = Store(first, "path_mtu")
  BY DEF ModifyQp, first
<1> HIDE DEF Store
<1>9. PICK mtu2 \in 1 .. MaxMtu : \E no2 :
        ModifyQp(snd, mod) = [attr |-> [path_mtu |-> mtu2, ah_attr |-> av2], refused |-> no2]
  BY <1>7, <1>8
<1>10. ModifyQp(snd, mod).attr = [path_mtu |-> mtu2, ah_attr |-> av2]
  BY <1>9
<1> QED
  BY <1>6, <1>10 DEF SenderTyped

\* Frames under way are appended, and taken out.
LEMMA MoreShaped ==
  ASSUME NEW w, AllShaped(w), NEW v, AllShaped(v)
  PROVE  AllShaped(w \o v)
<1>1. PICK c : c = w \o v
  OBVIOUS
<1>2. IsSeq(w) /\ IsSeq(v)
  BY DEF AllShaped
<1>3. Joined(c, w, v)
  BY <1>1, <1>2, Join
<1>4. PICK m \in Nat, n \in Nat : m = Len(w) /\ n = Len(v)
  BY <1>2 DEF IsSeq
<1>5. /\ IsSeq(c) /\ Len(c) = m + n /\ \A i \in 1 .. m : c[i] = w[i]
      /\ \A i \in 1 .. n : c[m + i] = v[i]
  BY <1>3, <1>4 DEF Joined
<1>6. ASSUME NEW i \in 1 .. m + n PROVE Shaped(c[i])
  <2>1. CASE i \in 1 .. m
    BY <1>4, <1>5, <2>1 DEF AllShaped
  <2>2. CASE i \notin 1 .. m
    <3>1. PICK j \in 1 .. n : i = m + j
      <4>1. i - m \in 1 .. n /\ i = m + (i - m)
        BY ONLY <2>2, m \in Nat, n \in Nat, i \in 1 .. m + n
      <4> QED
        BY <4>1
    <3>2. c[i] = v[j]
      BY ONLY <1>5, <3>1
    <3>3. Shaped(v[j])
      BY <1>4 DEF AllShaped
    <3> QED
      BY <3>2, <3>3
  <2> QED
    BY <2>1, <2>2
<1> QED
  BY <1>1, <1>5, <1>6 DEF AllShaped

LEMMA OneMoreShaped ==
  ASSUME NEW w, AllShaped(w), NEW x, Shaped(x)
  PROVE  AllShaped(Append(w, x))
<1>1. /\ IsSeq(Append(w, x)) /\ Len(Append(w, x)) = Len(w) + 1
      /\ \A i \in 1 .. Len(w) : Append(w, x)[i] = w[i]
      /\ Append(w, x)[Len(w) + 1] = x
  BY AppendIs DEF AllShaped
<1>2. PICK m \in Nat : m = Len(w)
  BY DEF AllShaped, IsSeq
<1>3. ASSUME NEW i \in 1 .. m + 1 PROVE Shaped(Append(w, x)[i])
  <2>1. CASE i \in 1 .. m
    BY <1>1, <1>2, <2>1 DEF AllShaped
  <2>2. CASE i = m + 1
    BY <1>1, <1>2, <2>2
  <2>3. i \in 1 .. m \/ i = m + 1
    BY ONLY m \in Nat, i \in 1 .. m + 1
  <2> QED
    BY <2>1, <2>2, <2>3
<1> QED
  BY <1>1, <1>2, <1>3 DEF AllShaped

LEMMA SliceShaped ==
  ASSUME NEW w, AllShaped(w), NEW x \in Nat, NEW y \in Nat, x <= y, y <= Len(w)
  PROVE  AllShaped(Slice(w, x, y))
<1>1. PICK s : s = Slice(w, x, y)
  OBVIOUS
<1>2. IsSeq(w)
  BY DEF AllShaped
<1>3. IsSeq(s) /\ Len(s) = y - x /\ \A i \in 1 .. y - x : s[i] = w[x + i]
  BY <1>1, <1>2, SliceIs
<1>4. ASSUME NEW i \in 1 .. y - x PROVE Shaped(s[i])
  <2>1. x + i \in 1 .. Len(w)
    <3>1. PICK n \in Nat : n = Len(w) /\ y <= n
      BY <1>2 DEF IsSeq
    <3>2. x + i \in 1 .. n
      BY ONLY <3>1, x \in Nat, y \in Nat, n \in Nat, x <= y, i \in 1 .. y - x
    <3> QED
      BY <3>1, <3>2
  <2>2. Shaped(w[x + i])
    BY <2>1 DEF AllShaped
  <2> QED
    BY <1>3, <2>2
<1> QED
  BY <1>1, <1>3, <1>4 DEF AllShaped

LEMMA FewerShaped ==
  ASSUME NEW w, AllShaped(w), NEW i \in 1 .. Len(w)
  PROVE  AllShaped(RemoveAt(w, i))
<1>1. PICK n \in Nat : n = Len(w)
  BY DEF AllShaped, IsSeq
<1>2. PICK k \in Nat : k = i - 1 /\ i \in Nat /\ k <= i /\ i <= n /\ k <= n
  BY <1>1
<1>3. AllShaped(Slice(w, 0, k)) /\ AllShaped(Slice(w, i, n))
  <2>1. 0 \in Nat /\ 0 <= k /\ n <= n
    OBVIOUS
  <2> QED
    BY ONLY <1>1, <1>2, <2>1, SliceShaped, AllShaped(w), k \in Nat, n \in Nat
<1>4. RemoveAt(w, i) = Slice(w, 0, k) \o Slice(w, i, n)
  BY <1>1, <1>2 DEF RemoveAt, Slice
<1> QED
  BY <1>3, <1>4, MoreShaped

\* roce_post_send: the frames it puts on the wire have their headers, and a list that
\* cannot be built ends the process.
LEMMA SendKeeps ==
  ASSUME FramesGiven, FramesInv, NEW sges \in SendLists, NEW imm,
         \/ PostSendRc(sges, imm)
         \/ \E ah \in Ahs, src \in Sources : PostSendUd(sges, imm, ah, src)
  PROVE  AllShaped(wire') /\ (abort' = abort \/ Ends(abort', {"map_refused", "pages"}))
<1>1. sges \in Seq(NatSge) /\ WholePages
  BY DEF FramesGiven
<1>2. AllShaped(wire)
  BY DEF FramesInv
<1>3. CASE PostSendRc(sges, imm)
  <2>1. snd.path_mtu \in Nat \ {0}
    <3>1. PICK mtu \in 1 .. MaxMtu : \E av : snd = [path_mtu |-> mtu, ah_attr |-> av]
      BY DEF FramesInv, SenderTyped
    <3>2. snd.path_mtu = mtu /\ MaxMtu \in Nat
      BY <3>1, FramesAssumption
    <3> QED
      BY <3>2
  <2>2. PICK lists : lists = Segments(sges, snd.path_mtu)
    OBVIOUS
  <2>3. CASE Unbuildable(lists) = {}
    <3>1. type = "RC" /\ abort' = abort
      BY <1>3, <2>2, <2>3 DEF PostSendRc
    <3>2. PICK n : wire' = wire \o RcFrames(n, sges, imm)
      BY <1>3, <2>2, <2>3 DEF PostSendRc
    <3>3. AllShaped(RcFrames(n, sges, imm))
      BY <1>1, <2>1, <2>2, <2>3, <3>1, RcFramesShaped DEF AllShaped
    <3> QED
      BY <1>2, <3>1, <3>2, <3>3, MoreShaped
  <2>4. CASE Unbuildable(lists) # {}
    <3>1. abort' = FirstError(lists) /\ wire' = wire
      BY <1>3, <2>2, <2>4 DEF PostSendRc
    <3>2. /\ Len(lists) \in Nat
          /\ \A i \in 1 .. Len(lists) : Mapped(Mr, lists[i]) => Mappable(lists[i])
      BY <1>1, <2>1, <2>2, SegmentsMappable
    <3> QED
      BY <1>2, <2>4, <3>1, <3>2, FirstErrorIs
  <2> QED
    BY <2>3, <2>4
<1>4. ASSUME NEW ah \in Ahs, NEW src \in Sources, PostSendUd(sges, imm, ah, src)
      PROVE  AllShaped(wire') /\ (abort' = abort \/ Ends(abort', {"map_refused", "pages"}))
  <2>1. src \in Nat
    BY FramesAssumption
  <2>2. /\ Ends(BuildError(sges), {"none", "map_refused", "pages"})
        /\ BuildError(sges) = "none" => Mapped(Mr, sges)
    BY <1>1, WholeMappable, BuildErrorIs
  <2>3. \/ wire' = wire /\ abort' = abort
        \/ wire' = wire /\ abort' = BuildError(sges) /\ BuildError(sges) # "none"
        \/ /\ BuildError(sges) = "none" /\ abort' = abort
           /\ \E n : wire' = Append(wire, UdFrame(n, sges, imm, ah, src))
    BY <1>4 DEF PostSendUd
  <2>4. ASSUME NEW n, BuildError(sges) = "none",
               wire' = Append(wire, UdFrame(n, sges, imm, ah, src))
        PROVE  AllShaped(wire')
    <3>1. Shaped(UdFrame(n, sges, imm, ah, src))
      BY <1>1, <2>1, <2>2, <2>4, UdFrameShaped
    <3> QED
      BY <1>2, <2>4, <3>1, OneMoreShaped
  <2>5. BuildError(sges) # "none" => Ends(BuildError(sges), {"map_refused", "pages"})
    BY <2>2 DEF Ends
  <2> QED
    BY <1>2, <2>3, <2>4, <2>5
<1> QED
  BY <1>3, <1>4

\* roce_net_recv of any frame under way.
LEMMA NetRecvKeeps ==
  ASSUME FramesGiven, FramesInv, NEW i \in 1 .. Len(wire), NEW cut \in Cuts, NetRecv(i, cut)
  PROVE  /\ dest' \in Nat /\ Queued(rq)' /\ Held(resp)' /\ Memory(mem)' /\ AllShaped(wire)'
         /\ Ends(abort', {"none", "sge_len", "pages", "ihlbuf"})
         /\ type = "UD" => abort' # "sge_len"
         /\ UNCHANGED <<type, gids, snd, state>>
<1> DEFINE before == [rq |-> rq, resp |-> resp, mem |-> mem, comps |-> comps,
                      failed |-> failed, dest |-> dest, abort |-> abort, ok |-> TRUE]
<1>1. PICK w : w = wire[i]
  OBVIOUS
<1>2. PICK d : /\ d = Decap(<<SubSeq(w, 1, cut), From(w, cut)>>)
               /\ \E after \in {RecvFrame(before, d)} :
                    /\ Running /\ cut <= Len(w)
                    /\ rq' = after.rq /\ resp' = after.resp /\ mem' = after.mem
                    /\ dest' = after.dest /\ abort' = after.abort
                    /\ wire' = wire \/ wire' = RemoveAt(wire, i)
                    /\ UNCHANGED <<type, gids, snd, state>>
  BY <1>1 DEF NetRecv
<1>3. PICK s, after :
        /\ s = before /\ after = RecvFrame(s, d) /\ Running /\ cut <= Len(w)
        /\ rq' = after.rq /\ resp' = after.resp /\ mem' = after.mem
        /\ dest' = after.dest /\ abort' = after.abort
        /\ wire' = wire \/ wire' = RemoveAt(wire, i)
        /\ UNCHANGED <<type, gids, snd, state>>
  <2> HIDE DEF before
  <2> QED
    BY <1>2
<1>4. Shaped(w) /\ AllShaped(wire)
  BY <1>1 DEF FramesInv, AllShaped
<1>5. cut \in Nat
  BY FramesAssumption
<1>6. Receiver(s) /\ s.abort = "none"
  <2>1. /\ DOMAIN s = Fields /\ s.rq = rq /\ s.resp = resp /\ s.mem = mem
        /\ s.dest = dest /\ s.abort = abort
    BY <1>3 DEF Fields
  <2> QED
    BY <1>3, <2>1 DEF Receiver, FramesInv, Running
<1>7. /\ Receiver(after) /\ Ends(after.abort, {"none", "sge_len", "pages", "ihlbuf"})
      /\ type = "UD" => after.abort # "sge_len"
  <2>1. type \in Types
    BY DEF FramesInv
  <2> QED
    BY ONLY <1>2, <1>3, <1>4, <1>5, <1>6, <2>1, FrameReceived, FramesGiven
<1>8. AllShaped(wire')
  BY <1>3, <1>4, FewerShaped
<1> QED
  BY <1>3, <1>7, <1>8 DEF Receiver, Queued, Held, Memory, AllShaped

\* Every step keeps the invariant.
LEMMA FramesInvStep ==
  ASSUME FramesGiven, FramesInv, [FrameNext]_frame_vars
  PROVE  FramesInv'
<1> USE DEF FramesInv
<1>1. ASSUME NEW i \in 0 .. GidLen - 1, NEW gid \in {"v4", "v6"}, AddGid(i, gid)
      PROVE  FramesInv'
  <2>1. gids' \in [0 .. GidLen - 1 -> Gids]
    BY <1>1 DEF AddGid, Gids
  <2>2. UNCHANGED <<type, snd, state, dest, rq, resp, mem, wire, abort>>
    BY <1>1 DEF AddGid
  <2> QED
    BY <2>1, <2>2 DEF Queued, Held, Memory, AllShaped
<1>2. ASSUME NEW i \in 0 .. GidLen - 1, DelGid(i) PROVE FramesInv'
  <2>1. gids' \in [0 .. GidLen - 1 -> Gids]
    BY <1>2 DEF DelGid, Gids
  <2>2. UNCHANGED <<type, snd, state, dest, rq, resp, mem, wire, abort>>
    BY <1>2 DEF DelGid
  <2> QED
    BY <2>1, <2>2 DEF Queued, Held, Memory, AllShaped
<1>3. ASSUME NEW mod \in Mods, ModifySender(mod) PROVE FramesInv'
  <2>1. SenderTyped(snd')
    BY <1>3, ModifiedSender DEF ModifySender
  <2>2. UNCHANGED <<type, gids, state, dest, rq, resp, mem, wire, abort>>
    BY <1>3 DEF ModifySender
  <2> QED
    BY <2>1, <2>2 DEF Queued, Held, Memory, AllShaped
<1>4. ASSUME NEW st \in {"RESET", "RTR"}, ModifyState(st) PROVE FramesInv'
  BY <1>4 DEF ModifyState, Queued, Held, Memory, AllShaped
<1>5. ASSUME NEW sges \in SendLists, NEW imm \in BOOLEAN,
             \/ PostSendRc(sges, imm)
             \/ \E ah \in Ahs, src \in Sources : PostSendUd(sges, imm, ah, src)
      PROVE  FramesInv'
  <2>1. AllShaped(wire') /\ (abort' = abort \/ Ends(abort', {"map_refused", "pages"}))
    BY <1>5, SendKeeps
  <2>2. UNCHANGED <<type, gids, snd, state, dest, rq, resp, mem>>
    BY <1>5 DEF PostSendRc, PostSendUd
  <2>3. /\ Ends(abort', {"none", "sge_len", "map_refused", "pages", "ihlbuf"})
        /\ type' = "UD" => abort' # "sge_len"
    BY <2>1, <2>2 DEF Ends
  <2> QED
    BY <2>1, <2>2, <2>3 DEF Queued, Held, Memory, AllShaped
<1>6. ASSUME NEW sges \in RecvLists, PostRecv(sges) PROVE FramesInv'
  <2>1. PICK x : rq' = Append(rq, x) /\ x.sges = sges
    BY <1>6 DEF PostRecv
  <2>2. Queued(rq')
    <3>1. IsSeq(rq) /\ \A i \in 1 .. Len(rq) : rq[i].sges \in RecvLists
      BY DEF Queued
    <3>2. /\ IsSeq(rq') /\ Len(rq') = Len(rq) + 1 /\ rq'[Len(rq) + 1] = x
          /\ \A i \in 1 .. Len(rq) : rq'[i] = rq[i]
      BY <2>1, <3>1, AppendIs
    <3>3. PICK m \in Nat : m = Len(rq)
      BY <3>1 DEF IsSeq
    <3>4. ASSUME NEW i \in 1 .. m + 1 PROVE rq'[i].sges \in RecvLists
      <4>1. i \in 1 .. m \/ i = m + 1
        BY ONLY m \in Nat, i \in 1 .. m + 1
      <4> QED
        BY <2>1, <3>1, <3>2, <3>3, <4>1
    <3> QED
      BY <3>2, <3>3, <3>4 DEF Queued
  <2>3. UNCHANGED <<type, gids, snd, state, dest, resp, mem, wire, abort>>
    BY <1>6 DEF PostRecv
  <2> QED
    BY <2>2, <2>3 DEF Held, Memory, AllShaped
<1>7. ASSUME NEW stray \in Strays, StrayArrives(stray) PROVE FramesInv'
  <2>1. wire' = Append(wire, stray.frame)
    BY <1>7 DEF StrayArrives
  <2>2. Shaped(stray.frame)
    BY DEF FramesGiven, StraysShaped
  <2>3. AllShaped(wire')
    BY <2>1, <2>2, OneMoreShaped
  <2>4. UNCHANGED <<type, gids, snd, state, dest, rq, resp, mem, abort>>
    BY <1>7 DEF StrayArrives
  <2> QED
    BY <2>3, <2>4 DEF Queued, Held, Memory
<1>8. ASSUME NEW i \in 1 .. Len(wire), Repeat(i) PROVE FramesInv'
  <2>1. wire' = Append(wire, wire[i])
    BY <1>8 DEF Repeat
  <2>2. AllShaped(wire')
    BY <2>1, OneMoreShaped DEF AllShaped
  <2>3. UNCHANGED <<type, gids, snd, state, dest, rq, resp, mem, abort>>
    BY <1>8 DEF Repeat
  <2> QED
    BY <2>2, <2>3 DEF Queued, Held, Memory
<1>9. ASSUME NEW i \in 1 .. Len(wire), NEW cut \in Cuts, NetRecv(i, cut) PROVE FramesInv'
  <2>1. /\ dest' \in Nat /\ Queued(rq)' /\ Held(resp)' /\ Memory(mem)' /\ AllShaped(wire)'
        /\ Ends(abort', {"none", "sge_len", "pages", "ihlbuf"})
        /\ type = "UD" => abort' # "sge_len"
        /\ UNCHANGED <<type, gids, snd, state>>
    BY <1>9, NetRecvKeeps
  <2>2. Ends(abort', {"none", "sge_len", "map_refused", "pages", "ihlbuf"})
    BY <2>1 DEF Ends
  <2> QED
    BY <2>1, <2>2
<1>10. CASE UNCHANGED frame_vars
  BY <1>10 DEF frame_vars, Queued, Held, Memory, AllShaped
<1> QED
  <2> HIDE DEF FramesInv
  <2> QED
    BY <1>1, <1>2, <1>3, <1>4, <1>5, <1>6, <1>7, <1>8, <1>9, <1>10 DEF FrameNext

LEMMA FramesInvHolds == ASSUME FramesGiven PROVE FrameSpec => []FramesInv
<1>1. FrameInit => FramesInv
  BY FramesInvInit
<1>2. FramesInv /\ [FrameNext]_frame_vars => FramesInv'
  BY FramesInvStep
<1> QED
  BY <1>1, <1>2, PTL DEF FrameSpec

\* The attributes, the cursor of the receive WR, memory and the frames under way stay
\* what their types say, for every list, frame, cut and limit.
THEOREM FramesTypeOKHolds == ASSUME FramesGiven PROVE FrameSpec => []FramesTypeOK
<1>1. FramesInv => FramesTypeOK
  <2> SUFFICES ASSUME FramesInv PROVE FramesTypeOK
    OBVIOUS
  <2>1. snd.path_mtu \in 1 .. MaxMtu /\ snd.ah_attr.sgid \in 0 .. GidLen - 1
    BY DEF FramesInv, SenderTyped
  <2>2. /\ Len(resp) <= 1
        /\ \A i \in 1 .. Len(resp) :
             LET cur == resp[i].cur sges == resp[i].wr.sges IN
             cur.idx \in 0 .. Len(sges) /\ (cur.off # 0 => cur.off < sges[cur.idx + 1].len)
    <3>1. CASE resp = <<>>
      BY <3>1
    <3>2. ASSUME NEW wr, NEW cur, NEW len, HeldWr(resp, wr, cur, len)
          PROVE  /\ Len(resp) = 1 /\ resp[1].cur = cur /\ resp[1].wr.sges = wr.sges
                 /\ cur.idx \in 0 .. Len(wr.sges)
                 /\ cur.off # 0 => cur.off < wr.sges[cur.idx + 1].len
      BY <3>2 DEF HeldWr, CursorIn
    <3>3. CASE resp # <<>>
      <4>1. PICK wr, cur, len : HeldWr(resp, wr, cur, len)
        BY <3>3 DEF FramesInv, Held
      <4>2. /\ Len(resp) = 1 /\ resp[1].cur = cur /\ resp[1].wr.sges = wr.sges
            /\ cur.idx \in 0 .. Len(wr.sges)
            /\ cur.off # 0 => cur.off < wr.sges[cur.idx + 1].len
        BY ONLY <3>2, <4>1
      <4>3. \A i \in 1 .. 1 : i = 1
        OBVIOUS
      <4>4. \A i \in 1 .. 1 : /\ resp[i].cur.idx \in 0 .. Len(resp[i].wr.sges)
                             /\ resp[i].cur.off # 0
                                  => resp[i].cur.off
                                       < (resp[i].wr.sges)[resp[i].cur.idx + 1].len
        BY ONLY <4>2, <4>3
      <4>5. Len(resp) <= 1
        BY <4>2
      <4> QED
        BY <4>2, <4>4, <4>5
    <3> QED
      BY <3>1, <3>3
  <2>3. DOMAIN mem = HostCells
    <3>1. mem = [c \in HostCells |-> mem[c]]
      BY DEF FramesInv, Memory
    <3> QED
      BY ONLY <3>1
  <2>4. \A i \in 1 .. Len(rq) : rq[i].sges \in RecvLists
    BY DEF FramesInv, Queued
  <2> QED
    BY <2>1, <2>2, <2>3, <2>4 DEF FramesTypeOK, FramesInv, Gids, Ends
<1> QED
  BY <1>1, FramesInvHolds, PTL

\* dst_iovs has room for what roce_mr_map_sge yields for a payload, whatever the size of
\* the pages of the region, when the receive lists touch no more of them than RecvsFit
\* allows.
THEOREM DstIovsFit == ASSUME FramesGiven PROVE FrameSpec => [](abort # "iovs")
<1>1. FramesInv => abort # "iovs"
  BY DEF FramesInv, Ends
<1> QED
  BY <1>1, FramesInvHolds, PTL

\* roce_mr_map_sge yields as many buffers as roce_sge_pages counts pages, when packets
\* are built and when a payload is scattered, for a region with the pages of the context:
\* neither ROCE_ASSERT fails.
THEOREM PagesAgreeHolds ==
  ASSUME FramesGiven, ContextPages
  PROVE  FrameSpec => []PagesAgree
<1>1. FramesInv => PagesAgree
  BY DEF FramesInv, PagesAgree, Ends
<1> QED
  BY <1>1, FramesInvHolds, PTL
=============================================================================
