---------------------------- MODULE ScatterList ----------------------------
(***************************************************************************)
(* Scatter lists and I/O vectors (sge-helper.h, iov-helper.h, the mapping  *)
(* of mr.c).  A scatter list is a sequence of [addr, len] in the address   *)
(* space of a memory region; an I/O vector is a sequence of [base, len] in *)
(* host memory, or, for a frame, a sequence of buffers that are sequences  *)
(* of units.  One unit stands for one byte.  Indices are those of the      *)
(* code: the first is 0.                                                   *)
(***************************************************************************)
EXTENDS Integers, Sequences, SequencesExt

CONSTANTS
  PageSize,     \* ctx->para.page_size, with which pages are counted
  AddrCut       \* the mask ~(page_size - 1) has 32 bits: AddrCut is 2^32

ASSUME ScatterAssumption ==
  /\ PageSize \in Nat \ {0} /\ AddrCut \in Nat \ {0}
  /\ AddrCut % PageSize = 0

(***************************************************************************)
(* A loop of the code over a list: Step is its body, acc its local         *)
(* variables, upTo[n] what they are after n turns.  It is FoldLeft of      *)
(* SequencesExt, as a recursive function of the number of turns.           *)
(***************************************************************************)
Loop(Step(_, _), acc, list) ==
  LET upTo[n \in 0 .. Len(list)] ==
        IF n = 0 THEN acc ELSE Step(upTo[n - 1], list[n])
  IN upTo[Len(list)]

Smaller(x, y) == IF x > y THEN y ELSE x

From(seq, idx) == SubSeq(seq, idx + 1, Len(seq))

-----------------------------------------------------------------------------
(* Scatter lists.  A cursor is [idx, off]: sge_idx and sge_off of a WR. *)

Start == [idx |-> 0, off |-> 0]

\* roce_sge_len asserts that the cursor is inside the list.
InList(sges, cur) == cur.idx < Len(sges) /\ cur.off <= sges[cur.idx + 1].len

SgeLen(sges, cur) ==
  Loop(LAMBDA total, sge : total + sge.len, 0, From(sges, cur.idx)) - cur.off

\* Mutant: only whole pages of the length are counted, not those it touches.
SgePagesOfLength(sges) ==
  Loop(LAMBDA pages, sge : pages + (sge.len + PageSize - 1) \div PageSize, 0, sges)

AlignDown(addr) == (addr - (addr % PageSize)) % AddrCut

PagesOf(sge) ==
  ((AlignDown(sge.addr + sge.len + PageSize - 1) - AlignDown(sge.addr)) \div PageSize)
    % AddrCut

SgePages(sges) == Loop(LAMBDA pages, sge : pages + PagesOf(sge), 0, sges)

(***************************************************************************)
(* roce_sge_advance: dst is the list of the next bytes bytes from the      *)
(* cursor.  When the list ends first, bytes are left over and the count    *)
(* returned is one more than the entries written.                          *)
(***************************************************************************)
SgeTake(acc, sge) ==
  LET remained == sge.len - acc.off IN
  IF acc.bytes = 0 THEN acc
  ELSE IF remained > acc.bytes
  THEN [acc EXCEPT !.dst = Append(@, [addr |-> sge.addr + acc.off, len |-> acc.bytes]),
                   !.off = @ + acc.bytes, !.bytes = 0]
  ELSE [idx |-> acc.idx + 1, off |-> 0, bytes |-> acc.bytes - remained,
        dst |-> Append(acc.dst, [addr |-> sge.addr + acc.off, len |-> remained])]

SgeAdvance(sges, bytes, cur) ==
  Loop(SgeTake, [idx |-> cur.idx, off |-> cur.off, bytes |-> bytes, dst |-> <<>>],
       From(sges, cur.idx))

-----------------------------------------------------------------------------
(* I/O vectors of host memory. *)

(***************************************************************************)
(* roce_iov_copy: skip offset bytes, then take bytes.  When the buffers    *)
(* end first, the count returned is one more than the entries written.     *)
(***************************************************************************)
IovTake(acc, iov) ==
  LET len == Smaller(iov.len - acc.skip, acc.bytes) IN
  IF acc.bytes = 0 THEN acc
  ELSE IF acc.dst = <<>> /\ iov.len <= acc.skip
  THEN [acc EXCEPT !.skip = @ - iov.len]
  ELSE [skip |-> 0, bytes |-> acc.bytes - len,
        dst |-> Append(acc.dst, [base |-> iov.base + acc.skip, len |-> len])]

IovCopy(iovs, offset, bytes) ==
  Loop(IovTake, [skip |-> offset, bytes |-> bytes, dst |-> <<>>], iovs)

CountCopied(copy) == Len(copy.dst) + IF copy.bytes > 0 /\ copy.dst # <<>> THEN 1 ELSE 0

(***************************************************************************)
(* roce_mr_map_sge, for lists in one memory region that the QP may use     *)
(* (Resources has the other refusals).  The region's buffers are its pages *)
(* of mr.page units; mr.iova may lie inside the first.                     *)
(* The sum of InRegion has 64 bits in the code; here it does not wrap.     *)
(***************************************************************************)
InRegion(mr, sge) == mr.iova <= sge.addr /\ sge.addr + sge.len <= mr.iova + mr.length

\* Mutant: pages are numbered from iova, wherever in its page that lies.
MapSgeFromIova(mr, sges) ==
  LET Map(acc, sge) ==
        LET copy == IovCopy(From(mr.iovs, (sge.addr - mr.iova) \div mr.page),
                            sge.addr % mr.page, sge.len)
        IN [iovs |-> acc.iovs \o copy.dst, num |-> acc.num + CountCopied(copy)]
  IN Loop(Map, [iovs |-> <<>>, num |-> 0], sges)

\* The buffers behind one entry.
SgeCopy(mr, sge) ==
  IovCopy(From(mr.iovs, (sge.addr \div mr.page) - (mr.iova \div mr.page)),
          sge.addr % mr.page, sge.len)

MapSge(mr, sges) ==
  LET Map(acc, sge) == [iovs |-> acc.iovs \o SgeCopy(mr, sge).dst,
                        num |-> acc.num + CountCopied(SgeCopy(mr, sge))]
  IN Loop(Map, [iovs |-> <<>>, num |-> 0], sges)

Mapped(mr, sges) == \A i \in 1 .. Len(sges) : InRegion(mr, sges[i])

-----------------------------------------------------------------------------
(* The buffers of a frame. *)

IovLen(bufs) == Loop(LAMBDA total, buf : total + Len(buf), 0, bufs)

\* roce_iov_advance: take the first bytes units off the buffers.
IovAdvance(bufs, bytes) ==
  LET Advance(acc, buf) ==
        LET n == Smaller(Len(buf), bytes - Len(acc.data))
        IN [bufs |-> Append(acc.bufs, From(buf, n)), data |-> acc.data \o SubSeq(buf, 1, n)]
  IN Loop(Advance, [bufs |-> <<>>, data |-> <<>>], bufs)

\* roce_iov_reverse: take the last bytes units off the buffers.
IovReverse(bufs, bytes) ==
  LET Take(acc, buf) ==
        LET n == Smaller(Len(buf), bytes - Len(acc.data)) IN
        [bufs |-> <<SubSeq(buf, 1, Len(buf) - n)>> \o acc.bufs,
         data |-> From(buf, Len(buf) - n) \o acc.data]
  IN Loop(Take, [bufs |-> <<>>, data |-> <<>>], Reverse(bufs))
=============================================================================
