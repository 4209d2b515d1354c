----------------------------- MODULE Resources -----------------------------
(***************************************************************************)
(* The objects an application creates (resource.c, pd.c, cq.c, ah.c, mr.c, *)
(* qp.c) and the references between them.  A handle is an index into the   *)
(* table of its kind; MRs, AHs and QPs hold a PD, QPs hold CQs, and the    *)
(* work requests in a QP's queues hold MRs.  A PD, CQ or AH in use is not  *)
(* destroyed (-EBUSY); an MR in use is marked and goes when its last       *)
(* reference does.                                                         *)
(*                                                                         *)
(* A table is a function on the handles in use.  A step is a whole API     *)
(* call or packet handler.  The reference count of a QP is left out: calls *)
(* take it and nothing reads it.  An lkey is abstracted to the MR's index; *)
(* its random low byte shows only in that a mapping may fail.              *)
(***************************************************************************)
EXTENDS Integers, Sequences, FiniteSets, SequencesExt

CONSTANTS
  PdSlots, CqSlots, AhSlots, MrSlots, QpSlots,   \* sizes of the tables
  MrTypes,      \* the types of MR created, of "MEM", "FRMR" and "DMA"
  QpTypes,      \* the types of QP created, of "RC", "UD" and "GSI"
  SgeLists,     \* the scatter lists of WRs: sequences of MR indices
  RefMod,       \* res.ref counts modulo RefMod (2^32 in the code)
  Calls,        \* calls the code goes wrong on that are made, see below
  MaxWrs        \* bound: WRs in one queue of a QP

(***************************************************************************)
(* The calls of Calls: "recv_key" posts a receive WR whose lkey names no   *)
(* MR, "recv_cq" creates a QP with an invalid receive CQ, "gsi_again"      *)
(* creates the GSI a second time after destroying it, "destroy_mid"        *)
(* destroys a QP while a SEND of several packets is being received, and    *)
(* "local_sges" posts local WRs with a scatter list.                       *)
(***************************************************************************)
ASSUME ResourcesAssumption ==
  /\ {PdSlots, CqSlots, AhSlots, MrSlots} \subseteq Nat \ {0}
  /\ QpSlots \in Nat /\ QpSlots >= 3
  /\ MrTypes \subseteq {"MEM", "FRMR", "DMA"}
  /\ QpTypes \subseteq {"RC", "UD", "GSI"}
  /\ \A s \in SgeLists : s \in Seq(Nat) /\ s # <<>>
  /\ RefMod \in Nat \ {0}
  /\ Calls \subseteq {"recv_key", "recv_cq", "gsi_again", "destroy_mid", "local_sges"}
  /\ MaxWrs \in Nat

VARIABLES
  pds,     \* dev.resources[ROCE_RESOURCE_PD]: handle -> [ref]
  cqs,     \* dev.resources[ROCE_RESOURCE_CQ]: handle -> [ref]
  ahs,     \* dev.resources[ROCE_RESOURCE_AH]: handle -> [ref, pd]
  mrs,     \* dev.resources[ROCE_RESOURCE_MR]: handle -> [ref, pd, type, state]
  qps,     \* dev.resources[ROCE_RESOURCE_QP]: handle -> QP
  gsi,     \* dev.gsi: is its qp_type set, and what is its res.handle?
  crash    \* the assertion or null pointer that ended the process, or "none"

res_vars == <<pds, cqs, ahs, mrs, qps, gsi, crash>>

Smi == 0      \* ROCE_QPT_SMI and ROCE_QPT_GSI are also the QPNs
Gsi == 1
Null == -1    \* a null pointer to a PD or a CQ

NewQp(type, pd, scq, rcq) ==
  [type |-> type, pd |-> pd, scq |-> scq, rcq |-> rcq,
   sq |-> <<>>,      \* qp->sq.wrs
   rq |-> <<>>,      \* qp->rq.wrs
   resp |-> <<>>]    \* qp->resp.wr, a receive WR being filled, if any

Unused == NewQp("MAX", Null, Null, Null)

-----------------------------------------------------------------------------
(* The tables of resource.c, and the references of the objects in them. *)

Found(t, h) == h \in DOMAIN t

\* Mutant: handles start at 1.
FreeSlotsOne(size, t) == (1 .. size) \ DOMAIN t

FreeSlots(size, t) == (0 .. size - 1) \ DOMAIN t

Full(size, t) == FreeSlots(size, t) = {}

ResourceAlloc(size, t) ==
  CHOOSE h \in FreeSlots(size, t) : \A g \in FreeSlots(size, t) : h <= g

Insert(t, h, obj) == [g \in DOMAIN t \cup {h} |-> IF g = h THEN obj ELSE t[g]]

ResourceFree(t, h) == [g \in DOMAIN t \ {h} |-> t[g]]

Count(t, h, n) == IF Found(t, h) THEN [t EXCEPT ![h].ref = (@ + n) % RefMod] ELSE t
Get(t, h) == Count(t, h, 1)
Put(t, h) == Count(t, h, -1)

-----------------------------------------------------------------------------
(***************************************************************************)
(* MRs.  Putting the last reference of a destroyed MR frees it, which puts *)
(* a PD, so the functions below map the pair of both tables; ok is FALSE   *)
(* when ROCE_ASSERT(!roce_put_pd(...)) failed.                             *)
(***************************************************************************)
Tables == [mrs |-> mrs, pds |-> pds, ok |-> TRUE]

DestroyMrIn(s, m) ==
  IF s.mrs[m].ref # 0
  THEN [s EXCEPT !.mrs[m].state = "DESTROYED"]
  ELSE [mrs |-> ResourceFree(s.mrs, m), pds |-> Put(s.pds, s.mrs[m].pd),
        ok |-> s.ok /\ Found(s.pds, s.mrs[m].pd)]

GetMr(s, m) == [s EXCEPT !.mrs = Get(@, m)]

GetAll(s, sges) ==
  LET upTo[n \in 0 .. Len(sges)] ==
        IF n = 0 THEN s ELSE GetMr(upTo[n - 1], sges[n])
  IN upTo[Len(sges)]

\* Mutant: the last put forgets that the MR is waiting to be destroyed.
PutMrKeeps(s, m) == [s EXCEPT !.mrs = Put(@, m)]

PutMr(s, m) ==
  LET t == [s EXCEPT !.mrs = Put(@, m)] IN
  IF Found(s.mrs, m) /\ t.mrs[m].state = "DESTROYED" THEN DestroyMrIn(t, m) ELSE t

PutMrs(s, sges) ==
  LET upTo[n \in 0 .. Len(sges)] ==
        IF n = 0 THEN s ELSE PutMr(upTo[n - 1], sges[n])
  IN upTo[Len(sges)]

\* The lists of several WRs, one after the other.
PutWrs(s, lists) ==
  LET upTo[n \in 0 .. Len(lists)] ==
        IF n = 0 THEN s ELSE PutMrs(upTo[n - 1], lists[n])
  IN upTo[Len(lists)]

\* The MRs of a scatter list that roce_get_mrs finds before it gives up.
FoundPrefix(s, sges) ==
  LET bad == SelectInSeq(sges, LAMBDA m : ~Found(s.mrs, m))
  IN IF bad = 0 THEN sges ELSE SubSeq(sges, 1, bad - 1)

\* Mutant: a failure leaves the references taken so far.
GetMrsKeeps(s, sges) == GetAll(s, FoundPrefix(s, sges))

GetMrs(s, sges) ==
  LET got == GetAll(s, FoundPrefix(s, sges))
  IN IF FoundPrefix(s, sges) = sges THEN got
     ELSE PutMrs(got, Reverse(FoundPrefix(s, sges)))

\* What roce_mr_map_sge asks of an MR, and of all the MRs of a list.
Usable(qp, m) ==
  /\ Found(mrs, m)
  /\ mrs[m].pd = qp.pd
  /\ mrs[m].state = "VALID"
  /\ mrs[m].type = "DMA" => qp.type = "GSI"

Mappable(qp, sges) ==
  /\ \A i \in 1 .. Len(sges) : Usable(qp, sges[i])
  /\ \A i, j \in 1 .. Len(sges) : mrs[sges[i]].type = mrs[sges[j]].type

\* The tables become s and the QP q becomes qp, unless an assertion failed.
Becomes(s, q, qp) ==
  /\ mrs' = s.mrs /\ pds' = s.pds
  /\ qps' = [qps EXCEPT ![q] = qp]
  /\ crash' = IF s.ok THEN crash ELSE "put_pd"

-----------------------------------------------------------------------------
(***************************************************************************)
(* Creating and destroying.  An invalid handle, a full table and memory    *)
(* running out (ok FALSE) refuse a call; what it holds by then is put.     *)
(***************************************************************************)
AllocPd ==
  /\ crash = "none" /\ ~Full(PdSlots, pds)
  /\ pds' = Insert(pds, ResourceAlloc(PdSlots, pds), [ref |-> 0])
  /\ UNCHANGED <<cqs, ahs, mrs, qps, gsi, crash>>

DeallocPd(h) ==
  /\ crash = "none" /\ Found(pds, h) /\ pds[h].ref = 0
  /\ pds' = ResourceFree(pds, h)
  /\ UNCHANGED <<cqs, ahs, mrs, qps, gsi, crash>>

CreateCq ==
  /\ crash = "none" /\ ~Full(CqSlots, cqs)
  /\ cqs' = Insert(cqs, ResourceAlloc(CqSlots, cqs), [ref |-> 0])
  /\ UNCHANGED <<pds, ahs, mrs, qps, gsi, crash>>

\* Mutant: the reference count is not looked at.
DestroyCqBusy(h) ==
  /\ crash = "none" /\ Found(cqs, h)
  /\ cqs' = ResourceFree(cqs, h)
  /\ UNCHANGED <<pds, ahs, mrs, qps, gsi, crash>>

DestroyCq(h) ==
  /\ crash = "none" /\ Found(cqs, h) /\ cqs[h].ref = 0
  /\ cqs' = ResourceFree(cqs, h)
  /\ UNCHANGED <<pds, ahs, mrs, qps, gsi, crash>>

CreateAh(pd, ok) ==
  /\ crash = "none" /\ Found(pds, pd)
  /\ IF ok /\ ~Full(AhSlots, ahs)
     THEN /\ pds' = Get(pds, pd)
          /\ ahs' = Insert(ahs, ResourceAlloc(AhSlots, ahs), [ref |-> 0, pd |-> pd])
     ELSE /\ pds' = Put(Get(pds, pd), pd)
          /\ ahs' = ahs
  /\ UNCHANGED <<cqs, mrs, qps, gsi, crash>>

DestroyAh(h) ==
  /\ crash = "none" /\ Found(ahs, h) /\ ahs[h].ref = 0
  /\ ahs' = ResourceFree(ahs, h)
  /\ pds' = Put(pds, ahs[h].pd)
  /\ crash' = IF Found(pds, ahs[h].pd) THEN crash ELSE "put_pd"
  /\ UNCHANGED <<cqs, mrs, qps, gsi>>

\* ok is also FALSE for sizes and lengths that roce_create_mr refuses.
CreateMr(pd, type, ok) ==
  LET mr == [ref |-> 0, pd |-> pd, type |-> type,
             state |-> IF type = "FRMR" THEN "FREE" ELSE "VALID"]
  IN /\ crash = "none" /\ Found(pds, pd)
     /\ IF ok /\ ~Full(MrSlots, mrs)
        THEN /\ pds' = Get(pds, pd)
             /\ mrs' = Insert(mrs, ResourceAlloc(MrSlots, mrs), mr)
        ELSE /\ pds' = Put(Get(pds, pd), pd)
             /\ mrs' = mrs
     /\ UNCHANGED <<cqs, ahs, qps, gsi, crash>>

DestroyMr(m) ==
  LET s == DestroyMrIn(Tables, m) IN
  /\ crash = "none" /\ Found(mrs, m)
  /\ mrs' = s.mrs /\ pds' = s.pds
  /\ crash' = IF s.ok THEN crash ELSE "put_pd"
  /\ UNCHANGED <<cqs, ahs, qps, gsi>>

(***************************************************************************)
(* roce_create_qp.  The test after roce_get_cq(ctx, recv_cq) looks at scq  *)
(* again, so an invalid receive CQ is stored as a null pointer.  The GSI   *)
(* exists from the start; its res.handle is cleared when it is destroyed   *)
(* and asserted to be 1 when it is created again.                          *)
(***************************************************************************)
CreateQp(type, pd, scq, rcq, ok) ==
  LET qp == NewQp(type, pd, scq, IF Found(cqs, rcq) THEN rcq ELSE Null)
      held == Get(Get(cqs, scq), rcq)
      refused == \/ ~Found(cqs, scq)
                 \/ type = "GSI" /\ gsi.used
                 \/ type # "GSI" /\ (~ok \/ Full(QpSlots, qps))
  IN /\ crash = "none" /\ Found(pds, pd)
     /\ Found(cqs, rcq) \/ "recv_cq" \in Calls
     /\ type = "GSI" /\ ~gsi.used /\ gsi.handle # Gsi => "gsi_again" \in Calls
     /\ IF refused
        THEN /\ pds' = Put(Get(pds, pd), pd)
             /\ cqs' = Put(Put(held, scq), rcq)
             /\ UNCHANGED <<qps, gsi, crash>>
        ELSE IF type = "GSI" /\ gsi.handle # Gsi
        THEN /\ crash' = "gsi_handle"
             /\ UNCHANGED <<pds, cqs, qps, gsi>>
        ELSE /\ pds' = Get(pds, pd)
             /\ cqs' = held
             /\ qps' = Insert(qps, IF type = "GSI" THEN gsi.handle
                                   ELSE ResourceAlloc(QpSlots, qps), qp)
             /\ gsi' = IF type = "GSI" THEN [gsi EXCEPT !.used = TRUE] ELSE gsi
             /\ UNCHANGED crash
     /\ UNCHANGED <<ahs, mrs>>

(***************************************************************************)
(* roce_destroy_qp: the WRs of both queues are freed, local ones that are  *)
(* still queued too.  The one in resp.wr is in neither.  Send WRs that     *)
(* failed to get their MRs hold none.                                      *)
(***************************************************************************)
HeldBySq(qp) == [i \in 1 .. Len(qp.sq) |->
                   IF qp.sq[i].error THEN <<>> ELSE qp.sq[i].sges]

DestroyQp(q) ==
  LET qp == qps[q]
      s == PutWrs([Tables EXCEPT !.pds = Put(@, qp.pd)], HeldBySq(qp) \o qp.rq)
  IN /\ crash = "none" /\ Found(qps, q) /\ qp.type # "MAX"
     /\ qp.resp # <<>> => "destroy_mid" \in Calls
     /\ IF qp.rcq = Null
        THEN /\ crash' = "null_rcq"
             /\ UNCHANGED <<pds, cqs, mrs, qps, gsi>>
        ELSE /\ pds' = s.pds /\ mrs' = s.mrs
             /\ cqs' = Put(Put(cqs, qp.scq), qp.rcq)
             /\ qps' = ResourceFree(qps, q)
             /\ gsi' = IF qp.type = "GSI" THEN [used |-> FALSE, handle |-> 0] ELSE gsi
             /\ crash' = IF /\ s.ok /\ Found(pds, qp.pd)
                            /\ Found(cqs, qp.scq) /\ Found(cqs, qp.rcq)
                         THEN crash ELSE "put_pd"
     /\ UNCHANGED ahs

-----------------------------------------------------------------------------
(***************************************************************************)
(* Work requests.  roce_post_recv frees the WR when an MR is not found,    *)
(* which puts all its MRs.  roce_post_send keeps the WR, marked as failed; *)
(* a list that cannot be mapped fails ROCE_ASSERT(pages == map_pages).     *)
(***************************************************************************)
PostRecv(q, sges) ==
  LET s == GetMrs(Tables, sges)
      known == FoundPrefix(Tables, sges) = sges
  IN /\ crash = "none" /\ Found(qps, q) /\ qps[q].type # "MAX"
     /\ Len(qps[q].rq) < MaxWrs
     /\ known \/ "recv_key" \in Calls
     /\ IF known THEN Becomes(s, q, [qps[q] EXCEPT !.rq = Append(@, sges)])
        ELSE Becomes(PutMrs(s, sges), q, qps[q])
     /\ UNCHANGED <<cqs, ahs, gsi>>

\* roce_complete_head: local and failed WRs at the head of the queue are
\* unlinked, and not freed; a local one with MRs never puts them.
CompleteHead(sq) ==
  LET n == SelectInSeq(sq, LAMBDA wr : ~wr.local /\ ~wr.error)
  IN IF n = 0 THEN <<>> ELSE SubSeq(sq, n, Len(sq))

\* A local WR (LOCAL_INV, REG_MR, BIND_MW) takes its MRs like any other, and
\* no packet is built for it, so nothing is mapped.
PostSendRc(q, sges, local) ==
  LET s == GetMrs(Tables, sges)
      known == FoundPrefix(Tables, sges) = sges
      wr == [sges |-> sges, error |-> ~known, local |-> local]
  IN /\ crash = "none" /\ Found(qps, q) /\ qps[q].type = "RC"
     /\ Len(qps[q].sq) < MaxWrs
     /\ local /\ sges # <<>> => "local_sges" \in Calls
     /\ IF known /\ ~local /\ ~Mappable(qps[q], sges)
        THEN crash' = "map_pages" /\ UNCHANGED <<pds, mrs, qps>>
        ELSE Becomes(s, q, [qps[q] EXCEPT !.sq = CompleteHead(Append(@, wr))])
     /\ UNCHANGED <<cqs, ahs, gsi>>

\* An ACK completes the WR at the head of the send queue, and frees it.
CompleteSend(q) ==
  /\ crash = "none" /\ Found(qps, q) /\ qps[q].sq # <<>>
  /\ Becomes(PutMrs(Tables, Head(qps[q].sq).sges), q,
             [qps[q] EXCEPT !.sq = CompleteHead(Tail(@))])
  /\ UNCHANGED <<cqs, ahs, gsi>>

\* A UD request is over when the call returns.  It is mapped and sent when
\* its AH exists and its payload fits the MTU; the AH is held meanwhile.
PostSendUd(q, sges, ah, fits) ==
  LET s == GetMrs(Tables, sges)
      known == FoundPrefix(Tables, sges) = sges
      sent == known /\ fits /\ Found(ahs, ah)
  IN /\ crash = "none" /\ Found(qps, q) /\ qps[q].type \in {"UD", "GSI"}
     /\ ahs' = IF sent THEN Put(Get(ahs, ah), ah) ELSE ahs
     /\ IF sent /\ ~Mappable(qps[q], sges)
        THEN crash' = "map_pages" /\ UNCHANGED <<pds, mrs, qps>>
        ELSE Becomes(IF known THEN PutMrs(s, sges) ELSE s, q, qps[q])
     /\ UNCHANGED <<cqs, gsi>>

(***************************************************************************)
(* A packet of a SEND (roce_recv_payload): FIRST or ONLY pops a receive WR *)
(* into resp.wr, LAST or ONLY frees it.  A packet that does not fit or     *)
(* whose buffers cannot be mapped (ok FALSE) leaves it there.              *)
(***************************************************************************)
RecvPayload(q, first, last, ok) ==
  LET qp == qps[q]
      wr == Head(IF first THEN qp.rq ELSE qp.resp)
      popped == IF first THEN Tail(qp.rq) ELSE qp.rq
  IN /\ crash = "none" /\ Found(qps, q) /\ qp.type # "MAX"
     /\ qp.type # "RC" => first /\ last
     /\ first <=> qp.resp = <<>>
     /\ first => qp.rq # <<>>
     /\ ok => \E i \in 1 .. Len(wr) : Usable(qp, wr[i])
     /\ IF ok /\ last
        THEN Becomes(PutMrs(Tables, wr), q, [qp EXCEPT !.rq = popped, !.resp = <<>>])
        ELSE Becomes(Tables, q, [qp EXCEPT !.rq = popped, !.resp = <<wr>>])
     /\ UNCHANGED <<cqs, ahs, gsi>>

-----------------------------------------------------------------------------
\* roce_init_device: empty tables, but for the two special QPs.
ResInit ==
  /\ pds = <<>> /\ cqs = <<>> /\ ahs = <<>> /\ mrs = <<>>
  /\ qps = [q \in {Smi, Gsi} |-> Unused]
  /\ gsi = [used |-> FALSE, handle |-> Gsi]
  /\ crash = "none"

ResNext ==
  \/ AllocPd
  \/ CreateCq
  \/ \E h \in DOMAIN pds : DeallocPd(h)
  \/ \E h \in DOMAIN cqs : DestroyCq(h)
  \/ \E h \in DOMAIN ahs : DestroyAh(h)
  \/ \E m \in DOMAIN mrs : DestroyMr(m)
  \/ \E q \in DOMAIN qps : DestroyQp(q)
  \/ \E pd \in 0 .. PdSlots, ok \in BOOLEAN :
       \/ CreateAh(pd, ok)
       \/ \E type \in MrTypes : CreateMr(pd, type, ok)
       \/ \E type \in QpTypes, scq, rcq \in 0 .. CqSlots :
            CreateQp(type, pd, scq, rcq, ok)
  \/ \E q \in DOMAIN qps, sges \in SgeLists :
       \/ PostRecv(q, sges)
       \/ PostSendRc(q, sges, FALSE)
       \/ \E ah \in 0 .. AhSlots, fits \in BOOLEAN : PostSendUd(q, sges, ah, fits)
  \/ \E q \in DOMAIN qps, sges \in SgeLists \cup {<<>>} : PostSendRc(q, sges, TRUE)
  \/ \E q \in DOMAIN qps : CompleteSend(q)
  \/ \E q \in DOMAIN qps, first, last, ok \in BOOLEAN : RecvPayload(q, first, last, ok)

ResSpec == ResInit /\ [][ResNext]_res_vars

-----------------------------------------------------------------------------
Handles(t, size) == DOMAIN t \subseteq 0 .. size - 1

\* Every handle given out is an index of its table, every count a uint32_t.
ResTypeOK ==
  /\ Handles(pds, PdSlots) /\ Handles(cqs, CqSlots) /\ Handles(ahs, AhSlots)
  /\ Handles(mrs, MrSlots) /\ Handles(qps, QpSlots)
  /\ \A h \in DOMAIN pds : pds[h] \in [ref : 0 .. RefMod - 1]
  /\ \A h \in DOMAIN cqs : cqs[h] \in [ref : 0 .. RefMod - 1]
  /\ \A h \in DOMAIN ahs : ahs[h] \in [ref : 0 .. RefMod - 1, pd : Nat]
  /\ \A h \in DOMAIN mrs :
       mrs[h] \in [ref : 0 .. RefMod - 1, pd : Nat, type : MrTypes,
                   state : {"VALID", "FREE", "DESTROYED"}]
  /\ gsi \in [used : BOOLEAN, handle : {0, Gsi}]
  /\ crash \in {"none", "put_pd", "null_rcq", "gsi_handle", "map_pages"}

Holders(t, h) == Cardinality({g \in DOMAIN t : t[g].pd = h})

\* The scatter lists of the WRs that hold their MRs.
HeldByQp(qp) == HeldBySq(qp) \o qp.rq \o qp.resp

\* The entries of these lists that name the MR m.
Entries(lists, m) ==
  UNION {{i} \X {j \in 1 .. Len(lists[i]) : lists[i][j] = m} : i \in 1 .. Len(lists)}

\* How many entries of queued WRs name the MR m.
Uses(m) == Cardinality(UNION {{q} \X Entries(HeldByQp(qps[q]), m) : q \in DOMAIN qps})

(***************************************************************************)
(* Reference counts are exact: a PD counts its MRs, AHs and QPs, a CQ the  *)
(* queues that complete to it, an MR the entries of the WRs queued or      *)
(* being filled that name it.  So what roce_dealloc_pd, roce_destroy_cq    *)
(* and roce_put_mr free is used by nobody, and what nobody uses can be     *)
(* freed, along every error path of the calls that take references.        *)
(***************************************************************************)
RefsExact ==
  /\ \A h \in DOMAIN pds :
       pds[h].ref = Holders(mrs, h) + Holders(ahs, h) + Holders(qps, h)
  /\ \A h \in DOMAIN cqs :
       cqs[h].ref = Cardinality({q \in DOMAIN qps : qps[q].scq = h})
                    + Cardinality({q \in DOMAIN qps : qps[q].rcq = h})
  /\ \A m \in DOMAIN mrs : mrs[m].ref = Uses(m)
  /\ crash # "put_pd"

\* The PD of every MR, AH and QP is there, and so are both CQs of every QP and
\* the MRs of every queued WR: no pointer or handle in use is stale.  The GSI
\* is a QP from its creation on; the SMI never is.
NothingDangles ==
  /\ \A m \in DOMAIN mrs : Found(pds, mrs[m].pd)
  /\ \A h \in DOMAIN ahs : Found(pds, ahs[h].pd)
  /\ \A q \in DOMAIN qps : qps[q].type # "MAX" =>
       Found(pds, qps[q].pd) /\ Found(cqs, qps[q].scq) /\ Found(cqs, qps[q].rcq)
  /\ \A q \in DOMAIN qps :
       \A i \in 1 .. Len(HeldByQp(qps[q])) :
         \A j \in 1 .. Len(HeldByQp(qps[q])[i]) : Found(mrs, HeldByQp(qps[q])[i][j])

(***************************************************************************)
(* "Destroy later": an MR destroyed while in use goes in the step in which *)
(* the last WR that names it is freed; none stays behind, holding its PD.  *)
(***************************************************************************)
DestroyedMrInUse == \A m \in DOMAIN mrs : mrs[m].state = "DESTROYED" => Uses(m) > 0
=============================================================================
