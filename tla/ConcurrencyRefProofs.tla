------------------------ MODULE ConcurrencyRefProofs ------------------------
(***************************************************************************)
(* References under threads, for every number of threads, WRs, MRs and     *)
(* slots: with locks that wait, and an application that keeps apart the    *)
(* calls of KeptApart, every handle leads to its own MR, every count is    *)
(* the number of WRs that use the MR, and no freed MR is touched.          *)
(***************************************************************************)
EXTENDS ConcurrencyProofs, FiniteSetTheorems

(***************************************************************************)
(* Nothing but these: creation may overlap everything, and receive WRs are *)
(* posted while others are posted or received.                             *)
(***************************************************************************)
KeptApart ==
  {{"receive"}, {"destroy"}, {"destroy", "post_recv"}, {"destroy", "receive"}}

\* The calls that may free an MR, and who else a destruction may meet.
Reapers == {"receive", "destroy"}

CallsApart ==
  \A t, u \in Threads : t # u =>
    /\ ~(call[t] \in Reapers /\ call[u] \in Reapers)
    /\ ~(call[t] = "destroy" /\ call[u] = "post_recv")

-----------------------------------------------------------------------------
(* Where a thread is in its call. *)

Posts == {"get", "ref", "q_lock", "q_load", "q_store", "q_unlock"}
Frees == {"look", "busy", "mark", "f_lock", "f_clear", "f_unlock"}
Puts == {"map", "map_state", "find", "dec", "check"} \cup Frees
Creates == {"t_lock", "t_load", "t_store", "t_unlock"}

Placed(t) ==
  \/ call[t] = None /\ pc[t] = "start" /\ wr[t] = None
  \/ call[t] = "post_recv" /\ pc[t] \in Posts /\ wr[t] \in Wrs
  \/ call[t] = "receive" /\ pc[t] \in {"pop", "q_lock", "q_load", "q_store"} /\ wr[t] = None
  \/ call[t] = "receive" /\ pc[t] = "q_unlock"
  \/ call[t] = "receive" /\ pc[t] \in Puts /\ wr[t] \in Wrs
  \/ call[t] = "create" /\ pc[t] \in Creates /\ wr[t] = None /\ mr[t] \in Mrs
  \/ call[t] = "destroy" /\ pc[t] \in Frees /\ wr[t] = None

-----------------------------------------------------------------------------
(* What a thread knows of the MR it works with. *)

Live(m) == mstate[m] \in {"valid", "destroyed"}

\* The MR of a WR being posted stays valid, and is found by its handle.
Posting(t) ==
  call[t] = "post_recv" =>
    /\ mstate[uses[wr[t]]] = "valid"
    /\ pc[t] = "get" => slot[t] = handle[uses[wr[t]]]
    /\ pc[t] = "ref" => mr[t] = uses[wr[t]]

\* An MR being created belongs to one thread, and is in the table once it is stored.
Creating(t) ==
  call[t] = "create" =>
    /\ mstate[mr[t]] = "new"
    /\ \A u \in Threads : u # t /\ call[u] = "create" => mr[u] # mr[t]
    /\ pc[t] # "t_unlock" \/ slot[t] = None => \A i \in Slots : table[i] # mr[t]
    /\ pc[t] = "t_store" => slot[t] \in Slots /\ table[slot[t]] = None
    /\ pc[t] = "t_unlock" /\ slot[t] # None => slot[t] \in Slots /\ table[slot[t]] = mr[t]

\* The MR a put or a destruction is about: it is in the table until its slot is cleared.
Target(t) == IF pc[t] = "f_unlock" THEN mr[t] ELSE table[slot[t]]

Putting(t) ==
  pc[t] \in Puts =>
    /\ slot[t] \in Slots /\ Target(t) \in Mrs /\ Live(Target(t))
    /\ handle[Target(t)] = slot[t]
    /\ call[t] = "receive" => /\ uses[wr[t]] = Target(t)
                              /\ pc[t] \in Frees => mstate[Target(t)] = "destroyed"
    /\ call[t] = "destroy" => mstate[Target(t)] = "valid"
    /\ pc[t] \notin {"map", "find", "look"} => mr[t] = Target(t)
    /\ pc[t] = "mark" => ref[Target(t)] # 0
    /\ pc[t] \in {"f_lock", "f_clear", "f_unlock"} => ref[Target(t)] = 0
    /\ pc[t] = "f_unlock" => table[slot[t]] = None

-----------------------------------------------------------------------------
(* The table, and the WRs. *)

InTheTable ==
  \A i \in Slots : table[i] # None =>
    handle[table[i]] = i /\ mstate[table[i]] \in {"new", "valid", "destroyed"}

LiveFound ==
  \A m \in Mrs : Live(m) =>
    /\ handle[m] \in Slots
    /\ \/ table[handle[m]] = m
       \/ \E t \in Threads : mr[t] = m /\ At(t, "f_unlock")

\* A WR is in one place: in the list once, or in the hand of one thread.  Only a
\* thread that has just posted one has it in hand while it is in the list.
InList(w) == \E i \in 1 .. Len(rq) : rq[i] = w

WrsInOnePlace ==
  /\ \A i, j \in 1 .. Len(rq) : rq[i] = rq[j] => i = j
  /\ \A t, u \in Threads : t # u /\ wr[t] # None => wr[t] # wr[u]
  /\ \A t \in Threads : wr[t] # None =>
       (InList(wr[t]) <=> call[t] = "post_recv" /\ pc[t] = "q_unlock")

\* What a reception that goes on at label l leaves in resp.wr.
RespFor(t, l, r) ==
  /\ l \in {"q_lock", "q_load", "q_store", "q_unlock"} => r = None
  /\ l \in {"map", "map_state"} => r = wr[t]
  /\ l \in Puts => r \in {None, wr[t]}

RespAt(t) ==
  /\ wr[t] # None /\ wr[t] = resp => call[t] = "receive"
  /\ call[t] = "receive" => RespFor(t, pc[t], resp)

\* resp.wr is in no list, and in no hand but that of the reception that took it.
RespKept == (resp # None => ~InList(resp)) /\ \A t \in Threads : RespAt(t)

UsedMrs == \A w \in Wrs : uses[w] # None => mstate[uses[w]] \notin {"none", "new"}

RefsCounted == \A m \in Mrs : IsFiniteSet(WrsOf(m)) /\ ref[m] = Cardinality(WrsOf(m))

(***************************************************************************)
(* The counts need the place of every WR, the frees need the counts and    *)
(* that the thread that frees is alone, and what the table holds needs     *)
(* both.                                                                   *)
(***************************************************************************)
RefInv ==
  /\ CallsApart
  /\ \A t \in Threads : Placed(t) /\ Posting(t) /\ Creating(t) /\ Putting(t)
  /\ InTheTable /\ LiveFound /\ WrsInOnePlace /\ UsedMrs
  /\ RefsCounted /\ NoUseAfterFree

-----------------------------------------------------------------------------
(* Steps that touch nothing but the locals of one thread. *)

\* The locals of the other threads stay.
Others(t) ==
  \A u \in Threads \ {t} : /\ call'[u] = call[u] /\ pc'[u] = pc[u] /\ wr'[u] = wr[u]
                           /\ mr'[u] = mr[u] /\ slot'[u] = slot[u]

LEMMA GotoOthers ==
  ASSUME ConcShape, NEW t \in Threads, NEW l, Goto(t, l), UNCHANGED <<call, wr, mr, slot>>
  PROVE  /\ Others(t) /\ pc'[t] = l
         /\ call'[t] = call[t] /\ wr'[t] = wr[t] /\ mr'[t] = mr[t] /\ slot'[t] = slot[t]
BY DEF ConcShape, Goto, Others

LEMMA ReturnOthers ==
  ASSUME ConcShape, NEW t \in Threads, Return(t)
  PROVE  /\ Others(t) /\ pc'[t] = "start"
         /\ call'[t] = None /\ wr'[t] = None /\ mr'[t] = None /\ slot'[t] = None
BY DEF ConcShape, Return, Goto, Others

\* A step of one thread leaves the others apart if its call was begun before.
LEMMA ApartKept ==
  ASSUME CallsApart, NEW t \in Threads, Others(t), call'[t] \in {call[t], None}
  PROVE  CallsApart'
<1>1. None \notin Reapers /\ None # "post_recv" /\ None # "destroy"
  BY ConcurrencyAssumption DEF Reapers, Calls
<1>2. \A u \in Threads : call'[u] \in {call[u], None}
  BY DEF Others
<1> QED
  BY <1>1, <1>2 DEF CallsApart

\* What a thread knows stays true while it waits.
LEMMA KnownKept ==
  ASSUME RefInv, NEW t \in Threads, Others(t),
         UNCHANGED <<table, ref, mstate, handle, uses>>,
         call'[t] = "create" => call[t] = "create" /\ mr'[t] = mr[t],
         NEW u \in Threads \ {t}
  PROVE  Placed(u)' /\ Posting(u)' /\ Creating(u)' /\ Putting(u)'
<1>1. Placed(u) /\ Posting(u) /\ Creating(u) /\ Putting(u)
  BY DEF RefInv
<1>2. /\ call'[u] = call[u] /\ pc'[u] = pc[u] /\ wr'[u] = wr[u]
      /\ mr'[u] = mr[u] /\ slot'[u] = slot[u]
  BY DEF Others
<1>3. Placed(u)'
  BY <1>1, <1>2 DEF Placed
<1>4. Posting(u)'
  BY <1>1, <1>2 DEF Posting
<1>5. Creating(u)'
  <2>1. \A v \in Threads : call'[v] = "create" => call[v] = "create" /\ mr'[v] = mr[v]
    BY DEF Others
  <2> QED
    BY <2>1, <1>1, <1>2 DEF Creating
<1>6. Putting(u)'
  <2>1. Target(u)' = Target(u) /\ \A m : Live(m)' <=> Live(m)
    BY <1>2 DEF Target, Live
  <2> QED
    BY <2>1, <1>1, <1>2 DEF Putting
<1> QED
  BY <1>3, <1>4, <1>5, <1>6

-----------------------------------------------------------------------------
(* Which WRs use an MR. *)

\* Where the thread that has a WR in hand holds no reference for it.
Uncounted == {"get", "ref", "check", "look", "busy", "mark", "f_lock", "f_clear", "f_unlock"}

Kept(w) == InList(w) \/ resp = w

\* A WR in the hand of a thread counts by where the thread is, any other if it is
\* in the list or in resp.wr.
LEMMA CountsWhere ==
  ASSUME WrsInOnePlace, None \notin Wrs, NEW m, NEW w \in Wrs
  PROVE  /\ \A t \in Threads :
              wr[t] = w => (w \in WrsOf(m) <=> uses[w] = m /\ pc[t] \notin Uncounted)
         /\ (\A t \in Threads : wr[t] # w) => (w \in WrsOf(m) <=> uses[w] = m /\ Kept(w))
<1>1. ASSUME NEW t \in Threads, wr[t] = w
      PROVE  w \in WrsOf(m) <=> uses[w] = m /\ pc[t] \notin Uncounted
  <2>1. \A u \in Threads : wr[u] = w => u = t
    BY <1>1 DEF WrsInOnePlace
  <2> QED
    BY <2>1, <1>1 DEF WrsOf, Uncounted, Freeing
<1>2. ASSUME \A t \in Threads : wr[t] # w
      PROVE  w \in WrsOf(m) <=> uses[w] = m /\ Kept(w)
  BY <1>2 DEF WrsOf, InList, Kept
<1> QED
  BY <1>1, <1>2

LEMMA CountsWhereNext ==
  ASSUME WrsInOnePlace', None \notin Wrs, NEW m, NEW w \in Wrs
  PROVE  /\ \A t \in Threads :
              wr'[t] = w => (w \in WrsOf(m)' <=> uses'[w] = m /\ pc'[t] \notin Uncounted)
         /\ (\A t \in Threads : wr'[t] # w)
              => (w \in WrsOf(m)' <=> uses'[w] = m /\ Kept(w)')
<1>1. ASSUME NEW t \in Threads, wr'[t] = w
      PROVE  w \in WrsOf(m)' <=> uses'[w] = m /\ pc'[t] \notin Uncounted
  <2>1. \A u \in Threads : wr'[u] = w => u = t
    BY <1>1 DEF WrsInOnePlace
  <2> QED
    BY <2>1, <1>1 DEF WrsOf, Uncounted, Freeing
<1>2. ASSUME \A t \in Threads : wr'[t] # w
      PROVE  w \in WrsOf(m)' <=> uses'[w] = m /\ Kept(w)'
  BY <1>2 DEF WrsOf, InList, Kept
<1> QED
  BY <1>1, <1>2

\* A WR no step of its own thread is about counts as before.
LEMMA OtherWrCounts ==
  ASSUME WrsInOnePlace, WrsInOnePlace', NEW t \in Threads, Others(t), NEW m,
         NEW w \in Wrs, w # wr[t], w # wr'[t], uses'[w] = uses[w], Kept(w)' <=> Kept(w)
  PROVE  w \in WrsOf(m)' <=> w \in WrsOf(m)
<1> USE ConcurrencyAssumption
<1>1. CASE \E u \in Threads : wr[u] = w
  <2>1. PICK u \in Threads : wr[u] = w
    BY <1>1
  <2>2. u # t /\ wr'[u] = w /\ pc'[u] = pc[u]
    BY <2>1 DEF Others
  <2>3. w \in WrsOf(m) <=> uses[w] = m /\ pc[u] \notin Uncounted
    BY <2>1, CountsWhere
  <2>4. w \in WrsOf(m)' <=> uses'[w] = m /\ pc'[u] \notin Uncounted
    BY <2>2, CountsWhereNext
  <2> QED
    BY <2>2, <2>3, <2>4
<1>2. CASE \A u \in Threads : wr[u] # w
  <2>1. \A u \in Threads : wr'[u] # w
    BY <1>2 DEF Others
  <2>2. w \in WrsOf(m) <=> uses[w] = m /\ Kept(w)
    BY <1>2, CountsWhere
  <2>3. w \in WrsOf(m)' <=> uses'[w] = m /\ Kept(w)'
    BY <2>1, CountsWhereNext
  <2> QED
    BY <2>2, <2>3
<1> QED
  BY <1>1, <1>2

ListedNext(w) == \E i \in 1 .. Len(rq') : rq'[i] = w
KeptNext(w) == ListedNext(w) \/ resp' = w

\* The WRs of every MR stay, whether a thread keeps its WR, lets go of it or takes one.
LEMMA SameWrs ==
  ASSUME WrsInOnePlace, WrsInOnePlace', NEW t \in Threads, Others(t), uses' = uses,
         \A w \in Wrs : w # wr[t] /\ w # wr'[t] => (Kept(w)' <=> Kept(w)),
         \/ wr'[t] = wr[t] /\ (wr[t] # None => (pc'[t] \in Uncounted <=> pc[t] \in Uncounted))
         \/ wr'[t] = None /\ (pc[t] \notin Uncounted <=> KeptNext(wr[t]))
         \/ wr[t] = None /\ Kept(wr'[t]) /\ pc'[t] \notin Uncounted,
         NEW m
  PROVE  WrsOf(m)' = WrsOf(m)
<1> USE ConcurrencyAssumption
<1>1. ASSUME NEW w \in Wrs, w # wr[t], w # wr'[t]
      PROVE  w \in WrsOf(m)' <=> w \in WrsOf(m)
  BY <1>1, OtherWrCounts
<1>2. ASSUME NEW w \in Wrs, w = wr[t], w = wr'[t]
      PROVE  w \in WrsOf(m)' <=> w \in WrsOf(m)
  <2>1. w \in WrsOf(m) <=> uses[w] = m /\ pc[t] \notin Uncounted
    BY <1>2, CountsWhere
  <2>2. w \in WrsOf(m)' <=> uses'[w] = m /\ pc'[t] \notin Uncounted
    BY <1>2, CountsWhereNext
  <2> QED
    BY <2>1, <2>2, <1>2
<1>3. ASSUME NEW w \in Wrs, w = wr[t], w # wr'[t]
      PROVE  w \in WrsOf(m)' <=> w \in WrsOf(m)
  <2>1. wr'[t] = None /\ (pc[t] \notin Uncounted <=> Kept(w)')
    BY <1>3 DEF InList, ListedNext, Kept, KeptNext
  <2>2. \A u \in Threads : wr'[u] # w
    BY <1>3 DEF Others, WrsInOnePlace
  <2>3. w \in WrsOf(m) <=> uses[w] = m /\ pc[t] \notin Uncounted
    BY <1>3, CountsWhere
  <2>4. w \in WrsOf(m)' <=> uses'[w] = m /\ Kept(w)'
    BY <2>2, CountsWhereNext
  <2> QED
    BY <2>1, <2>3, <2>4
<1>4. ASSUME NEW w \in Wrs, w # wr[t], w = wr'[t]
      PROVE  w \in WrsOf(m)' <=> w \in WrsOf(m)
  <2>1. wr[t] = None /\ Kept(w) /\ pc'[t] \notin Uncounted
    BY <1>4
  <2>2. \A u \in Threads : wr[u] # w
    BY <1>4 DEF Others, WrsInOnePlace
  <2>3. w \in WrsOf(m) <=> uses[w] = m /\ Kept(w)
    BY <2>2, CountsWhere
  <2>4. w \in WrsOf(m)' <=> uses'[w] = m /\ pc'[t] \notin Uncounted
    BY <1>4, CountsWhereNext
  <2> QED
    BY <2>1, <2>3, <2>4
<1>5. WrsOf(m) \subseteq Wrs /\ WrsOf(m)' \subseteq Wrs
  BY DEF WrsOf
<1> QED
  BY <1>1, <1>2, <1>3, <1>4, <1>5

\* The thread keeps its WR where it counts the same, or lets go of it.
KeepsWr(t) ==
  \/ /\ wr'[t] = wr[t]
     /\ wr[t] # None =>
          /\ pc'[t] \in Uncounted <=> pc[t] \in Uncounted
          /\ call'[t] = "post_recv" /\ pc'[t] = "q_unlock"
               <=> call[t] = "post_recv" /\ pc[t] = "q_unlock"
  \/ wr'[t] = None /\ (pc[t] \notin Uncounted <=> KeptNext(wr[t]))

\* Only the WR in the thread's hand goes to or leaves resp.wr.
RespMoves(t) == resp' = resp \/ {resp, resp'} \subseteq {None, wr[t]}

LEMMA PlacesKept ==
  ASSUME WrsInOnePlace, NEW t \in Threads, Others(t), KeepsWr(t), rq' = rq
  PROVE  WrsInOnePlace'
<1>1. \A i, j \in 1 .. Len(rq') : rq'[i] = rq'[j] => i = j
  BY DEF WrsInOnePlace
<1>2. \A u, v \in Threads : u # v /\ wr'[u] # None => wr'[u] # wr'[v]
  <2>1. \A u \in Threads : wr'[u] # None => wr'[u] = wr[u]
    BY DEF Others, KeepsWr
  <2> QED
    BY <2>1 DEF WrsInOnePlace
<1>3. ASSUME NEW u \in Threads, wr'[u] # None
      PROVE  InList(wr[u])' <=> call'[u] = "post_recv" /\ pc'[u] = "q_unlock"
  <2>1. wr'[u] = wr[u]
    BY <1>3 DEF Others, KeepsWr
  <2>2. InList(wr[u])' <=> InList(wr[u])
    BY <2>1 DEF InList
  <2>3. InList(wr[u]) <=> call[u] = "post_recv" /\ pc[u] = "q_unlock"
    BY <2>1, <1>3 DEF WrsInOnePlace
  <2> QED
    BY <1>3, <2>1, <2>2, <2>3 DEF Others, KeepsWr
<1> QED
  BY <1>1, <1>2, <1>3 DEF WrsInOnePlace

LEMMA CountsKept ==
  ASSUME WrsInOnePlace, NEW t \in Threads, Others(t), KeepsWr(t), RespMoves(t), rq' = rq,
         uses' = uses, NEW m
  PROVE  WrsOf(m)' = WrsOf(m)
<1>1. WrsInOnePlace'
  BY PlacesKept
<1>2. \A w \in Wrs : w # wr[t] => (Kept(w)' <=> Kept(w))
  BY ConcurrencyAssumption DEF InList, Kept, RespMoves
<1>3. \/ wr'[t] = wr[t] /\ (wr[t] # None => (pc'[t] \in Uncounted <=> pc[t] \in Uncounted))
      \/ wr'[t] = None /\ (pc[t] \notin Uncounted <=> KeptNext(wr[t]))
  BY DEF KeepsWr
<1> QED
  BY <1>1, <1>2, <1>3, SameWrs

\* The counts stay right, and nothing freed is used, when neither counts nor WRs change.
LEMMA SameCounts ==
  ASSUME RefsCounted, \A m : WrsOf(m)' = WrsOf(m), ref' = ref
  PROVE  RefsCounted'
BY DEF RefsCounted

\* The MR that a thread puts or destroys is in no other thread's hands to put or destroy.
LEMMA OneReaper ==
  ASSUME RefInv, NEW t \in Threads, NEW u \in Threads, t # u, call[t] \in Reapers
  PROVE  pc[u] \notin Puts
<1>1. Placed(u)
  BY DEF RefInv
<1>2. call[u] \notin Reapers
  BY DEF RefInv, CallsApart
<1> QED
  BY <1>1, <1>2 DEF Placed, Reapers, Puts, Frees, Posts, Creates

(***************************************************************************)
(* A step that changes nothing of the MRs and moves a WR only where it     *)
(* counts the same: what the thread itself knows is left to show.          *)
(***************************************************************************)
LEMMA MrsStay ==
  ASSUME RefInv, NEW t \in Threads, Others(t), WrsInOnePlace',
         \A m : WrsOf(m)' = WrsOf(m),
         UNCHANGED <<table, ref, mstate, handle, uses>>, ~uaf', pc[t] # "f_unlock",
         CallsApart', call'[t] = "create" => call[t] = "create" /\ mr'[t] = mr[t],
         Placed(t)', Posting(t)', Creating(t)', Putting(t)'
  PROVE  RefInv'
<1>1. \A u \in Threads : Placed(u)' /\ Posting(u)' /\ Creating(u)' /\ Putting(u)'
  BY KnownKept
<1>2. InTheTable' /\ UsedMrs'
  BY DEF RefInv, InTheTable, UsedMrs
<1>3. LiveFound'
  <2>1. ASSUME NEW m \in Mrs, Live(m)
        PROVE  /\ handle[m] \in Slots
               /\ \/ table[handle[m]] = m
                  \/ \E u \in Threads : mr'[u] = m /\ At(u, "f_unlock")'
    <3>1. /\ handle[m] \in Slots
          /\ \/ table[handle[m]] = m
             \/ \E u \in Threads : mr[u] = m /\ At(u, "f_unlock")
      BY <2>1 DEF RefInv, LiveFound
    <3> QED
      BY <3>1 DEF At, Others
  <2> QED
    BY <2>1 DEF LiveFound, Live
<1>4. RefsCounted'
  BY SameCounts DEF RefInv
<1>5. NoUseAfterFree'
  BY DEF RefInv, NoUseAfterFree
<1> QED
  BY <1>1, <1>2, <1>3, <1>4, <1>5 DEF RefInv

\* A step that changes nothing but its thread's locals.
LEMMA QuietStep ==
  ASSUME RefInv, NEW t \in Threads, Others(t), KeepsWr(t), RespMoves(t),
         UNCHANGED <<table, ref, mstate, handle, uses, rq>>, ~uaf', pc[t] # "f_unlock",
         CallsApart', call'[t] = "create" => call[t] = "create" /\ mr'[t] = mr[t],
         Placed(t)', Posting(t)', Creating(t)', Putting(t)'
  PROVE  RefInv'
<1>1. WrsInOnePlace' /\ \A m : WrsOf(m)' = WrsOf(m)
  BY PlacesKept, CountsKept DEF RefInv
<1> QED
  BY <1>1, MrsStay

-----------------------------------------------------------------------------
(* Calls begin. *)

\* A call that begins meets none that it is kept apart from.
LEMMA BeginApart ==
  ASSUME ConcShape, CallsApart, KeptApart \subseteq Apart,
         NEW t \in Threads, NEW c \in Calls, NEW label, Begin(t, c, label)
  PROVE  CallsApart'
<1>1. /\ {"receive"} \in Apart /\ {"destroy"} \in Apart
      /\ {"destroy", "post_recv"} \in Apart /\ {"destroy", "receive"} \in Apart
  BY DEF KeptApart
<1>2. \A u \in Threads \ {t} : {c, call[u]} \notin Apart
  BY DEF Begin
<1>3. ASSUME NEW u \in Threads \ {t}
      PROVE  /\ ~(c \in Reapers /\ call[u] \in Reapers)
             /\ ~(c = "destroy" /\ call[u] = "post_recv")
             /\ ~(call[u] = "destroy" /\ c = "post_recv")
  <2>1. {c, call[u]} \notin Apart
    BY <1>2
  <2>2. /\ ~(c = "receive" /\ call[u] = "receive") /\ ~(c = "destroy" /\ call[u] = "destroy")
        /\ ~(c = "destroy" /\ call[u] = "receive") /\ ~(c = "receive" /\ call[u] = "destroy")
        /\ ~(c = "destroy" /\ call[u] = "post_recv")
        /\ ~(call[u] = "destroy" /\ c = "post_recv")
    <3>1. /\ {"receive", "receive"} = {"receive"} /\ {"destroy", "destroy"} = {"destroy"}
          /\ {"receive", "destroy"} = {"destroy", "receive"}
          /\ {"post_recv", "destroy"} = {"destroy", "post_recv"}
      OBVIOUS
    <3> QED
      BY <1>1, <2>1, <3>1
  <2> QED
    BY <2>2 DEF Reapers
<1>4. call'[t] = c /\ \A u \in Threads \ {t} : call'[u] = call[u]
  BY DEF Begin, ConcShape
<1> QED
  BY <1>3, <1>4 DEF CallsApart

\* A thread about to begin a call has no WR in hand.
LEMMA BeginOthers ==
  ASSUME ConcShape, RefInv, NEW t \in Threads, NEW c, NEW label, Begin(t, c, label)
  PROVE  /\ pc[t] = "start" /\ wr[t] = None /\ call[t] = None
         /\ call'[t] = c /\ pc'[t] = label
         /\ \A u \in Threads \ {t} : call'[u] = call[u] /\ pc'[u] = pc[u]
<1>1. Placed(t) /\ call[t] = None
  BY DEF RefInv, Begin
<1>2. None # "post_recv" /\ None # "receive" /\ None # "create" /\ None # "destroy"
  BY ConcurrencyAssumption DEF Calls
<1>3. pc[t] = "start" /\ wr[t] = None
  BY <1>1, <1>2 DEF Placed
<1> QED
  BY <1>1, <1>3 DEF Begin, Goto, ConcShape

LEMMA ReceiveStep ==
  ASSUME ConcInv, RefInv, KeptApart \subseteq Apart, NEW t \in Threads, Receive(t)
  PROVE  RefInv'
<1> USE ConcurrencyAssumption
<1>1. ConcShape /\ Begin(t, "receive", "pop") /\ "receive" \in Calls
  BY DEF ConcInv, ConcTypeOK, Receive, Calls
<1>2. UNCHANGED <<wr, mr, slot, table, ref, mstate, handle, uses, rq, resp, uaf>>
  BY DEF Receive, mrs
<1>3. Others(t) /\ pc[t] = "start" /\ wr[t] = None /\ pc'[t] = "pop" /\ call'[t] = "receive"
  BY <1>1, <1>2, BeginOthers DEF Others
<1>4. KeepsWr(t) /\ RespMoves(t) /\ ~uaf'
  BY <1>2, <1>3 DEF KeepsWr, RespMoves, RefInv, NoUseAfterFree
<1>5. CallsApart'
  BY <1>1, BeginApart DEF RefInv
<1>6. Placed(t)' /\ Posting(t)' /\ Creating(t)' /\ Putting(t)'
  BY <1>2, <1>3 DEF Placed, Posting, Creating, Putting, Puts, Frees
<1> QED
  BY <1>2, <1>3, <1>4, <1>5, <1>6, QuietStep

LEMMA DestroyMrStep ==
  ASSUME ConcInv, RefInv, KeptApart \subseteq Apart,
         NEW t \in Threads, NEW m \in Mrs, DestroyMr(t, m)
  PROVE  RefInv'
<1> USE ConcurrencyAssumption
<1>1. ConcShape /\ Begin(t, "destroy", "look") /\ "destroy" \in Calls
  BY DEF ConcInv, ConcTypeOK, DestroyMr, Calls
<1>2. /\ UNCHANGED <<wr, mr, table, ref, mstate, handle, uses, rq, resp, uaf>>
      /\ slot' = [slot EXCEPT ![t] = handle[m]] /\ mstate[m] = "valid"
  BY DEF DestroyMr, mrs
<1>3. /\ pc[t] = "start" /\ wr[t] = None /\ pc'[t] = "look" /\ call'[t] = "destroy"
      /\ slot'[t] = handle[m] /\ Others(t)
  BY <1>1, <1>2, BeginOthers DEF Others, ConcShape
<1>4. KeepsWr(t) /\ RespMoves(t) /\ ~uaf'
  BY <1>2, <1>3 DEF KeepsWr, RespMoves, RefInv, NoUseAfterFree
<1>5. CallsApart'
  BY <1>1, BeginApart DEF RefInv
<1>6. handle[m] \in Slots /\ table[handle[m]] = m
  <2>1. ASSUME NEW u \in Threads, At(u, "f_unlock") PROVE FALSE
    <3>1. u # t /\ Placed(u)
      BY <2>1, <1>3 DEF RefInv, At
    <3>2. call[u] \in Reapers
      BY <2>1, <3>1 DEF Placed, At, Posts, Creates, Reapers
    <3> QED
      BY <3>1, <3>2, <1>3, <1>5 DEF CallsApart, Others, Reapers
  <2> QED
    BY <2>1, <1>2 DEF RefInv, LiveFound, Live
<1>7. Placed(t)' /\ Posting(t)' /\ Creating(t)'
  BY <1>2, <1>3 DEF Placed, Posting, Creating, Frees
<1>8. Putting(t)'
  <2>1. Target(t)' = m
    BY <1>2, <1>3, <1>6 DEF Target
  <2> QED
    BY <2>1, <1>2, <1>3, <1>6 DEF Putting, Live, Frees
<1> QED
  BY <1>2, <1>3, <1>4, <1>5, <1>7, <1>8, QuietStep

-----------------------------------------------------------------------------
(* Handles are looked up. *)

\* A thread that looks a handle up finds the MR it is about: Return is never taken.
LEMMA LookupFinds ==
  ASSUME ConcInv, RefInv, NEW t \in Threads, NEW label, NEW next,
         Lookup(t, label, next), slot[t] \in Slots, table[slot[t]] \in Mrs
  PROVE  /\ Others(t) /\ pc[t] = label /\ pc'[t] = next /\ mr'[t] = table[slot[t]]
         /\ call'[t] = call[t] /\ wr'[t] = wr[t] /\ slot'[t] = slot[t]
         /\ UNCHANGED <<table, ref, mstate, handle, uses, rq, resp>> /\ ~uaf'
<1>1. table[slot[t]] # None
  BY ConcurrencyAssumption
<1>2. /\ mr' = [mr EXCEPT ![t] = table[slot[t]]] /\ pc' = [pc EXCEPT ![t] = next]
      /\ UNCHANGED <<call, wr, slot, resp>>
  BY <1>1 DEF Lookup, Goto
<1>3. pc[t] = label /\ UNCHANGED <<table, ref, mstate, handle, uses, rq, uaf>> /\ ~uaf
  BY DEF Lookup, At, mrs, RefInv, NoUseAfterFree
<1>4. DOMAIN mr = Threads /\ DOMAIN pc = Threads
  BY DEF ConcInv, ConcTypeOK, ConcShape
<1> QED
  BY <1>2, <1>3, <1>4 DEF Others, ConcInv, ConcTypeOK, ConcShape

LEMMA GetStep ==
  ASSUME ConcInv, RefInv, NEW t \in Threads, Lookup(t, "get", "ref")
  PROVE  RefInv'
<1> USE ConcurrencyAssumption
<1>1. pc[t] = "get" /\ Placed(t) /\ Posting(t)
  BY DEF RefInv, Lookup, At
<1>2. call[t] = "post_recv" /\ wr[t] \in Wrs
  BY <1>1 DEF Placed, Puts, Frees, Creates
<1> DEFINE m == uses[wr[t]]
<1>3. m \in Mrs /\ mstate[m] = "valid" /\ slot[t] = handle[m]
  BY <1>1, <1>2 DEF ConcInv, StepsAgree, Posting
<1>4. slot[t] \in Slots /\ table[slot[t]] = m
  <2>1. ASSUME NEW u \in Threads, mr[u] = m, At(u, "f_unlock") PROVE FALSE
    <3>1. Placed(u) /\ Putting(u) /\ u # t
      BY <2>1, <1>1 DEF RefInv, At
    <3>2. call[u] = "receive" \/ call[u] = "destroy"
      BY <2>1, <3>1 DEF Placed, At, Posts, Creates
    <3>3. call[u] # "destroy"
      BY <3>1, <1>2 DEF RefInv, CallsApart
    <3>4. mstate[m] = "destroyed"
      BY <2>1, <3>1, <3>2, <3>3 DEF Putting, Puts, Frees, At, Target
    <3> QED
      BY <3>4, <1>3
  <2> QED
    BY <2>1, <1>3 DEF RefInv, LiveFound, Live
<1>5. /\ Others(t) /\ pc'[t] = "ref" /\ mr'[t] = m
      /\ call'[t] = call[t] /\ wr'[t] = wr[t] /\ slot'[t] = slot[t]
      /\ UNCHANGED <<table, ref, mstate, handle, uses, rq, resp>> /\ ~uaf'
  BY <1>3, <1>4, LookupFinds
<1> HIDE DEF m
<1>6. KeepsWr(t) /\ RespMoves(t)
  BY <1>1, <1>5 DEF KeepsWr, RespMoves, Uncounted
<1>7. CallsApart'
  BY <1>5, ApartKept DEF RefInv
<1>8. Placed(t)' /\ Creating(t)' /\ Putting(t)'
  BY <1>2, <1>5 DEF Placed, Posts, Creating, Putting, Puts, Frees
<1>9. Posting(t)'
  BY <1>2, <1>3, <1>5 DEF Posting, m
<1> QED
  BY <1>1, <1>2, <1>5, <1>6, <1>7, <1>8, <1>9, QuietStep

LEMMA MapStep ==
  ASSUME ConcInv, RefInv, NEW t \in Threads, Lookup(t, "map", "map_state")
  PROVE  RefInv'
<1> USE ConcurrencyAssumption
<1>1. pc[t] = "map" /\ Placed(t) /\ Putting(t)
  BY DEF RefInv, Lookup, At
<1>2. call[t] = "receive" /\ wr[t] \in Wrs
  BY <1>1 DEF Placed, Posts, Frees, Creates
<1>3. slot[t] \in Slots /\ table[slot[t]] \in Mrs
  BY <1>1 DEF Putting, Puts, Target
<1>4. /\ Others(t) /\ pc'[t] = "map_state" /\ mr'[t] = table[slot[t]]
      /\ call'[t] = call[t] /\ wr'[t] = wr[t] /\ slot'[t] = slot[t]
      /\ UNCHANGED <<table, ref, mstate, handle, uses, rq, resp>> /\ ~uaf'
  BY <1>3, LookupFinds
<1>5. KeepsWr(t) /\ RespMoves(t)
  BY <1>1, <1>2, <1>4 DEF KeepsWr, RespMoves, Uncounted
<1>6. CallsApart'
  BY <1>4, ApartKept DEF RefInv
<1>7. Placed(t)' /\ Posting(t)' /\ Creating(t)'
  BY <1>2, <1>4 DEF Placed, Puts, Posting, Creating
<1>8. Putting(t)'
  <2>1. Target(t)' = Target(t) /\ Target(t) = table[slot[t]]
    BY <1>1, <1>4 DEF Target
  <2> QED
    BY <2>1, <1>1, <1>2, <1>4 DEF Putting, Puts, Frees, Live
<1> QED
  BY <1>1, <1>2, <1>4, <1>5, <1>6, <1>7, <1>8, QuietStep

LEMMA FindStep ==
  ASSUME ConcInv, RefInv, NEW t \in Threads, Lookup(t, "find", "dec")
  PROVE  RefInv'
<1> USE ConcurrencyAssumption
<1>1. pc[t] = "find" /\ Placed(t) /\ Putting(t)
  BY DEF RefInv, Lookup, At
<1>2. call[t] = "receive" /\ wr[t] \in Wrs
  BY <1>1 DEF Placed, Posts, Frees, Creates
<1>3. slot[t] \in Slots /\ table[slot[t]] \in Mrs
  BY <1>1 DEF Putting, Puts, Target
<1>4. /\ Others(t) /\ pc'[t] = "dec" /\ mr'[t] = table[slot[t]]
      /\ call'[t] = call[t] /\ wr'[t] = wr[t] /\ slot'[t] = slot[t]
      /\ UNCHANGED <<table, ref, mstate, handle, uses, rq, resp>> /\ ~uaf'
  BY <1>3, LookupFinds
<1>5. KeepsWr(t) /\ RespMoves(t)
  BY <1>1, <1>2, <1>4 DEF KeepsWr, RespMoves, Uncounted
<1>6. CallsApart'
  BY <1>4, ApartKept DEF RefInv
<1>7. Placed(t)' /\ Posting(t)' /\ Creating(t)'
  BY <1>2, <1>4 DEF Placed, Puts, Posting, Creating
<1>8. Putting(t)'
  <2>1. Target(t)' = Target(t) /\ Target(t) = table[slot[t]]
    BY <1>1, <1>4 DEF Target
  <2> QED
    BY <2>1, <1>1, <1>2, <1>4 DEF Putting, Puts, Frees, Live
<1> QED
  BY <1>1, <1>2, <1>4, <1>5, <1>6, <1>7, <1>8, QuietStep

LEMMA LookStep ==
  ASSUME ConcInv, RefInv, NEW t \in Threads, Lookup(t, "look", "busy")
  PROVE  RefInv'
<1> USE ConcurrencyAssumption
<1>1. pc[t] = "look" /\ Placed(t) /\ Putting(t)
  BY DEF RefInv, Lookup, At
<1>2. \/ call[t] = "receive" /\ wr[t] \in Wrs
      \/ call[t] = "destroy" /\ wr[t] = None
  BY <1>1 DEF Placed, Posts, Creates
<1>3. slot[t] \in Slots /\ table[slot[t]] \in Mrs
  BY <1>1 DEF Putting, Puts, Frees, Target
<1>4. /\ Others(t) /\ pc'[t] = "busy" /\ mr'[t] = table[slot[t]]
      /\ call'[t] = call[t] /\ wr'[t] = wr[t] /\ slot'[t] = slot[t]
      /\ UNCHANGED <<table, ref, mstate, handle, uses, rq, resp>> /\ ~uaf'
  BY <1>3, LookupFinds
<1>5. KeepsWr(t) /\ RespMoves(t)
  BY <1>1, <1>2, <1>4 DEF KeepsWr, RespMoves, Uncounted
<1>6. CallsApart'
  BY <1>4, ApartKept DEF RefInv
<1>7. Placed(t)' /\ Posting(t)' /\ Creating(t)'
  BY <1>2, <1>4 DEF Placed, Puts, Frees, Posting, Creating
<1>8. Putting(t)'
  <2>1. Target(t)' = Target(t) /\ Target(t) = table[slot[t]]
    BY <1>1, <1>4 DEF Target
  <2> QED
    BY <2>1, <1>1, <1>2, <1>4 DEF Putting, Puts, Frees, Live
<1> QED
  BY <1>1, <1>2, <1>4, <1>5, <1>6, <1>7, <1>8, QuietStep

-----------------------------------------------------------------------------
(* The list of receive WRs. *)

LEMMA PopUnlessHeldStep ==
  ASSUME ConcInv, RefInv, NEW t \in Threads, PopUnlessHeld(t)
  PROVE  RefInv'
<1> USE ConcurrencyAssumption
<1>1. /\ pc[t] = "pop" /\ Placed(t) /\ ConcShape
      /\ UNCHANGED <<table, ref, mstate, handle, uses, rq, resp>> /\ ~uaf'
  BY DEF RefInv, PopUnlessHeld, At, mrs, NoUseAfterFree, ConcInv, ConcTypeOK
<1>2. call[t] = "receive" /\ wr[t] = None
  BY <1>1 DEF Placed, Posts, Puts, Frees, Creates
<1>3. /\ Others(t) /\ wr'[t] = None
      /\ \/ call'[t] = call[t] /\ pc'[t] = "q_lock"
         \/ call'[t] = None /\ pc'[t] = "start"
  <2>1. CASE Goto(t, "q_lock") /\ UNCHANGED <<call, wr, mr, slot>>
    BY <2>1, <1>1, <1>2, GotoOthers
  <2>2. CASE Return(t)
    BY <2>2, <1>1, ReturnOthers
  <2> QED
    BY <2>1, <2>2 DEF PopUnlessHeld
<1>4. KeepsWr(t) /\ RespMoves(t) /\ CallsApart'
  BY <1>1, <1>2, <1>3, ApartKept DEF KeepsWr, RespMoves, RefInv
<1>5. call'[t] # "create" /\ Placed(t)' /\ Posting(t)' /\ Creating(t)' /\ Putting(t)'
  BY <1>2, <1>3 DEF Placed, Posting, Creating, Putting, Puts, Frees, Calls
<1> QED
  BY <1>1, <1>3, <1>4, <1>5, QuietStep

LEMMA LockQueueStep ==
  ASSUME ConcInv, RefInv, NEW t \in Threads, LockQueue(t)
  PROVE  RefInv'
<1> USE ConcurrencyAssumption
<1>1. /\ pc[t] = "q_lock" /\ Placed(t) /\ Posting(t) /\ Goto(t, "q_load") /\ ConcShape
      /\ UNCHANGED <<call, wr, mr, slot, table, ref, mstate, handle, uses, rq, resp>> /\ ~uaf'
  BY DEF RefInv, LockQueue, At, mrs, NoUseAfterFree, ConcInv, ConcTypeOK
<1>2. \/ call[t] = "post_recv" /\ wr[t] \in Wrs
      \/ call[t] = "receive" /\ wr[t] = None
  BY <1>1 DEF Placed, Puts, Frees, Creates
<1>3. /\ Others(t) /\ pc'[t] = "q_load"
      /\ call'[t] = call[t] /\ wr'[t] = wr[t] /\ mr'[t] = mr[t] /\ slot'[t] = slot[t]
  BY <1>1, GotoOthers
<1>4. KeepsWr(t) /\ RespMoves(t) /\ CallsApart'
  BY <1>1, <1>3, ApartKept DEF KeepsWr, RespMoves, Uncounted, RefInv
<1>5. Placed(t)' /\ Posting(t)' /\ Creating(t)' /\ Putting(t)'
  BY <1>1, <1>2, <1>3 DEF Placed, Posting, Creating, Putting, Puts, Frees, Posts
<1> QED
  BY <1>1, <1>3, <1>4, <1>5, QuietStep

LEMMA LoadQueueStep ==
  ASSUME ConcInv, RefInv, NEW t \in Threads, LoadQueue(t)
  PROVE  RefInv'
<1> USE ConcurrencyAssumption
<1> DEFINE next == IF call[t] = "receive" /\ rq = <<>> THEN "q_unlock" ELSE "q_store"
<1>1. /\ pc[t] = "q_load" /\ Placed(t) /\ Posting(t) /\ Goto(t, next) /\ ConcShape
      /\ UNCHANGED <<call, wr, mr, slot, table, ref, mstate, handle, uses, rq, resp>> /\ ~uaf'
  BY DEF RefInv, LoadQueue, At, mrs, NoUseAfterFree, ConcInv, ConcTypeOK
<1>2. \/ call[t] = "post_recv" /\ wr[t] \in Wrs /\ next = "q_store"
      \/ call[t] = "receive" /\ wr[t] = None /\ next \in {"q_unlock", "q_store"}
  BY <1>1 DEF Placed, Puts, Frees, Creates
<1> HIDE DEF next
<1>3. /\ Others(t) /\ pc'[t] = next
      /\ call'[t] = call[t] /\ wr'[t] = wr[t] /\ mr'[t] = mr[t] /\ slot'[t] = slot[t]
  BY <1>1, GotoOthers
<1>4. KeepsWr(t) /\ RespMoves(t) /\ CallsApart'
  BY <1>1, <1>2, <1>3, ApartKept DEF KeepsWr, RespMoves, Uncounted, RefInv
<1>5. Placed(t)' /\ Posting(t)' /\ Creating(t)' /\ Putting(t)'
  BY <1>1, <1>2, <1>3 DEF Placed, Posting, Creating, Putting, Puts, Frees, Posts
<1> QED
  BY <1>1, <1>3, <1>4, <1>5, QuietStep

\* The WR taken counts until its MR is put, so the MR is there and found by its handle.
LEMMA UnlockQueueStep ==
  ASSUME ConcInv, RefInv, RespKept, NEW t \in Threads, UnlockQueue(t)
  PROVE  RefInv'
<1> USE ConcurrencyAssumption
<1>1. /\ pc[t] = "q_unlock" /\ Placed(t) /\ ConcShape
      /\ UNCHANGED <<table, ref, mstate, handle, uses, rq>> /\ ~uaf'
  BY DEF RefInv, UnlockQueue, At, mrs, NoUseAfterFree, ConcInv, ConcTypeOK
<1>2. \/ call[t] = "post_recv" /\ wr[t] \in Wrs
      \/ call[t] = "receive"
  BY <1>1 DEF Placed, Puts, Frees, Creates
<1>3. CASE call[t] = "receive" /\ wr[t] # None
  <2>0. wr[t] \in Wrs /\ uses[wr[t]] \in Mrs
    BY <1>1, <1>3 DEF ConcShape, ConcInv, StepsAgree
  <2>1. PICK m \in Mrs : wr[t] \in Wrs /\ m = uses[wr[t]]
    BY <2>0
  <2>2. wr[t] \in WrsOf(m)
    <3>1. pc[t] \notin Uncounted
      BY <1>1 DEF Uncounted
    <3> QED
      BY <2>1, <3>1, CountsWhere DEF RefInv
  <2>3. Live(m)
    <3>1. mstate[m] # "freed"
      BY <2>1, <2>2 DEF RefInv, NoUseAfterFree
    <3>2. mstate[m] \notin {"none", "new"}
      BY <2>1 DEF RefInv, UsedMrs
    <3> QED
      BY <1>1, <2>1, <3>1, <3>2 DEF ConcShape, Live
  <2>4. handle[m] \in Slots /\ table[handle[m]] = m
    <3>1. ASSUME NEW u \in Threads, At(u, "f_unlock") PROVE FALSE
      <4>1. u # t /\ pc[u] \in Puts
        BY <1>1, <3>1 DEF At, Puts, Frees
      <4> QED
        BY <4>1, <1>3, OneReaper DEF Reapers
    <3> QED
      BY <3>1, <2>1, <2>3 DEF RefInv, LiveFound
  <2>5. /\ slot' = [slot EXCEPT ![t] = handle[m]] /\ resp' \in {resp, wr[t]}
        /\ \E l \in {"map", "find"} : pc' = [pc EXCEPT ![t] = l]
        /\ UNCHANGED <<call, wr, mr>>
    BY <1>3, <2>1 DEF UnlockQueue, Goto
  <2>6. /\ Others(t) /\ pc'[t] \in {"map", "find"} /\ slot'[t] = handle[m]
        /\ call'[t] = call[t] /\ wr'[t] = wr[t] /\ mr'[t] = mr[t]
    BY <1>1, <2>5 DEF ConcShape, Others
  <2>7. KeepsWr(t) /\ RespMoves(t) /\ CallsApart'
    <3>1. resp = None
      BY <1>1, <1>3 DEF RespKept, RespAt, RespFor
    <3> QED
      BY <3>1, <1>1, <1>3, <2>5, <2>6, ApartKept DEF KeepsWr, RespMoves, Uncounted, RefInv
  <2>8. Placed(t)' /\ Posting(t)' /\ Creating(t)'
    BY <1>3, <2>1, <2>6 DEF Placed, Puts, Posting, Creating
  <2>9. Putting(t)'
    <3>1. Target(t)' = m
      BY <1>1, <2>4, <2>6 DEF Target
    <3>2. Live(m)' /\ uses'[wr'[t]] = m /\ handle'[m] = slot'[t]
      BY <1>1, <2>1, <2>3, <2>6 DEF Live
    <3> QED
      BY <3>1, <3>2, <1>3, <2>1, <2>4, <2>6 DEF Putting, Frees
  <2> QED
    BY <1>1, <1>3, <2>6, <2>7, <2>8, <2>9, QuietStep
<1>4. CASE ~(call[t] = "receive" /\ wr[t] # None)
  <2>1. Return(t) /\ resp' = IF call[t] = "receive" THEN None ELSE resp
    BY <1>4 DEF UnlockQueue, End
  <2>2. /\ Others(t) /\ pc'[t] = "start"
        /\ call'[t] = None /\ wr'[t] = None /\ mr'[t] = None /\ slot'[t] = None
    BY <1>1, <2>1, ReturnOthers
  <2>3. KeepsWr(t) /\ RespMoves(t)
    <3>1. CASE call[t] = "receive"
      <4>1. wr[t] = None /\ resp = None
        BY <3>1, <1>1, <1>4 DEF RespKept, RespAt, RespFor
      <4> QED
        BY <3>1, <4>1, <2>1, <2>2 DEF KeepsWr, RespMoves
    <3>2. CASE call[t] = "post_recv" /\ wr[t] \in Wrs
      <4>1. InList(wr[t])
        BY <1>1, <3>2 DEF RefInv, WrsInOnePlace
      <4>2. ListedNext(wr[t])
        BY <4>1, <1>1 DEF InList, ListedNext
      <4> QED
        BY <3>2, <4>2, <1>1, <2>1, <2>2 DEF KeepsWr, KeptNext, RespMoves, Uncounted
    <3> QED
      BY <3>1, <3>2, <1>2
  <2>4. CallsApart'
    BY <2>2, ApartKept DEF RefInv
  <2>5. call'[t] # "create" /\ Placed(t)' /\ Posting(t)' /\ Creating(t)' /\ Putting(t)'
    BY <2>2 DEF Placed, Posting, Creating, Putting, Puts, Frees, Calls
  <2> QED
    BY <1>1, <2>2, <2>3, <2>4, <2>5, QuietStep
<1> QED
  BY <1>3, <1>4

\* A WR whose MR is refused counts still: resp.wr holds it.
LEMMA MapStateStep ==
  ASSUME ConcInv, RefInv, RespKept, NEW t \in Threads, MapState(t)
  PROVE  RefInv'
<1> USE ConcurrencyAssumption
<1>1. /\ pc[t] = "map_state" /\ Placed(t) /\ Putting(t) /\ ConcShape
      /\ UNCHANGED <<table, ref, mstate, handle, uses, rq, resp>>
  BY DEF RefInv, MapState, At, mrs, ConcInv, ConcTypeOK
<1>2. call[t] = "receive" /\ wr[t] \in Wrs /\ resp = wr[t]
  BY <1>1 DEF Placed, Posts, Frees, Creates, RespKept, RespAt, RespFor
<1>3. Live(mr[t]) /\ mr[t] = Target(t)
  BY <1>1 DEF Putting, Puts
<1>4. ~uaf'
  BY <1>3 DEF MapState, Follow, RefInv, NoUseAfterFree, Live
<1>5. CASE mstate[mr[t]] = "valid"
  <2>1. Goto(t, "find") /\ UNCHANGED <<call, wr, mr, slot>>
    BY <1>5 DEF MapState
  <2>2. /\ Others(t) /\ pc'[t] = "find"
        /\ call'[t] = call[t] /\ wr'[t] = wr[t] /\ mr'[t] = mr[t] /\ slot'[t] = slot[t]
    BY <1>1, <2>1, GotoOthers
  <2>3. KeepsWr(t) /\ RespMoves(t) /\ CallsApart'
    BY <1>1, <1>2, <2>2, ApartKept DEF KeepsWr, RespMoves, Uncounted, RefInv
  <2>4. Placed(t)' /\ Posting(t)' /\ Creating(t)'
    BY <1>2, <2>2 DEF Placed, Puts, Frees, Posting, Creating
  <2>5. Putting(t)'
    <3>1. Target(t)' = Target(t)
      BY <1>1, <2>2 DEF Target
    <3> QED
      BY <3>1, <1>1, <1>2, <1>3, <2>2 DEF Putting, Puts, Frees, Live
  <2> QED
    BY <1>1, <1>2, <1>4, <2>2, <2>3, <2>4, <2>5, QuietStep
<1>6. CASE mstate[mr[t]] # "valid"
  <2>1. Return(t)
    BY <1>6 DEF MapState
  <2>2. /\ Others(t) /\ pc'[t] = "start"
        /\ call'[t] = None /\ wr'[t] = None /\ mr'[t] = None /\ slot'[t] = None
    BY <1>1, <2>1, ReturnOthers
  <2>3. KeepsWr(t) /\ RespMoves(t)
    BY <1>1, <1>2, <2>2 DEF KeepsWr, KeptNext, RespMoves, Uncounted
  <2>4. CallsApart'
    BY <2>2, ApartKept DEF RefInv
  <2>5. call'[t] # "create" /\ Placed(t)' /\ Posting(t)' /\ Creating(t)' /\ Putting(t)'
    BY <2>2 DEF Placed, Posting, Creating, Putting, Puts, Frees, Calls
  <2> QED
    BY <1>1, <1>4, <2>2, <2>3, <2>4, <2>5, QuietStep
<1> QED
  BY <1>5, <1>6

\* The places of the WRs when one is added to the list or taken from it.
LEMMA AppendedPlaces ==
  ASSUME NEW q \in Seq(Wrs), NEW e \in Wrs, \A i \in 1 .. Len(q) : q[i] # e,
         \A i, j \in 1 .. Len(q) : q[i] = q[j] => i = j
  PROVE  /\ \A i, j \in 1 .. Len(Append(q, e)) : Append(q, e)[i] = Append(q, e)[j] => i = j
         /\ \A w : (\E i \in 1 .. Len(Append(q, e)) : Append(q, e)[i] = w)
                     <=> w = e \/ \E i \in 1 .. Len(q) : q[i] = w
<1> DEFINE p == Append(q, e)
<1>1. /\ Len(p) = Len(q) + 1 /\ p[Len(q) + 1] = e /\ Len(q) \in Nat
      /\ \A i \in 1 .. Len(q) : p[i] = q[i]
  OBVIOUS
<1> HIDE DEF p
<1>2. 1 .. Len(p) = 1 .. Len(q) \cup {Len(q) + 1}
  BY <1>1
<1>3. \A i, j \in 1 .. Len(p) : p[i] = p[j] => i = j
  BY <1>1, <1>2
<1>4. \A w : (\E i \in 1 .. Len(p) : p[i] = w) <=> w = e \/ \E i \in 1 .. Len(q) : q[i] = w
  BY <1>1, <1>2
<1> QED
  BY <1>3, <1>4 DEF p

LEMMA PoppedPlaces ==
  ASSUME NEW q \in Seq(Wrs), q # <<>>, \A i, j \in 1 .. Len(q) : q[i] = q[j] => i = j
  PROVE  /\ \A i, j \in 1 .. Len(Tail(q)) : Tail(q)[i] = Tail(q)[j] => i = j
         /\ \A w : (\E i \in 1 .. Len(Tail(q)) : Tail(q)[i] = w)
                     <=> w # Head(q) /\ \E i \in 1 .. Len(q) : q[i] = w
         /\ \E i \in 1 .. Len(q) : q[i] = Head(q)
<1> DEFINE p == Tail(q)
<1>1. /\ Len(q) \in Nat /\ Len(q) # 0 /\ Len(p) = Len(q) - 1 /\ Head(q) = q[1]
      /\ \A i \in 1 .. Len(p) : p[i] = q[i + 1]
  OBVIOUS
<1> HIDE DEF p
<1>2. \A i \in 1 .. Len(p) : i + 1 \in 2 .. Len(q)
  BY <1>1
<1>3. \A i, j \in 1 .. Len(p) : p[i] = p[j] => i = j
  BY <1>1, <1>2
<1>4. ASSUME NEW w
      PROVE  (\E i \in 1 .. Len(p) : p[i] = w) <=> w # q[1] /\ \E i \in 1 .. Len(q) : q[i] = w
  <2>1. ASSUME NEW i \in 1 .. Len(p), p[i] = w
        PROVE  w # q[1] /\ \E j \in 1 .. Len(q) : q[j] = w
    <3>1. i + 1 \in 1 .. Len(q) /\ q[i + 1] = w /\ i + 1 # 1 /\ 1 \in 1 .. Len(q)
      BY <1>1, <2>1
    <3> QED
      BY <3>1
  <2>2. ASSUME NEW j \in 1 .. Len(q), q[j] = w, w # q[1]
        PROVE  \E i \in 1 .. Len(p) : p[i] = w
    <3>1. j - 1 \in 1 .. Len(p) /\ p[j - 1] = q[(j - 1) + 1] /\ (j - 1) + 1 = j
      BY <1>1, <2>2
    <3> QED
      BY <3>1, <2>2
  <2> QED
    BY <2>1, <2>2
<1>5. \E i \in 1 .. Len(q) : q[i] = q[1]
  BY <1>1
<1> QED
  BY <1>1, <1>3, <1>4, <1>5 DEF p

LEMMA AddTailStep ==
  ASSUME ConcInv, RefInv, NEW t \in Threads, AddTail(t)
  PROVE  RefInv'
<1> USE ConcurrencyAssumption
<1>1. /\ pc[t] = "q_store" /\ call[t] = "post_recv" /\ Placed(t) /\ Posting(t) /\ ConcShape
      /\ Goto(t, "q_unlock") /\ WrsInOnePlace
      /\ UNCHANGED <<call, wr, mr, slot, table, ref, mstate, handle, uses, resp>> /\ ~uaf'
  BY DEF RefInv, AddTail, At, mrs, NoUseAfterFree, ConcInv, ConcTypeOK
<1>2. wr[t] \in Wrs /\ rq' = Append(rq, wr[t]) /\ rq \in Seq(Wrs)
  BY <1>1 DEF Placed, Puts, Frees, Creates, AddTail, ConcInv, StepsAgree, ConcShape
<1>3. /\ Others(t) /\ pc'[t] = "q_unlock"
      /\ call'[t] = call[t] /\ wr'[t] = wr[t] /\ mr'[t] = mr[t] /\ slot'[t] = slot[t]
  BY <1>1, GotoOthers
<1>4. ~InList(wr[t])
  BY <1>1, <1>2 DEF WrsInOnePlace
<1>5. /\ \A i, j \in 1 .. Len(rq') : rq'[i] = rq'[j] => i = j
      /\ \A w : ListedNext(w) <=> w = wr[t] \/ InList(w)
  BY <1>1, <1>2, <1>4, AppendedPlaces DEF InList, ListedNext, WrsInOnePlace
<1>6. WrsInOnePlace'
  <2>1. ASSUME NEW u \in Threads, wr[u] # None
        PROVE  ListedNext(wr[u]) <=> call'[u] = "post_recv" /\ pc'[u] = "q_unlock"
    <3>1. CASE u = t
      BY <3>1, <1>1, <1>3, <1>5
    <3>2. CASE u # t
      <4>1. wr[u] # wr[t] /\ (InList(wr[u]) <=> call[u] = "post_recv" /\ pc[u] = "q_unlock")
        BY <1>1, <2>1, <3>2 DEF WrsInOnePlace
      <4> QED
        BY <3>2, <4>1, <1>3, <1>5 DEF Others
    <3> QED
      BY <3>1, <3>2
  <2>2. \A u \in Threads : InList(wr[u])' <=> ListedNext(wr[u])
    BY <1>1 DEF InList, ListedNext
  <2>3. \A u, v \in Threads : u # v /\ wr'[u] # None => wr'[u] # wr'[v]
    BY <1>1 DEF WrsInOnePlace
  <2> QED
    BY <2>1, <2>2, <2>3, <1>1, <1>5 DEF WrsInOnePlace
<1>7. \A m : WrsOf(m)' = WrsOf(m)
  <2>1. \A w \in Wrs : w # wr[t] /\ w # wr'[t] => (Kept(w)' <=> Kept(w))
    BY <1>1, <1>5 DEF InList, ListedNext, Kept
  <2>2. pc'[t] \notin Uncounted /\ pc[t] \notin Uncounted
    BY <1>1, <1>3 DEF Uncounted
  <2> QED
    BY <2>1, <2>2, <1>1, <1>3, <1>6, SameWrs
<1>8. CallsApart'
  BY <1>3, ApartKept DEF RefInv
<1>9. Placed(t)' /\ Posting(t)' /\ Creating(t)' /\ Putting(t)'
  BY <1>1, <1>2, <1>3 DEF Placed, Posting, Creating, Putting, Puts, Frees, Posts
<1> QED
  BY <1>1, <1>3, <1>6, <1>7, <1>8, <1>9, MrsStay

\* The first WR of the list is in no hand: the thread that put it there has let go of
\* it, since it would be inside the lock.
LEMMA PopStep ==
  ASSUME ConcInv, RefInv, NEW t \in Threads, Pop(t)
  PROVE  RefInv'
<1> USE ConcurrencyAssumption
<1>1. /\ pc[t] = "q_store" /\ call[t] = "receive" /\ Placed(t) /\ ConcShape /\ WrsInOnePlace
      /\ Goto(t, "q_unlock")
      /\ UNCHANGED <<call, mr, slot, table, ref, mstate, handle, uses, resp>> /\ ~uaf'
  BY DEF RefInv, Pop, At, mrs, NoUseAfterFree, ConcInv, ConcTypeOK
<1>2. /\ rq \in Seq(Wrs) /\ rq # <<>> /\ rq' = Tail(rq) /\ wr' = [wr EXCEPT ![t] = Head(rq)]
  BY <1>1 DEF Pop, ConcInv, StepsAgree, ConcShape
<1>3. wr[t] = None
  BY <1>1 DEF Placed, Puts, Frees
<1>4. PICK w0 \in Wrs : w0 = Head(rq)
  BY <1>2
<1>5. /\ Others(t) /\ pc'[t] = "q_unlock" /\ wr'[t] = w0
      /\ call'[t] = call[t] /\ mr'[t] = mr[t] /\ slot'[t] = slot[t]
  BY <1>1, <1>2, <1>4 DEF Goto, ConcShape, Others
<1>6. /\ \A i, j \in 1 .. Len(rq') : rq'[i] = rq'[j] => i = j
      /\ \A w : ListedNext(w) <=> w # w0 /\ InList(w)
      /\ InList(w0)
  <2>1. \A i, j \in 1 .. Len(rq) : rq[i] = rq[j] => i = j
    BY <1>1 DEF WrsInOnePlace
  <2>2. /\ \A i, j \in 1 .. Len(Tail(rq)) : Tail(rq)[i] = Tail(rq)[j] => i = j
        /\ \A w : (\E i \in 1 .. Len(Tail(rq)) : Tail(rq)[i] = w)
                    <=> w # Head(rq) /\ \E i \in 1 .. Len(rq) : rq[i] = w
        /\ \E i \in 1 .. Len(rq) : rq[i] = Head(rq)
    BY <2>1, <1>2, PoppedPlaces
  <2>3. rq' = Tail(rq) /\ w0 = Head(rq)
    BY <1>2, <1>4
  <2> QED
    BY ONLY <2>2, <2>3 DEF InList, ListedNext
<1>7. \A u \in Threads : wr[u] # w0
  <2>1. ASSUME NEW u \in Threads, wr[u] = w0 PROVE FALSE
    <3>1. pc[u] = "q_unlock"
      BY <2>1, <1>1, <1>6 DEF WrsInOnePlace
    <3>2. u # t /\ InQueue(u) /\ InQueue(t)
      BY <3>1, <1>1 DEF InQueue
    <3> QED
      BY <3>2 DEF ConcInv, LocksExclude
  <2> QED
    BY <2>1
<1>8. WrsInOnePlace'
  <2>1. \A u, v \in Threads : u # v /\ wr'[u] # None => wr'[u] # wr'[v]
    BY <1>1, <1>5, <1>7 DEF WrsInOnePlace, Others
  <2>2. ASSUME NEW u \in Threads, wr'[u] # None
        PROVE  InList(wr[u])' <=> call'[u] = "post_recv" /\ pc'[u] = "q_unlock"
    <3>1. PICK v : v = wr'[u]
      OBVIOUS
    <3>2. InList(wr[u])' <=> ListedNext(v)
      BY <3>1 DEF InList, ListedNext
    <3>3. CASE u = t
      <4>1. ~ListedNext(v) /\ call'[u] = "receive"
        BY <3>1, <3>3, <1>1, <1>5, <1>6
      <4> QED
        BY <3>2, <4>1
    <3>4. CASE u # t
      <4>1. wr[u] = v /\ v # None /\ v # w0 /\ call'[u] = call[u] /\ pc'[u] = pc[u]
        BY <2>2, <3>1, <3>4, <1>5, <1>7 DEF Others
      <4>2. InList(v) <=> call[u] = "post_recv" /\ pc[u] = "q_unlock"
        BY <4>1, <1>1 DEF WrsInOnePlace
      <4> QED
        BY <3>2, <4>1, <4>2, <1>6
    <3> QED
      BY <3>3, <3>4
  <2> QED
    BY <2>1, <2>2, <1>6 DEF WrsInOnePlace
<1>9. \A m : WrsOf(m)' = WrsOf(m)
  <2>1. \A w \in Wrs : w # wr[t] /\ w # wr'[t] => (Kept(w)' <=> Kept(w))
    BY <1>1, <1>5, <1>6 DEF InList, ListedNext, Kept
  <2>2. Kept(wr'[t]) /\ pc'[t] \notin Uncounted
    BY <1>5, <1>6 DEF Uncounted, Kept
  <2> QED
    BY <2>1, <2>2, <1>1, <1>3, <1>5, <1>8, SameWrs
<1>10. CallsApart'
  BY <1>5, ApartKept DEF RefInv
<1>11. Placed(t)' /\ Posting(t)' /\ Creating(t)' /\ Putting(t)'
  BY <1>1, <1>5 DEF Placed, Posting, Creating, Putting, Puts, Frees
<1> QED
  BY <1>1, <1>5, <1>8, <1>9, <1>10, <1>11, MrsStay

-----------------------------------------------------------------------------
(* References are taken and put. *)

\* No thread puts or destroys the MR of a WR that is being posted, except to be told
\* that it is in use.
LEMMA PostedNotFreed ==
  ASSUME RefInv, NEW t \in Threads, call[t] = "post_recv",
         NEW u \in Threads, pc[u] \in Frees
  PROVE  call[u] = "receive" /\ Target(u) # uses[wr[t]]
<1>1. Placed(u) /\ Putting(u) /\ Posting(t)
  BY DEF RefInv
<1>2. call[u] \in Reapers
  BY <1>1 DEF Placed, Frees, Posts, Creates, Reapers
<1>3. call[u] = "receive"
  BY <1>2 DEF RefInv, CallsApart, Reapers
<1>4. mstate[Target(u)] = "destroyed" /\ mstate[uses[wr[t]]] = "valid"
  BY <1>1, <1>3 DEF Putting, Posting, Puts
<1> QED
  BY <1>3, <1>4

\* One more, or one fewer.
LEMMA OneMore ==
  ASSUME NEW S, IsFiniteSet(S), NEW w, w \notin S
  PROVE  IsFiniteSet(S \cup {w}) /\ Cardinality(S \cup {w}) = Cardinality(S) + 1
BY FS_AddElement

LEMMA OneFewer ==
  ASSUME NEW S, IsFiniteSet(S), NEW w, w \in S
  PROVE  IsFiniteSet(S \ {w}) /\ Cardinality(S \ {w}) = Cardinality(S) - 1
BY FS_RemoveElement

\* A step away from the list, that keeps the WR in hand, leaves every WR in its place.
LEMMA HandStays ==
  ASSUME WrsInOnePlace, NEW t \in Threads, Others(t), wr'[t] = wr[t], rq' = rq,
         ~(call'[t] = "post_recv" /\ pc'[t] = "q_unlock"),
         ~(call[t] = "post_recv" /\ pc[t] = "q_unlock")
  PROVE  WrsInOnePlace'
<1>1. /\ \A i, j \in 1 .. Len(rq') : rq'[i] = rq'[j] => i = j
      /\ \A u \in Threads : wr'[u] = wr[u]
  BY DEF WrsInOnePlace, Others
<1>2. \A u \in Threads : call'[u] = "post_recv" /\ pc'[u] = "q_unlock"
                           <=> call[u] = "post_recv" /\ pc[u] = "q_unlock"
  BY DEF Others
<1>3. \A u \in Threads : InList(wr[u])' <=> InList(wr[u])
  BY <1>1 DEF InList
<1> QED
  BY <1>1, <1>2, <1>3 DEF WrsInOnePlace

\* A step that changes a count, and the WRs counted by the WR the thread has in hand.
LEMMA CountStep ==
  ASSUME ConcShape, RefInv, NEW t \in Threads, Others(t), wr'[t] = wr[t], wr[t] \in Wrs,
         pc[t] # "f_unlock", CallsApart',
         call'[t] = call[t], call[t] # "create", WrsInOnePlace',
         NEW k, NEW m \in Mrs, m = uses[wr[t]], ref' = [ref EXCEPT ![m] = k],
         IsFiniteSet(WrsOf(m)'), Cardinality(WrsOf(m)') = k,
         \A u \in Threads \ {t} : pc[u] \in Frees => Target(u) # m,
         UNCHANGED <<table, mstate, handle, uses, rq, resp>>, ~uaf', mstate[m] # "freed",
         Placed(t)', Posting(t)', Creating(t)', Putting(t)'
  PROVE  RefInv'
<1>1. \A x \in Mrs : x # m => ref'[x] = ref[x]
  BY DEF ConcShape
<1>2. ref'[m] = k
  BY DEF ConcShape
<1>3. ASSUME NEW u \in Threads, u # t
      PROVE  Placed(u)' /\ Posting(u)' /\ Creating(u)' /\ Putting(u)'
  <2>1. Placed(u) /\ Posting(u) /\ Creating(u) /\ Putting(u)
    BY DEF RefInv
  <2>2. /\ call'[u] = call[u] /\ pc'[u] = pc[u] /\ wr'[u] = wr[u]
        /\ mr'[u] = mr[u] /\ slot'[u] = slot[u]
    BY <1>3 DEF Others
  <2>3. Placed(u)' /\ Posting(u)'
    BY <2>1, <2>2 DEF Placed, Posting
  <2>4. Creating(u)'
    <3>1. \A v \in Threads : call'[v] = "create" => call[v] = "create" /\ mr'[v] = mr[v]
      BY DEF Others
    <3> QED
      BY <3>1, <2>1, <2>2 DEF Creating
  <2>5. Putting(u)'
    <3>1. Target(u)' = Target(u) /\ \A x : Live(x)' <=> Live(x)
      BY <2>2 DEF Target, Live
    <3>2. pc[u] \in Frees => ref'[Target(u)] = ref[Target(u)]
      BY <1>1, <1>3, <2>1 DEF Putting, Puts
    <3> QED
      BY <3>1, <3>2, <2>1, <2>2 DEF Putting, Frees
  <2> QED
    BY <2>3, <2>4, <2>5
<1>4. ASSUME NEW x \in Mrs, x # m PROVE WrsOf(x)' = WrsOf(x)
  <2>1. ASSUME NEW w \in Wrs, w # wr[t] PROVE w \in WrsOf(x)' <=> w \in WrsOf(x)
    <3>1. Kept(w)' <=> Kept(w)
      BY DEF InList, Kept
    <3> QED
      BY <3>1, <2>1, OtherWrCounts DEF RefInv
  <2>2. wr[t] \notin WrsOf(x) /\ wr[t] \notin WrsOf(x)'
    BY <1>4 DEF WrsOf
  <2>3. WrsOf(x) \subseteq Wrs /\ WrsOf(x)' \subseteq Wrs
    BY DEF WrsOf
  <2> QED
    BY <2>1, <2>2, <2>3
<1>5. RefsCounted'
  BY <1>1, <1>2, <1>4 DEF RefInv, RefsCounted
<1>6. NoUseAfterFree'
  BY <1>4 DEF RefInv, NoUseAfterFree
<1>7. InTheTable' /\ UsedMrs'
  BY DEF RefInv, InTheTable, UsedMrs
<1>8. LiveFound'
  <2>1. \A u \in Threads : At(u, "f_unlock") => mr'[u] = mr[u] /\ At(u, "f_unlock")'
    BY DEF At, Others
  <2> QED
    BY <2>1 DEF RefInv, LiveFound, Live
<1> QED
  BY <1>3, <1>5, <1>6, <1>7, <1>8 DEF RefInv

\* The WRs of m' are those of m with or without the WR in hand.
LEMMA HandCounts ==
  ASSUME WrsInOnePlace, WrsInOnePlace', NEW t \in Threads, Others(t), wr'[t] = wr[t],
         wr[t] \in Wrs, UNCHANGED <<uses, rq, resp>>, NEW m, m = uses[wr[t]]
  PROVE  /\ pc[t] \in Uncounted /\ pc'[t] \notin Uncounted
              => wr[t] \notin WrsOf(m) /\ WrsOf(m)' = WrsOf(m) \cup {wr[t]}
         /\ pc[t] \notin Uncounted /\ pc'[t] \in Uncounted
              => wr[t] \in WrsOf(m) /\ WrsOf(m)' = WrsOf(m) \ {wr[t]}
<1> USE ConcurrencyAssumption
<1>1. PICK w0 \in Wrs : w0 = wr[t]
  OBVIOUS
<1>2. w0 \in WrsOf(m) <=> pc[t] \notin Uncounted
  BY <1>1, CountsWhere
<1>3. w0 \in WrsOf(m)' <=> pc'[t] \notin Uncounted
  <2>1. wr'[t] = w0 /\ uses'[w0] = m
    BY <1>1
  <2> QED
    BY <2>1, CountsWhereNext
<1>4. ASSUME NEW w \in Wrs, w # w0 PROVE w \in WrsOf(m)' <=> w \in WrsOf(m)
  <2>1. Kept(w)' <=> Kept(w)
    BY DEF InList, Kept
  <2> QED
    BY <2>1, <1>1, <1>4, OtherWrCounts
<1>5. WrsOf(m) \subseteq Wrs /\ WrsOf(m)' \subseteq Wrs
  BY DEF WrsOf
<1> QED
  BY <1>1, <1>2, <1>3, <1>4, <1>5

LEMMA TakeReferenceStep ==
  ASSUME ConcInv, RefInv, NEW t \in Threads, TakeReference(t)
  PROVE  RefInv'
<1> USE ConcurrencyAssumption
<1>1. /\ pc[t] = "ref" /\ Placed(t) /\ Posting(t) /\ ConcShape /\ WrsInOnePlace
      /\ Goto(t, "q_lock") /\ UNCHANGED <<call, wr, mr, slot>>
      /\ UNCHANGED <<table, mstate, handle, uses, rq, resp>>
  BY DEF RefInv, TakeReference, At, ConcInv, ConcTypeOK
<1>2. call[t] = "post_recv" /\ wr[t] \in Wrs
  BY <1>1 DEF Placed, Puts, Frees, Creates
<1>3. PICK m \in Mrs : m = uses[wr[t]]
  BY <1>2 DEF ConcInv, StepsAgree
<1>4. mstate[m] = "valid" /\ mr[t] = m
  BY <1>1, <1>2, <1>3 DEF Posting
<1>5. ref' = [ref EXCEPT ![m] = ref[m] + 1] /\ ~uaf'
  BY <1>4 DEF TakeReference, Follow, RefInv, NoUseAfterFree
<1>6. /\ Others(t) /\ pc'[t] = "q_lock"
      /\ call'[t] = call[t] /\ wr'[t] = wr[t] /\ mr'[t] = mr[t] /\ slot'[t] = slot[t]
  BY <1>1, GotoOthers
<1>7. WrsInOnePlace'
  BY <1>1, <1>6, HandStays
<1>8. wr[t] \notin WrsOf(m) /\ WrsOf(m)' = WrsOf(m) \cup {wr[t]}
  <2>1. pc[t] \in Uncounted /\ pc'[t] \notin Uncounted
    BY <1>1, <1>6 DEF Uncounted
  <2> QED
    BY <2>1, <1>1, <1>2, <1>3, <1>6, <1>7, HandCounts
<1>9. IsFiniteSet(WrsOf(m)') /\ Cardinality(WrsOf(m)') = ref[m] + 1
  <2>1. IsFiniteSet(WrsOf(m)) /\ ref[m] = Cardinality(WrsOf(m))
    BY <1>3 DEF RefInv, RefsCounted
  <2>2. /\ IsFiniteSet(WrsOf(m) \cup {wr[t]})
        /\ Cardinality(WrsOf(m) \cup {wr[t]}) = Cardinality(WrsOf(m)) + 1
    BY <2>1, <1>8, OneMore
  <2> QED
    BY <2>1, <2>2, <1>8
<1>10. \A u \in Threads \ {t} : pc[u] \in Frees => Target(u) # m
  BY <1>2, <1>3, PostedNotFreed
<1>11. CallsApart'
  BY <1>6, ApartKept DEF RefInv
<1>12. Placed(t)' /\ Posting(t)' /\ Creating(t)' /\ Putting(t)'
  BY <1>1, <1>2, <1>6 DEF Placed, Posts, Posting, Creating, Putting, Puts, Frees
<1> QED
  BY <1>1, <1>2, <1>3, <1>4, <1>5, <1>6, <1>7, <1>9, <1>10, <1>11, <1>12, CountStep

LEMMA PutReferenceStep ==
  ASSUME ConcInv, RefInv, NEW t \in Threads, PutReference(t)
  PROVE  RefInv'
<1> USE ConcurrencyAssumption
<1>1. /\ pc[t] = "dec" /\ Placed(t) /\ Putting(t) /\ ConcShape /\ WrsInOnePlace
      /\ Goto(t, "check") /\ UNCHANGED <<call, wr, mr, slot>>
      /\ UNCHANGED <<table, mstate, handle, uses, rq, resp>>
  BY DEF RefInv, PutReference, At, ConcInv, ConcTypeOK
<1>2. call[t] = "receive" /\ wr[t] \in Wrs
  BY <1>1 DEF Placed, Posts, Frees, Creates
<1>3. PICK m \in Mrs : m = Target(t)
  BY <1>1 DEF Putting, Puts
<1>4. m = uses[wr[t]] /\ Live(m) /\ mr[t] = m
  BY <1>1, <1>2, <1>3 DEF Putting, Puts
<1>5. ref' = [ref EXCEPT ![m] = ref[m] - 1] /\ ~uaf' /\ mstate[m] # "freed"
  BY <1>4 DEF PutReference, Follow, RefInv, NoUseAfterFree, Live
<1>6. /\ Others(t) /\ pc'[t] = "check"
      /\ call'[t] = call[t] /\ wr'[t] = wr[t] /\ mr'[t] = mr[t] /\ slot'[t] = slot[t]
  BY <1>1, GotoOthers
<1>7. WrsInOnePlace'
  BY <1>1, <1>6, HandStays
<1>8. wr[t] \in WrsOf(m) /\ WrsOf(m)' = WrsOf(m) \ {wr[t]}
  <2>1. pc[t] \notin Uncounted /\ pc'[t] \in Uncounted
    BY <1>1, <1>6 DEF Uncounted
  <2> QED
    BY <2>1, <1>1, <1>2, <1>4, <1>6, <1>7, HandCounts
<1>9. IsFiniteSet(WrsOf(m)') /\ Cardinality(WrsOf(m)') = ref[m] - 1
  <2>1. IsFiniteSet(WrsOf(m)) /\ ref[m] = Cardinality(WrsOf(m))
    BY <1>3 DEF RefInv, RefsCounted
  <2>2. /\ IsFiniteSet(WrsOf(m) \ {wr[t]})
        /\ Cardinality(WrsOf(m) \ {wr[t]}) = Cardinality(WrsOf(m)) - 1
    BY <2>1, <1>8, OneFewer
  <2> QED
    BY <2>1, <2>2, <1>8
<1>10. \A u \in Threads \ {t} : pc[u] \in Frees => Target(u) # m
  BY <1>2, OneReaper DEF Reapers, Puts
<1>11. CallsApart'
  BY <1>6, ApartKept DEF RefInv
<1>12. Placed(t)' /\ Posting(t)' /\ Creating(t)'
  BY <1>2, <1>6 DEF Placed, Puts, Posting, Creating
<1>13. Putting(t)'
  <2>1. Target(t)' = m /\ Live(m)'
    BY <1>1, <1>3, <1>4, <1>6 DEF Target, Live
  <2> QED
    BY <2>1, <1>1, <1>2, <1>3, <1>4, <1>6 DEF Putting, Puts, Frees
<1> QED
  BY <1>1, <1>2, <1>3, <1>4, <1>5, <1>6, <1>7, <1>9, <1>10, <1>11, <1>12, <1>13, CountStep

LEMMA CheckStateStep ==
  ASSUME ConcInv, RefInv, RespKept, NEW t \in Threads, CheckState(t)
  PROVE  RefInv'
<1> USE ConcurrencyAssumption
<1>1. /\ pc[t] = "check" /\ Placed(t) /\ Putting(t) /\ ConcShape /\ WrsInOnePlace
      /\ UNCHANGED <<table, ref, mstate, handle, uses, rq>>
  BY DEF RefInv, CheckState, At, mrs, ConcInv, ConcTypeOK
<1>2. call[t] = "receive" /\ wr[t] \in Wrs
  BY <1>1 DEF Placed, Posts, Frees, Creates
<1>3. Live(mr[t]) /\ mr[t] = Target(t)
  BY <1>1 DEF Putting, Puts
<1>4. ~uaf'
  BY <1>3 DEF CheckState, Follow, RefInv, NoUseAfterFree, Live
<1>5. CASE mstate[mr[t]] = "destroyed"
  <2>1. Goto(t, "look") /\ UNCHANGED <<call, wr, mr, slot, resp>>
    BY <1>5 DEF CheckState
  <2>2. /\ Others(t) /\ pc'[t] = "look"
        /\ call'[t] = call[t] /\ wr'[t] = wr[t] /\ mr'[t] = mr[t] /\ slot'[t] = slot[t]
    BY <1>1, <2>1, GotoOthers
  <2>3. KeepsWr(t) /\ RespMoves(t) /\ CallsApart'
    BY <1>1, <2>1, <2>2, ApartKept DEF KeepsWr, RespMoves, Uncounted, RefInv
  <2>4. Placed(t)' /\ Posting(t)' /\ Creating(t)'
    BY <1>2, <2>2 DEF Placed, Puts, Frees, Posting, Creating
  <2>5. Putting(t)'
    <3>1. Target(t)' = Target(t)
      BY <1>1, <2>2 DEF Target
    <3> QED
      BY <3>1, <1>1, <1>2, <1>3, <1>5, <2>2 DEF Putting, Puts, Frees, Live
  <2> QED
    BY <1>1, <1>2, <1>4, <2>2, <2>3, <2>4, <2>5, QuietStep
<1>6. CASE mstate[mr[t]] # "destroyed"
  <2>1. Return(t) /\ resp' = None /\ resp \in {None, wr[t]}
    BY <1>1, <1>2, <1>6 DEF CheckState, End, RespKept, RespAt, RespFor, Puts
  <2>2. /\ Others(t) /\ pc'[t] = "start"
        /\ call'[t] = None /\ wr'[t] = None /\ mr'[t] = None /\ slot'[t] = None
    BY <1>1, <2>1, ReturnOthers
  <2>3. KeepsWr(t) /\ RespMoves(t)
    <3>1. ~InList(wr[t])
      BY <1>1, <1>2 DEF WrsInOnePlace
    <3>2. ~ListedNext(wr[t])
      BY <3>1, <1>1 DEF InList, ListedNext
    <3> QED
      BY <3>2, <1>1, <1>2, <2>1, <2>2 DEF KeepsWr, KeptNext, RespMoves, Uncounted
  <2>4. CallsApart'
    BY <2>2, ApartKept DEF RefInv
  <2>5. call'[t] # "create" /\ Placed(t)' /\ Posting(t)' /\ Creating(t)' /\ Putting(t)'
    BY <2>2 DEF Placed, Posting, Creating, Putting, Puts, Frees, Calls
  <2> QED
    BY <1>1, <1>4, <2>2, <2>3, <2>4, <2>5, QuietStep
<1> QED
  BY <1>5, <1>6

\* A WR that is posted for the first time is nowhere, and does not count before its MR
\* is got.
LEMMA PostRecvStep ==
  ASSUME ConcInv, RefInv, KeptApart \subseteq Apart,
         NEW t \in Threads, NEW w \in Wrs, NEW m \in Mrs, PostRecv(t, w, m)
  PROVE  RefInv'
<1> USE ConcurrencyAssumption
<1>1. ConcShape /\ Begin(t, "post_recv", "get") /\ "post_recv" \in Calls /\ WrsInOnePlace
  BY DEF ConcInv, ConcTypeOK, PostRecv, Calls, RefInv
<1>2. /\ UNCHANGED <<mr, table, ref, mstate, handle, rq, resp, uaf>>
      /\ wr' = [wr EXCEPT ![t] = w] /\ slot' = [slot EXCEPT ![t] = handle[m]]
      /\ uses[w] = None /\ uses' = [uses EXCEPT ![w] = m] /\ mstate[m] = "valid"
  BY DEF PostRecv, mrs
<1>3. /\ pc[t] = "start" /\ wr[t] = None /\ pc'[t] = "get" /\ call'[t] = "post_recv"
      /\ wr'[t] = w /\ slot'[t] = handle[m] /\ Others(t)
  BY <1>1, <1>2, BeginOthers DEF Others, ConcShape
<1>4. uses'[w] = m /\ \A v \in Wrs : v # w => uses'[v] = uses[v]
  BY <1>1, <1>2 DEF ConcShape
<1>5. ~InList(w) /\ \A u \in Threads : wr[u] # w
  <2>1. /\ \A u \in Threads : wr[u] # None => uses[wr[u]] \in Mrs
        /\ \A i \in 1 .. Len(rq) : uses[rq[i]] \in Mrs
    BY DEF ConcInv, StepsAgree
  <2> QED
    BY <2>1, <1>2 DEF InList
<1>6. WrsInOnePlace'
  <2>1. \A u, v \in Threads : u # v /\ wr'[u] # None => wr'[u] # wr'[v]
    BY <1>1, <1>3, <1>5 DEF WrsInOnePlace, Others
  <2>2. ASSUME NEW u \in Threads, wr'[u] # None
        PROVE  InList(wr[u])' <=> call'[u] = "post_recv" /\ pc'[u] = "q_unlock"
    <3>1. CASE u = t
      <4>1. ~InList(w)' /\ wr'[u] = w
        BY <3>1, <1>2, <1>3, <1>5 DEF InList
      <4>2. ~InList(wr[u])'
        BY <4>1 DEF InList
      <4> QED
        BY <3>1, <4>2, <1>3
    <3>2. CASE u # t
      <4>1. wr'[u] = wr[u] /\ call'[u] = call[u] /\ pc'[u] = pc[u]
        BY <3>2, <1>3 DEF Others
      <4>2. InList(wr[u])' <=> InList(wr[u])
        BY <4>1, <1>2 DEF InList
      <4> QED
        BY <2>2, <4>1, <4>2, <1>1 DEF WrsInOnePlace
    <3> QED
      BY <3>1, <3>2
  <2> QED
    BY <2>1, <2>2, <1>1, <1>2 DEF WrsInOnePlace
<1>7. ASSUME NEW x \in Mrs PROVE WrsOf(x)' = WrsOf(x)
  <2>1. ASSUME NEW v \in Wrs, v # w PROVE v \in WrsOf(x)' <=> v \in WrsOf(x)
    <3>1. (Kept(v)' <=> Kept(v)) /\ uses'[v] = uses[v] /\ v # wr[t] /\ v # wr'[t]
      BY <2>1, <1>2, <1>3, <1>4 DEF InList, Kept
    <3> QED
      BY <3>1, <1>1, <1>3, <1>6, OtherWrCounts
  <2>2. w \notin WrsOf(x)
    BY <1>2 DEF WrsOf
  <2>3. w \notin WrsOf(x)'
    <3>1. pc'[t] \in Uncounted
      BY <1>3 DEF Uncounted
    <3> QED
      BY <3>1, <1>3, <1>6, CountsWhereNext
  <2>4. WrsOf(x) \subseteq Wrs /\ WrsOf(x)' \subseteq Wrs
    BY DEF WrsOf
  <2>5. \A v \in Wrs : v \in WrsOf(x)' <=> v \in WrsOf(x)
    BY <2>1, <2>2, <2>3
  <2> QED
    BY ONLY <2>4, <2>5
<1>8. CallsApart'
  BY <1>1, BeginApart DEF RefInv
<1>9. ASSUME NEW u \in Threads, u # t
      PROVE  Placed(u)' /\ Posting(u)' /\ Creating(u)' /\ Putting(u)'
  <2>1. Placed(u) /\ Posting(u) /\ Creating(u) /\ Putting(u)
    BY DEF RefInv
  <2>2. /\ call'[u] = call[u] /\ pc'[u] = pc[u] /\ wr'[u] = wr[u]
        /\ mr'[u] = mr[u] /\ slot'[u] = slot[u]
    BY <1>3, <1>9 DEF Others
  <2>3. wr[u] \in Wrs => uses'[wr[u]] = uses[wr[u]]
    BY <1>4, <1>5
  <2>4. Placed(u)'
    BY <2>1, <2>2 DEF Placed
  <2>5. Posting(u)'
    <3>1. call[u] = "post_recv" => wr[u] \in Wrs
      BY <2>1 DEF Placed, Calls
    <3> QED
      BY <3>1, <2>1, <2>2, <2>3, <1>2 DEF Posting
  <2>6. Creating(u)'
    <3>1. \A v \in Threads : call'[v] = "create" => call[v] = "create" /\ mr'[v] = mr[v]
      BY <1>3 DEF Others
    <3> QED
      BY <3>1, <2>1, <2>2, <1>2 DEF Creating
  <2>7. Putting(u)'
    <3>1. Target(u)' = Target(u) /\ \A x : Live(x)' <=> Live(x)
      BY <2>2, <1>2 DEF Target, Live
    <3>2. pc[u] \in Puts /\ call[u] = "receive" => wr[u] \in Wrs
      BY <2>1 DEF Placed, Puts, Frees
    <3> QED
      BY <3>1, <3>2, <2>1, <2>2, <2>3, <1>2 DEF Putting
  <2> QED
    BY <2>4, <2>5, <2>6, <2>7
<1>10. Placed(t)' /\ Posting(t)' /\ Creating(t)' /\ Putting(t)'
  BY <1>2, <1>3, <1>4 DEF Placed, Posts, Posting, Creating, Putting, Puts, Frees
<1>11. InTheTable' /\ UsedMrs'
  <2>1. InTheTable'
    BY <1>2 DEF RefInv, InTheTable
  <2>2. UsedMrs'
    BY <1>2, <1>4 DEF RefInv, UsedMrs
  <2> QED
    BY <2>1, <2>2
<1>12. LiveFound'
  <2>1. \A u \in Threads : At(u, "f_unlock") => mr'[u] = mr[u] /\ At(u, "f_unlock")'
    BY <1>2, <1>3 DEF At, Others
  <2> QED
    BY <2>1, <1>2 DEF RefInv, LiveFound, Live
<1>13. RefsCounted' /\ NoUseAfterFree'
  BY <1>2, <1>7 DEF RefInv, RefsCounted, NoUseAfterFree
<1> QED
  BY <1>6, <1>8, <1>9, <1>10, <1>11, <1>12, <1>13 DEF RefInv

-----------------------------------------------------------------------------
(* MRs are created and destroyed. *)

\* Every WR stays where it was when a step is about another MR than it names.
LEMMA NoWrStep ==
  ASSUME RefInv, NEW t \in Threads, Others(t), KeepsWr(t), RespMoves(t),
         UNCHANGED <<ref, uses, rq>>
  PROVE  WrsInOnePlace' /\ RefsCounted' /\ \A m : WrsOf(m)' = WrsOf(m)
<1>1. WrsInOnePlace' /\ \A m : WrsOf(m)' = WrsOf(m)
  BY PlacesKept, CountsKept DEF RefInv
<1> QED
  BY <1>1, SameCounts DEF RefInv

LEMMA CreateMrStep ==
  ASSUME ConcInv, RefInv, KeptApart \subseteq Apart,
         NEW t \in Threads, NEW m \in Mrs, CreateMr(t, m)
  PROVE  RefInv'
<1> USE ConcurrencyAssumption
<1>1. ConcShape /\ Begin(t, "create", "t_lock") /\ "create" \in Calls
  BY DEF ConcInv, ConcTypeOK, CreateMr, Calls
<1>2. /\ UNCHANGED <<wr, slot, table, ref, handle, uses, rq, resp, uaf>>
      /\ mr' = [mr EXCEPT ![t] = m]
      /\ mstate[m] = "none" /\ mstate' = [mstate EXCEPT ![m] = "new"]
  BY DEF CreateMr
<1>3. /\ pc[t] = "start" /\ wr[t] = None /\ pc'[t] = "t_lock" /\ call'[t] = "create"
      /\ mr'[t] = m /\ Others(t)
  BY <1>1, <1>2, BeginOthers DEF Others, ConcShape
<1>4. mstate'[m] = "new" /\ \A x \in Mrs : x # m => mstate'[x] = mstate[x]
  BY <1>1, <1>2 DEF ConcShape
<1>5. KeepsWr(t) /\ RespMoves(t) /\ ~uaf'
  BY <1>2, <1>3 DEF KeepsWr, RespMoves, RefInv, NoUseAfterFree
<1>6. WrsInOnePlace' /\ RefsCounted' /\ \A x : WrsOf(x)' = WrsOf(x)
  BY <1>2, <1>3, <1>5, NoWrStep
<1>7. CallsApart'
  BY <1>1, BeginApart DEF RefInv
<1>8. \A i \in Slots : table[i] # m
  BY <1>2 DEF RefInv, InTheTable
<1>9. \A u \in Threads : call[u] = "create" => mr[u] # m /\ mr[u] \in Mrs
  <2>1. ASSUME NEW u \in Threads, call[u] = "create" PROVE mr[u] # m /\ mr[u] \in Mrs
    <3>1. Creating(u) /\ Placed(u)
      BY DEF RefInv
    <3> QED
      BY <2>1, <3>1, <1>2 DEF Creating, Placed, Calls
  <2> QED
    BY <2>1
<1>10. ASSUME NEW u \in Threads, u # t
       PROVE  Placed(u)' /\ Posting(u)' /\ Creating(u)' /\ Putting(u)'
  <2>1. Placed(u) /\ Posting(u) /\ Creating(u) /\ Putting(u)
    BY DEF RefInv
  <2>2. /\ call'[u] = call[u] /\ pc'[u] = pc[u] /\ wr'[u] = wr[u]
        /\ mr'[u] = mr[u] /\ slot'[u] = slot[u]
    BY <1>3, <1>10 DEF Others
  <2>3. Placed(u)'
    BY <2>1, <2>2 DEF Placed
  <2>4. Posting(u)'
    <3>1. call[u] = "post_recv" => wr[u] \in Wrs
      BY <2>1 DEF Placed, Calls
    <3>2. call[u] = "post_recv" => uses[wr[u]] \in Mrs /\ mstate'[uses[wr[u]]] = "valid"
      BY <3>1, <2>1, <1>2, <1>4 DEF ConcInv, StepsAgree, Posting
    <3> QED
      BY <3>2, <2>1, <2>2, <1>2 DEF Posting
  <2>5. Creating(u)'
    <3>1. \A v \in Threads : v # u /\ call'[v] = "create" /\ call[u] = "create"
                               => mr'[v] # mr[u]
      <4>1. ASSUME NEW v \in Threads, v # u, call'[v] = "create", call[u] = "create"
            PROVE  mr'[v] # mr[u]
        <5>1. CASE v = t
          BY <5>1, <4>1, <1>3, <1>9
        <5>2. CASE v # t
          BY <5>2, <4>1, <2>1, <1>3 DEF Others, Creating
        <5> QED
          BY <5>1, <5>2
      <4> QED
        BY <4>1
    <3>2. call[u] = "create" => mstate'[mr[u]] = mstate[mr[u]]
      BY <1>4, <1>9
    <3> QED
      BY <3>1, <3>2, <2>1, <2>2, <1>2 DEF Creating
  <2>6. Putting(u)'
    <3>1. Target(u)' = Target(u)
      BY <2>2, <1>2 DEF Target
    <3>2. pc[u] \in Puts => mstate'[Target(u)] = mstate[Target(u)]
      BY <2>1, <1>2, <1>4 DEF Putting, Live
    <3> QED
      BY <3>1, <3>2, <2>1, <2>2, <1>2 DEF Putting, Live
  <2> QED
    BY <2>3, <2>4, <2>5, <2>6
<1>11. Placed(t)' /\ Posting(t)' /\ Putting(t)'
  BY <1>2, <1>3 DEF Placed, Creates, Posting, Putting, Puts, Frees
<1>12. Creating(t)'
  BY <1>2, <1>3, <1>4, <1>8, <1>9 DEF Creating, Others
<1>13. InTheTable'
  <2>1. \A i \in Slots : table[i] # None => table[i] \in Mrs
    BY <1>1 DEF ConcShape
  <2> QED
    BY <2>1, <1>2, <1>4, <1>8 DEF RefInv, InTheTable
<1>14. LiveFound'
  <2>1. \A u \in Threads : At(u, "f_unlock") => mr'[u] = mr[u] /\ At(u, "f_unlock")'
    BY <1>3 DEF At, Others
  <2>2. \A x \in Mrs : Live(x)' => Live(x)
    BY <1>4 DEF Live
  <2> QED
    BY <2>1, <2>2, <1>2 DEF RefInv, LiveFound
<1>15. UsedMrs'
  <2>1. \A v \in Wrs : uses[v] # None => uses[v] \in Mrs
    BY <1>1 DEF ConcShape
  <2> QED
    BY <2>1, <1>2, <1>4 DEF RefInv, UsedMrs
<1>16. NoUseAfterFree'
  BY <1>4, <1>5, <1>6 DEF RefInv, NoUseAfterFree
<1> QED
  BY <1>6, <1>7, <1>10, <1>11, <1>12, <1>13, <1>14, <1>15, <1>16 DEF RefInv

\* A thread that may destroy holds a WR that counts no more, or none.
LEMMA FreesHold ==
  ASSUME RefInv, NEW t \in Threads, pc[t] \in Frees
  PROVE  /\ \/ call[t] = "receive" /\ wr[t] \in Wrs
            \/ call[t] = "destroy" /\ wr[t] = None
         /\ pc[t] \in Uncounted
         /\ wr[t] # None => ~InList(wr[t])
<1>1. Placed(t)
  BY DEF RefInv
<1>2. \/ call[t] = "receive" /\ wr[t] \in Wrs
      \/ call[t] = "destroy" /\ wr[t] = None
  BY <1>1 DEF Placed, Frees, Posts, Creates
<1>3. wr[t] # None => ~InList(wr[t])
  BY <1>2 DEF RefInv, WrsInOnePlace
<1> QED
  BY <1>2, <1>3 DEF Frees, Uncounted

\* Returning, it lets go of the WR.
LEMMA FreesReturn ==
  ASSUME ConcShape, RefInv, RespKept, NEW t \in Threads, pc[t] \in Frees, End(t), rq' = rq
  PROVE  /\ Others(t) /\ KeepsWr(t) /\ RespMoves(t) /\ CallsApart'
         /\ call'[t] = None /\ pc'[t] = "start"
         /\ Placed(t)' /\ Posting(t)' /\ Creating(t)' /\ Putting(t)'
<1> USE ConcurrencyAssumption
<1>1. /\ Others(t) /\ pc'[t] = "start"
      /\ call'[t] = None /\ wr'[t] = None /\ mr'[t] = None /\ slot'[t] = None
  BY ReturnOthers DEF End
<1>2. KeepsWr(t) /\ RespMoves(t)
  <2>1. CASE wr[t] = None
    <3>1. call[t] = "destroy"
      BY <2>1, FreesHold
    <3> QED
      BY <2>1, <3>1, <1>1 DEF KeepsWr, RespMoves, End
  <2>2. CASE wr[t] # None
    <3>1. ~InList(wr[t]) /\ pc[t] \in Uncounted
      BY <2>2, FreesHold
    <3>2. ~ListedNext(wr[t])
      BY <3>1 DEF InList, ListedNext
    <3>3. resp' = None /\ resp \in {None, wr[t]}
      BY <2>2, FreesHold DEF End, RespKept, RespAt, RespFor, Puts
    <3> QED
      BY <2>2, <3>1, <3>2, <3>3, <1>1 DEF KeepsWr, KeptNext, RespMoves
  <2> QED
    BY <2>1, <2>2
<1>3. CallsApart'
  BY <1>1, ApartKept DEF RefInv
<1>4. Placed(t)' /\ Posting(t)' /\ Creating(t)' /\ Putting(t)'
  BY <1>1 DEF Placed, Posting, Creating, Putting, Puts, Frees, Calls
<1> QED
  BY <1>1, <1>2, <1>3, <1>4

LEMMA DestroyUnlessBusyStep ==
  ASSUME ConcInv, RefInv, NEW t \in Threads, DestroyUnlessBusy(t)
  PROVE  RefInv'
<1> USE ConcurrencyAssumption
<1>1. /\ pc[t] = "busy" /\ pc[t] \in Frees /\ pc[t] \in Puts /\ ConcShape /\ Putting(t)
      /\ UNCHANGED <<table, ref, mstate, handle, uses, rq, resp>>
  BY DEF RefInv, DestroyUnlessBusy, At, ConcInv, ConcTypeOK, Frees, Puts, mrs
<1>2. PICK m \in Mrs : m = mr[t] /\ m = Target(t)
  BY <1>1 DEF Putting
<1>3. Live(m)
  BY <1>1, <1>2 DEF Putting
<1>4. ~uaf'
  BY <1>2, <1>3 DEF DestroyUnlessBusy, Follow, RefInv, NoUseAfterFree, Live
<1>5. /\ \/ call[t] = "receive" /\ wr[t] \in Wrs
         \/ call[t] = "destroy" /\ wr[t] = None
      /\ pc[t] \in Uncounted
  BY <1>1, FreesHold
<1>6. PICK l \in {"mark", "f_lock"} :
        Goto(t, l) /\ l = (IF ref[m] # 0 THEN "mark" ELSE "f_lock")
  BY <1>2 DEF DestroyUnlessBusy
<1>7. UNCHANGED <<call, wr, mr, slot>>
  BY DEF DestroyUnlessBusy
<1>8. /\ Others(t) /\ pc'[t] = l
      /\ call'[t] = call[t] /\ wr'[t] = wr[t] /\ mr'[t] = mr[t] /\ slot'[t] = slot[t]
  BY <1>1, <1>6, <1>7, GotoOthers
<1>9. KeepsWr(t) /\ RespMoves(t) /\ CallsApart'
  BY <1>1, <1>5, <1>8, ApartKept DEF KeepsWr, RespMoves, Uncounted, RefInv
<1>10. Placed(t)' /\ Posting(t)' /\ Creating(t)'
  BY <1>5, <1>8 DEF Placed, Puts, Frees, Posting, Creating
<1>11. Putting(t)'
  <2>1. Target(t)' = m /\ Live(m)'
    BY <1>1, <1>2, <1>3, <1>8 DEF Target, Live
  <2>2. l = "mark" => ref'[m] # 0
    BY <1>1, <1>6
  <2>3. l = "f_lock" => ref'[m] = 0
    BY <1>1, <1>6
  <2> QED
    BY <2>1, <2>2, <2>3, <1>1, <1>2, <1>8 DEF Putting, Puts, Frees
<1> QED
  BY <1>1, <1>4, <1>5, <1>8, <1>9, <1>10, <1>11, QuietStep

LEMMA MarkDestroyedStep ==
  ASSUME ConcInv, RefInv, RespKept, NEW t \in Threads, MarkDestroyed(t)
  PROVE  RefInv'
<1> USE ConcurrencyAssumption
<1>1. /\ pc[t] = "mark" /\ pc[t] \in Frees /\ pc[t] \in Puts /\ ConcShape /\ Putting(t)
      /\ UNCHANGED <<table, ref, handle, uses, rq>>
  BY DEF RefInv, MarkDestroyed, At, ConcInv, ConcTypeOK, Frees, Puts
<1>2. PICK m \in Mrs : m = mr[t] /\ m = Target(t)
  BY <1>1 DEF Putting
<1>3. Live(m)
  BY <1>1, <1>2 DEF Putting
<1>4. ~uaf'
  BY <1>2, <1>3 DEF MarkDestroyed, Follow, RefInv, NoUseAfterFree, Live
<1>5. /\ \/ call[t] = "receive" /\ wr[t] \in Wrs
         \/ call[t] = "destroy" /\ wr[t] = None
      /\ pc[t] \in Uncounted
  BY <1>1, FreesHold
<1>6. mstate' = [mstate EXCEPT ![m] = "destroyed"] /\ End(t)
  BY <1>2 DEF MarkDestroyed
<1>7. /\ Others(t) /\ KeepsWr(t) /\ RespMoves(t) /\ CallsApart'
      /\ call'[t] = None /\ pc'[t] = "start"
      /\ Placed(t)' /\ Posting(t)' /\ Creating(t)' /\ Putting(t)'
  BY <1>1, <1>6, FreesReturn
<1>8. CASE call[t] = "receive"
  <2>1. mstate[m] = "destroyed"
    BY <1>8, <1>1, <1>2 DEF Putting
  <2>2. mstate' = mstate
    BY <2>1, <1>6, <1>1 DEF ConcShape
  <2>3. call'[t] # "create"
    BY <1>7 DEF Calls
  <2> QED
    BY <2>2, <2>3, <1>7, <1>1, <1>4, QuietStep
<1>9. CASE call[t] = "destroy"
  <2>1. mstate'[m] = "destroyed" /\ \A x \in Mrs : x # m => mstate'[x] = mstate[x]
    BY <1>1, <1>6 DEF ConcShape
  <2>2. ASSUME NEW u \in Threads, u # t
        PROVE  Placed(u)' /\ Posting(u)' /\ Creating(u)' /\ Putting(u)'
    <3>1. Placed(u) /\ Creating(u) /\ pc[u] \notin Puts
      BY <1>9, <2>2, OneReaper DEF RefInv, Reapers
    <3>2. /\ call'[u] = call[u] /\ pc'[u] = pc[u] /\ wr'[u] = wr[u]
          /\ mr'[u] = mr[u] /\ slot'[u] = slot[u]
      BY <1>7, <2>2 DEF Others
    <3>3. call[u] # "post_recv"
      BY <1>9, <2>2 DEF RefInv, CallsApart
    <3>4. Creating(u)'
      <4>1. call[u] = "create" => mr[u] \in Mrs /\ mr[u] # m
        BY <3>1, <1>3 DEF Placed, Calls, Creating, Live
      <4>2. \A v \in Threads : call'[v] = "create" => call[v] = "create" /\ mr'[v] = mr[v]
        BY <1>7 DEF Others, Calls
      <4> QED
        BY <3>1, <3>2, <4>1, <4>2, <2>1, <1>1 DEF Creating
    <3> QED
      BY <3>1, <3>2, <3>3, <3>4 DEF Placed, Posting, Putting
  <2>3. InTheTable'
    <3>1. \A i \in Slots : table[i] # None => table[i] \in Mrs
      BY <1>1 DEF ConcShape
    <3> QED
      BY <3>1, <2>1, <1>1 DEF RefInv, InTheTable
  <2>4. LiveFound'
    <3>1. \A u \in Threads : At(u, "f_unlock") => mr'[u] = mr[u] /\ At(u, "f_unlock")'
      BY <1>1, <1>7 DEF At, Others
    <3>2. \A x \in Mrs : Live(x)' => Live(x)
      BY <2>1, <1>3 DEF Live
    <3> QED
      BY <3>1, <3>2, <1>1 DEF RefInv, LiveFound
  <2>5. UsedMrs'
    <3>1. \A v \in Wrs : uses[v] # None => uses[v] \in Mrs
      BY <1>1 DEF ConcShape
    <3> QED
      BY <3>1, <2>1, <1>1 DEF RefInv, UsedMrs
  <2>6. WrsInOnePlace' /\ RefsCounted' /\ \A x : WrsOf(x)' = WrsOf(x)
    BY <1>1, <1>7, NoWrStep
  <2>7. NoUseAfterFree'
    BY <2>1, <2>6, <1>4 DEF RefInv, NoUseAfterFree
  <2> QED
    BY <1>7, <2>2, <2>3, <2>4, <2>5, <2>6, <2>7 DEF RefInv
<1> QED
  BY <1>8, <1>9, <1>5

LEMMA LockToFreeStep ==
  ASSUME ConcInv, RefInv, NEW t \in Threads, LockToFree(t)
  PROVE  RefInv'
<1> USE ConcurrencyAssumption
<1>1. /\ pc[t] = "f_lock" /\ pc[t] \in Frees /\ ConcShape /\ Putting(t)
      /\ Goto(t, "f_clear") /\ UNCHANGED <<call, wr, mr, slot>>
      /\ UNCHANGED <<table, ref, mstate, handle, uses, rq, resp>> /\ ~uaf'
  BY DEF RefInv, LockToFree, At, ConcInv, ConcTypeOK, Frees, mrs, NoUseAfterFree
<1>2. \/ call[t] = "receive" /\ wr[t] \in Wrs
      \/ call[t] = "destroy" /\ wr[t] = None
  BY <1>1, FreesHold
<1>3. /\ Others(t) /\ pc'[t] = "f_clear"
      /\ call'[t] = call[t] /\ wr'[t] = wr[t] /\ mr'[t] = mr[t] /\ slot'[t] = slot[t]
  BY <1>1, GotoOthers
<1>4. KeepsWr(t) /\ RespMoves(t) /\ CallsApart'
  BY <1>1, <1>2, <1>3, ApartKept DEF KeepsWr, RespMoves, Uncounted, RefInv
<1>5. Placed(t)' /\ Posting(t)' /\ Creating(t)'
  BY <1>2, <1>3 DEF Placed, Puts, Frees, Posting, Creating
<1>6. Putting(t)'
  <2>1. Target(t)' = Target(t) /\ (Live(Target(t)) => Live(Target(t))')
    BY <1>1, <1>3 DEF Target, Live
  <2> QED
    BY <2>1, <1>1, <1>2, <1>3 DEF Putting, Puts, Frees
<1> QED
  BY <1>1, <1>2, <1>3, <1>4, <1>5, <1>6, QuietStep

LEMMA ClearSlotStep ==
  ASSUME ConcInv, RefInv, NEW t \in Threads, ClearSlot(t)
  PROVE  RefInv'
<1> USE ConcurrencyAssumption
<1>1. /\ pc[t] = "f_clear" /\ pc[t] \in Frees /\ pc[t] \in Puts /\ ConcShape /\ Putting(t)
      /\ Goto(t, "f_unlock") /\ UNCHANGED <<call, wr, mr, slot>>
      /\ UNCHANGED <<ref, mstate, handle, uses, rq, resp>> /\ ~uaf'
  BY DEF RefInv, ClearSlot, At, ConcInv, ConcTypeOK, Frees, Puts, NoUseAfterFree
<1>2. PICK m \in Mrs : m = mr[t] /\ m = Target(t)
  BY <1>1 DEF Putting
<1>3. /\ slot[t] \in Slots /\ table[slot[t]] = m /\ Live(m) /\ handle[m] = slot[t] /\ ref[m] = 0
      /\ call[t] = "receive" => uses[wr[t]] = m /\ mstate[m] = "destroyed"
      /\ call[t] = "destroy" => mstate[m] = "valid"
  BY <1>1, <1>2 DEF Putting, Target
<1>4. table'[slot[t]] = None /\ \A i \in Slots : i # slot[t] => table'[i] = table[i]
  BY <1>1, <1>3 DEF ClearSlot, ConcShape
<1>5. \/ call[t] = "receive" /\ wr[t] \in Wrs
      \/ call[t] = "destroy" /\ wr[t] = None
  BY <1>1, FreesHold
<1>6. /\ Others(t) /\ pc'[t] = "f_unlock"
      /\ call'[t] = call[t] /\ wr'[t] = wr[t] /\ mr'[t] = mr[t] /\ slot'[t] = slot[t]
  BY <1>1, GotoOthers
<1>7. KeepsWr(t) /\ RespMoves(t) /\ CallsApart'
  BY <1>1, <1>5, <1>6, ApartKept DEF KeepsWr, RespMoves, Uncounted, RefInv
<1>8. ASSUME NEW u \in Threads, u # t
      PROVE  Placed(u)' /\ Posting(u)' /\ Creating(u)' /\ Putting(u)'
  <2>1. Placed(u) /\ Posting(u) /\ Creating(u) /\ pc[u] \notin Puts
    BY <1>5, <1>8, OneReaper DEF RefInv, Reapers
  <2>2. /\ call'[u] = call[u] /\ pc'[u] = pc[u] /\ wr'[u] = wr[u]
        /\ mr'[u] = mr[u] /\ slot'[u] = slot[u]
    BY <1>6, <1>8 DEF Others
  <2>3. Placed(u)' /\ Posting(u)' /\ Putting(u)'
    BY <2>1, <2>2, <1>1 DEF Placed, Posting, Putting
  <2>4. Creating(u)'
    <3>1. call[u] = "create" => mr[u] \in Mrs /\ mr[u] # m
      BY <2>1, <1>3 DEF Placed, Calls, Creating, Live
    <3>2. \A v \in Threads : call'[v] = "create" => call[v] = "create" /\ mr'[v] = mr[v]
      BY <1>6 DEF Others
    <3> QED
      BY <2>1, <2>2, <3>1, <3>2, <1>1, <1>3, <1>4 DEF Creating
  <2> QED
    BY <2>3, <2>4
<1>9. Placed(t)' /\ Posting(t)' /\ Creating(t)'
  BY <1>5, <1>6 DEF Placed, Puts, Frees, Posting, Creating
<1>10. Putting(t)'
  <2>1. Target(t)' = m /\ Live(m)'
    BY <1>1, <1>2, <1>3, <1>6 DEF Target, Live
  <2> QED
    BY <2>1, <1>1, <1>2, <1>3, <1>4, <1>6 DEF Putting
<1>11. InTheTable'
  BY <1>1, <1>4 DEF RefInv, InTheTable
<1>12. LiveFound'
  <2>1. \A u \in Threads : At(u, "f_unlock") => mr'[u] = mr[u] /\ At(u, "f_unlock")'
    BY <1>1, <1>6 DEF At, Others
  <2>2. ASSUME NEW x \in Mrs, Live(x)
        PROVE  /\ handle[x] \in Slots
               /\ \/ table'[handle[x]] = x
                  \/ \E u \in Threads : mr'[u] = x /\ At(u, "f_unlock")'
    <3>1. CASE x = m
      BY <3>1, <1>2, <1>3, <1>6 DEF At
    <3>2. CASE x # m
      <4>1. /\ handle[x] \in Slots
            /\ \/ table[handle[x]] = x
               \/ \E u \in Threads : mr[u] = x /\ At(u, "f_unlock")
        BY <2>2 DEF RefInv, LiveFound
      <4> QED
        BY <3>2, <4>1, <2>1, <1>3, <1>4
    <3> QED
      BY <3>1, <3>2
  <2> QED
    BY <2>2, <1>1 DEF LiveFound, Live
<1>13. UsedMrs'
  BY <1>1 DEF RefInv, UsedMrs
<1>14. WrsInOnePlace' /\ RefsCounted' /\ \A x : WrsOf(x)' = WrsOf(x)
  BY <1>1, <1>6, <1>7, NoWrStep
<1>15. NoUseAfterFree'
  BY <1>1, <1>14 DEF RefInv, NoUseAfterFree
<1> QED
  BY <1>7, <1>8, <1>9, <1>10, <1>11, <1>12, <1>13, <1>14, <1>15 DEF RefInv

\* No WR counts for an MR that is freed, and it is in no slot: its handle's is cleared.
LEMMA UnlockAndFreeStep ==
  ASSUME ConcInv, RefInv, RespKept, NEW t \in Threads, UnlockAndFree(t)
  PROVE  RefInv'
<1> USE ConcurrencyAssumption
<1>1. /\ pc[t] = "f_unlock" /\ pc[t] \in Frees /\ pc[t] \in Puts /\ ConcShape /\ Putting(t)
      /\ End(t) /\ UNCHANGED <<table, ref, handle, uses, rq>> /\ ~uaf'
  BY DEF RefInv, UnlockAndFree, At, ConcInv, ConcTypeOK, Frees, Puts, NoUseAfterFree
<1>2. PICK m \in Mrs : m = mr[t] /\ m = Target(t)
  BY <1>1 DEF Putting
<1>3. /\ table[slot[t]] = None /\ Live(m) /\ handle[m] = slot[t] /\ ref[m] = 0
      /\ call[t] = "receive" => uses[wr[t]] = m /\ mstate[m] = "destroyed"
      /\ call[t] = "destroy" => mstate[m] = "valid"
  BY <1>1, <1>2 DEF Putting
<1>4. mstate'[m] = "freed" /\ \A x \in Mrs : x # m => mstate'[x] = mstate[x]
  BY <1>1, <1>2 DEF UnlockAndFree, ConcShape
<1>5. \/ call[t] = "receive" /\ wr[t] \in Wrs
      \/ call[t] = "destroy" /\ wr[t] = None
  BY <1>1, FreesHold
<1>6. /\ Others(t) /\ KeepsWr(t) /\ RespMoves(t) /\ CallsApart'
      /\ call'[t] = None /\ pc'[t] = "start"
      /\ Placed(t)' /\ Posting(t)' /\ Creating(t)' /\ Putting(t)'
  BY <1>1, FreesReturn
<1>7. \A i \in Slots : table[i] # m
  BY <1>3 DEF RefInv, InTheTable
<1>8. ASSUME NEW u \in Threads, u # t
      PROVE  Placed(u)' /\ Posting(u)' /\ Creating(u)' /\ Putting(u)'
  <2>1. Placed(u) /\ Posting(u) /\ Creating(u) /\ pc[u] \notin Puts
    BY <1>5, <1>8, OneReaper DEF RefInv, Reapers
  <2>2. /\ call'[u] = call[u] /\ pc'[u] = pc[u] /\ wr'[u] = wr[u]
        /\ mr'[u] = mr[u] /\ slot'[u] = slot[u]
    BY <1>6, <1>8 DEF Others
  <2>3. Placed(u)' /\ Putting(u)'
    BY <2>1, <2>2 DEF Placed, Putting
  <2>4. Posting(u)'
    <3>1. call[u] = "post_recv" => wr[u] \in Wrs
      BY <2>1 DEF Placed, Calls
    <3>2. call[u] = "post_recv" => uses[wr[u]] \in Mrs /\ uses[wr[u]] # m
      BY <3>1, <1>1, <1>2, PostedNotFreed DEF ConcInv, StepsAgree
    <3> QED
      BY <3>2, <2>1, <2>2, <1>1, <1>4 DEF Posting
  <2>5. Creating(u)'
    <3>1. call[u] = "create" => mr[u] \in Mrs /\ mr[u] # m
      BY <2>1, <1>3 DEF Placed, Calls, Creating, Live
    <3>2. \A v \in Threads : call'[v] = "create" => call[v] = "create" /\ mr'[v] = mr[v]
      BY <1>6 DEF Others, Calls
    <3> QED
      BY <2>1, <2>2, <3>1, <3>2, <1>1, <1>4 DEF Creating
  <2> QED
    BY <2>3, <2>4, <2>5
<1>9. InTheTable'
  <2>1. \A i \in Slots : table[i] # None => table[i] \in Mrs /\ table[i] # m
    BY <1>1, <1>7 DEF ConcShape
  <2> QED
    BY <2>1, <1>1, <1>4 DEF RefInv, InTheTable
<1>10. LiveFound'
  <2>1. ASSUME NEW x \in Mrs, Live(x)'
        PROVE  /\ handle[x] \in Slots
               /\ \/ table[handle[x]] = x
                  \/ \E u \in Threads : mr'[u] = x /\ At(u, "f_unlock")'
    <3>1. x # m /\ Live(x)
      BY <2>1, <1>4 DEF Live
    <3>2. /\ handle[x] \in Slots
          /\ \/ table[handle[x]] = x
             \/ \E u \in Threads : mr[u] = x /\ At(u, "f_unlock")
      BY <3>1 DEF RefInv, LiveFound
    <3>3. \A u \in Threads : mr[u] = x /\ At(u, "f_unlock")
                               => mr'[u] = x /\ At(u, "f_unlock")'
      BY <3>1, <1>2, <1>6 DEF At, Others
    <3> QED
      BY <3>2, <3>3
  <2> QED
    BY <2>1, <1>1 DEF LiveFound
<1>11. UsedMrs'
  <2>1. \A v \in Wrs : uses[v] # None => uses[v] \in Mrs
    BY <1>1 DEF ConcShape
  <2> QED
    BY <2>1, <1>1, <1>4 DEF RefInv, UsedMrs
<1>12. WrsInOnePlace' /\ RefsCounted' /\ \A x : WrsOf(x)' = WrsOf(x)
  BY <1>1, <1>6, NoWrStep
<1>13. WrsOf(m) = {}
  <2>1. IsFiniteSet(WrsOf(m)) /\ Cardinality(WrsOf(m)) = 0
    BY <1>3 DEF RefInv, RefsCounted
  <2> QED
    BY <2>1, FS_EmptySet
<1>14. NoUseAfterFree'
  BY <1>1, <1>4, <1>12, <1>13 DEF RefInv, NoUseAfterFree
<1> QED
  BY <1>6, <1>8, <1>9, <1>10, <1>11, <1>12, <1>14 DEF RefInv

-----------------------------------------------------------------------------
(* MRs come into the table. *)

\* A thread in roce_create_mr has an MR of its own, that nothing else knows of.
LEMMA NewMr ==
  ASSUME ConcInv, RefInv, NEW t \in Threads, pc[t] \in Creates
  PROVE  /\ call[t] = "create" /\ wr[t] = None /\ mr[t] \in Mrs /\ mstate[mr[t]] = "new"
         /\ \A u \in Threads : u # t /\ call[u] = "create" => mr[u] # mr[t]
         /\ \A w \in Wrs : uses[w] # mr[t]
<1>1. Placed(t) /\ Creating(t)
  BY DEF RefInv
<1>2. call[t] = "create" /\ wr[t] = None /\ mr[t] \in Mrs
  BY <1>1 DEF Placed, Creates, Posts, Puts, Frees
<1>3. mstate[mr[t]] = "new" /\ \A u \in Threads : u # t /\ call[u] = "create" => mr[u] # mr[t]
  BY <1>1, <1>2 DEF Creating
<1>4. ASSUME NEW w \in Wrs, uses[w] = mr[t] PROVE FALSE
  <2>1. uses[w] # None
    BY <1>2, <1>4, ConcurrencyAssumption
  <2> QED
    BY <2>1, <1>3, <1>4 DEF RefInv, UsedMrs
<1> QED
  BY <1>2, <1>3, <1>4

LEMMA LockTableStep ==
  ASSUME ConcInv, RefInv, NEW t \in Threads, LockTable(t)
  PROVE  RefInv'
<1> USE ConcurrencyAssumption
<1>1. /\ pc[t] = "t_lock" /\ pc[t] \in Creates /\ ConcShape /\ Creating(t)
      /\ Goto(t, "t_load") /\ UNCHANGED <<call, wr, mr, slot>>
      /\ UNCHANGED <<table, ref, mstate, handle, uses, rq, resp>> /\ ~uaf'
  BY DEF RefInv, LockTable, At, ConcInv, ConcTypeOK, Creates, mrs, NoUseAfterFree
<1>2. call[t] = "create" /\ wr[t] = None /\ mr[t] \in Mrs
  BY <1>1, NewMr
<1>3. /\ Others(t) /\ pc'[t] = "t_load"
      /\ call'[t] = call[t] /\ wr'[t] = wr[t] /\ mr'[t] = mr[t] /\ slot'[t] = slot[t]
  BY <1>1, GotoOthers
<1>4. KeepsWr(t) /\ RespMoves(t) /\ CallsApart'
  BY <1>1, <1>2, <1>3, ApartKept DEF KeepsWr, RespMoves, RefInv
<1>5. Placed(t)' /\ Posting(t)' /\ Putting(t)'
  BY <1>2, <1>3 DEF Placed, Creates, Posting, Putting, Puts, Frees
<1>6. Creating(t)'
  <2>1. \A v \in Threads : call'[v] = "create" => call[v] = "create" /\ mr'[v] = mr[v]
    BY <1>3 DEF Others
  <2> QED
    BY <2>1, <1>1, <1>2, <1>3 DEF Creating
<1> QED
  BY <1>1, <1>3, <1>4, <1>5, <1>6, QuietStep

LEMMA LoadSlotStep ==
  ASSUME ConcInv, RefInv, NEW t \in Threads, LoadSlot(t)
  PROVE  RefInv'
<1> USE ConcurrencyAssumption
<1>1. /\ pc[t] = "t_load" /\ pc[t] \in Creates /\ ConcShape /\ Creating(t)
      /\ UNCHANGED <<call, wr, mr>>
      /\ UNCHANGED <<table, ref, mstate, handle, uses, rq, resp>> /\ ~uaf'
  BY DEF RefInv, LoadSlot, At, ConcInv, ConcTypeOK, Creates, mrs, NoUseAfterFree
<1>2. call[t] = "create" /\ wr[t] = None /\ mr[t] \in Mrs
  BY <1>1, NewMr
<1>3. PICK l, s : /\ pc' = [pc EXCEPT ![t] = l] /\ slot' = [slot EXCEPT ![t] = s]
                  /\ \/ l = "t_unlock" /\ s = None
                     \/ l = "t_store" /\ s \in Slots /\ table[s] = None
  BY DEF LoadSlot, Goto
<1>4. /\ Others(t) /\ pc'[t] = l /\ slot'[t] = s
      /\ call'[t] = call[t] /\ wr'[t] = wr[t] /\ mr'[t] = mr[t]
  BY <1>1, <1>3 DEF ConcShape, Others
<1>5. KeepsWr(t) /\ RespMoves(t) /\ CallsApart'
  BY <1>1, <1>2, <1>4, ApartKept DEF KeepsWr, RespMoves, RefInv
<1>6. Placed(t)' /\ Posting(t)' /\ Putting(t)'
  BY <1>2, <1>3, <1>4 DEF Placed, Creates, Posting, Putting, Puts, Frees
<1>7. Creating(t)'
  <2>1. \A v \in Threads : call'[v] = "create" => call[v] = "create" /\ mr'[v] = mr[v]
    BY <1>4 DEF Others
  <2>2. /\ mstate[mr[t]] = "new" /\ \A i \in Slots : table[i] # mr[t]
        /\ \A u \in Threads : u # t /\ call[u] = "create" => mr[u] # mr[t]
    BY <1>1, <1>2 DEF Creating
  <2>3. CASE l = "t_unlock" /\ s = None
    BY <2>1, <2>2, <2>3, <1>1, <1>4 DEF Creating
  <2>4. CASE l = "t_store" /\ s \in Slots /\ table[s] = None
    BY <2>1, <2>2, <2>4, <1>1, <1>4 DEF Creating
  <2> QED
    BY <2>3, <2>4, <1>3
<1> QED
  BY <1>1, <1>4, <1>5, <1>6, <1>7, QuietStep

\* The slot found empty is empty still: nobody else is inside the table's lock.
LEMMA StoreSlotStep ==
  ASSUME ConcInv, RefInv, NEW t \in Threads, StoreSlot(t)
  PROVE  RefInv'
<1> USE ConcurrencyAssumption
<1>1. /\ pc[t] = "t_store" /\ pc[t] \in Creates /\ ConcShape /\ Creating(t)
      /\ Goto(t, "t_unlock") /\ UNCHANGED <<call, wr, mr, slot>>
      /\ UNCHANGED <<ref, mstate, uses, rq, resp>> /\ ~uaf'
  BY DEF RefInv, StoreSlot, At, ConcInv, ConcTypeOK, Creates, NoUseAfterFree
<1>2. /\ call[t] = "create" /\ wr[t] = None
      /\ \A u \in Threads : u # t /\ call[u] = "create" => mr[u] # mr[t]
      /\ \A w \in Wrs : uses[w] # mr[t]
  BY <1>1, NewMr
<1>3. PICK m \in Mrs : m = mr[t] /\ mstate[m] = "new"
  BY <1>1, NewMr
<1>4. PICK s \in Slots : s = slot[t] /\ table[s] = None
  BY <1>1, <1>2 DEF Creating
<1>5. /\ table'[s] = m /\ \A i \in Slots : i # s => table'[i] = table[i]
      /\ handle'[m] = s /\ \A x \in Mrs : x # m => handle'[x] = handle[x]
  BY <1>1, <1>3, <1>4 DEF StoreSlot, ConcShape
<1>6. \A i \in Slots : table[i] # m
  BY <1>1, <1>2, <1>3 DEF Creating
<1>7. /\ Others(t) /\ pc'[t] = "t_unlock"
      /\ call'[t] = call[t] /\ wr'[t] = wr[t] /\ mr'[t] = mr[t] /\ slot'[t] = slot[t]
  BY <1>1, GotoOthers
<1>8. KeepsWr(t) /\ RespMoves(t) /\ CallsApart'
  BY <1>1, <1>2, <1>7, ApartKept DEF KeepsWr, RespMoves, RefInv
<1>9. ASSUME NEW u \in Threads, u # t
      PROVE  Placed(u)' /\ Posting(u)' /\ Creating(u)' /\ Putting(u)'
  <2>1. Placed(u) /\ Posting(u) /\ Creating(u) /\ Putting(u)
    BY DEF RefInv
  <2>2. /\ call'[u] = call[u] /\ pc'[u] = pc[u] /\ wr'[u] = wr[u]
        /\ mr'[u] = mr[u] /\ slot'[u] = slot[u]
    BY <1>7, <1>9 DEF Others
  <2>3. pc[u] \notin {"t_load", "t_store", "t_unlock", "f_clear", "f_unlock"}
    BY <1>1, <1>9 DEF ConcInv, LocksExclude, InTable
  <2>4. Placed(u)'
    BY <2>1, <2>2 DEF Placed
  <2>5. Posting(u)'
    <3>1. call[u] = "post_recv" => wr[u] \in Wrs
      BY <2>1 DEF Placed, Calls
    <3>2. call[u] = "post_recv" => uses[wr[u]] \in Mrs /\ uses[wr[u]] # m
      BY <3>1, <1>2, <1>3 DEF ConcInv, StepsAgree
    <3> QED
      BY <3>2, <2>1, <2>2, <1>1, <1>5 DEF Posting
  <2>6. Creating(u)'
    <3>1. call[u] = "create" => mr[u] # m
      BY <1>2, <1>3, <1>9
    <3>2. \A v \in Threads : call'[v] = "create" => call[v] = "create" /\ mr'[v] = mr[v]
      BY <1>7 DEF Others
    <3> QED
      BY <2>1, <2>2, <2>3, <3>1, <3>2, <1>1, <1>5 DEF Creating
  <2>7. Putting(u)'
    <3>1. ASSUME pc[u] \in Puts
          PROVE  Target(u)' = Target(u) /\ Target(u) # m /\ Target(u) \in Mrs
      <4>1. /\ slot[u] \in Slots /\ Target(u) = table[slot[u]]
            /\ Target(u) \in Mrs /\ Live(Target(u))
        BY <2>1, <2>3, <3>1 DEF Putting, Target
      <4>2. slot[u] # s /\ Target(u) # m
        BY <4>1, <1>3, <1>4 DEF Live
      <4> QED
        BY <4>1, <4>2, <2>2, <2>3, <1>5 DEF Target
    <3> QED
      BY <3>1, <2>1, <2>2, <2>3, <1>1, <1>5 DEF Putting, Live
  <2> QED
    BY <2>4, <2>5, <2>6, <2>7
<1>10. Placed(t)' /\ Posting(t)' /\ Putting(t)'
  BY <1>2, <1>3, <1>7 DEF Placed, Creates, Posting, Putting, Puts, Frees
<1>11. Creating(t)'
  <2>1. \A v \in Threads : call'[v] = "create" => call[v] = "create" /\ mr'[v] = mr[v]
    BY <1>7 DEF Others
  <2> QED
    BY <2>1, <1>1, <1>2, <1>3, <1>4, <1>5, <1>7 DEF Creating
<1>12. InTheTable'
  <2>1. ASSUME NEW i \in Slots, table'[i] # None
        PROVE  handle'[table'[i]] = i /\ mstate[table'[i]] \in {"new", "valid", "destroyed"}
    <3>1. CASE i = s
      BY <3>1, <1>3, <1>5
    <3>2. CASE i # s
      <4>1. table'[i] = table[i] /\ table[i] # m /\ table[i] \in Mrs
        BY <2>1, <3>2, <1>1, <1>5, <1>6 DEF ConcShape
      <4> QED
        BY <2>1, <4>1, <1>5 DEF RefInv, InTheTable
    <3> QED
      BY <3>1, <3>2
  <2> QED
    BY <2>1, <1>1 DEF InTheTable
<1>13. LiveFound'
  <2>1. ASSUME NEW x \in Mrs, Live(x)
        PROVE  /\ handle'[x] \in Slots
               /\ \/ table'[handle'[x]] = x
                  \/ \E u \in Threads : mr'[u] = x /\ At(u, "f_unlock")'
    <3>1. x # m /\ handle'[x] = handle[x]
      BY <2>1, <1>3, <1>5 DEF Live
    <3>2. /\ handle[x] \in Slots
          /\ \/ table[handle[x]] = x
             \/ \E u \in Threads : mr[u] = x /\ At(u, "f_unlock")
      BY <2>1 DEF RefInv, LiveFound
    <3>3. \A u \in Threads : At(u, "f_unlock") => mr'[u] = mr[u] /\ At(u, "f_unlock")'
      BY <1>1, <1>7 DEF At, Others
    <3>4. table[handle[x]] = x => handle[x] # s
      BY <1>4
    <3> QED
      BY <3>1, <3>2, <3>3, <3>4, <1>5
  <2> QED
    BY <2>1, <1>1 DEF LiveFound, Live
<1>14. UsedMrs'
  BY <1>1 DEF RefInv, UsedMrs
<1>15. WrsInOnePlace' /\ RefsCounted' /\ \A x : WrsOf(x)' = WrsOf(x)
  BY <1>1, <1>7, <1>8, NoWrStep
<1>16. NoUseAfterFree'
  BY <1>1, <1>15 DEF RefInv, NoUseAfterFree
<1> QED
  BY <1>8, <1>9, <1>10, <1>11, <1>12, <1>13, <1>14, <1>15, <1>16 DEF RefInv

LEMMA UnlockTableStep ==
  ASSUME ConcInv, RefInv, NEW t \in Threads, UnlockTable(t)
  PROVE  RefInv'
<1> USE ConcurrencyAssumption
<1>1. /\ pc[t] = "t_unlock" /\ pc[t] \in Creates /\ ConcShape /\ Creating(t)
      /\ Return(t) /\ UNCHANGED <<table, ref, handle, uses, rq, resp>> /\ ~uaf'
  BY DEF RefInv, UnlockTable, At, ConcInv, ConcTypeOK, Creates, NoUseAfterFree
<1>2. /\ call[t] = "create" /\ wr[t] = None
      /\ \A u \in Threads : u # t /\ call[u] = "create" => mr[u] # mr[t]
      /\ \A w \in Wrs : uses[w] # mr[t]
  BY <1>1, NewMr
<1>3. PICK m \in Mrs : m = mr[t] /\ mstate[m] = "new"
  BY <1>1, NewMr
<1>4. /\ mstate'[m] = IF slot[t] = None THEN "freed" ELSE "valid"
      /\ \A x \in Mrs : x # m => mstate'[x] = mstate[x]
  BY <1>1, <1>3 DEF UnlockTable, ConcShape
<1>5. \/ slot[t] = None /\ mstate'[m] = "freed" /\ \A i \in Slots : table[i] # m
      \/ slot[t] \in Slots /\ mstate'[m] = "valid" /\ table[slot[t]] = m
  BY <1>1, <1>2, <1>3, <1>4 DEF Creating
<1>6. /\ Others(t) /\ pc'[t] = "start"
      /\ call'[t] = None /\ wr'[t] = None /\ mr'[t] = None /\ slot'[t] = None
  BY <1>1, ReturnOthers
<1>7. KeepsWr(t) /\ RespMoves(t) /\ CallsApart'
  BY <1>1, <1>2, <1>6, ApartKept DEF KeepsWr, RespMoves, RefInv
<1>8. ASSUME NEW u \in Threads, u # t
      PROVE  Placed(u)' /\ Posting(u)' /\ Creating(u)' /\ Putting(u)'
  <2>1. Placed(u) /\ Posting(u) /\ Creating(u) /\ Putting(u)
    BY DEF RefInv
  <2>2. /\ call'[u] = call[u] /\ pc'[u] = pc[u] /\ wr'[u] = wr[u]
        /\ mr'[u] = mr[u] /\ slot'[u] = slot[u]
    BY <1>6, <1>8 DEF Others
  <2>3. Placed(u)'
    BY <2>1, <2>2 DEF Placed
  <2>4. Posting(u)'
    <3>1. call[u] = "post_recv" => wr[u] \in Wrs
      BY <2>1 DEF Placed, Calls
    <3>2. call[u] = "post_recv" => uses[wr[u]] \in Mrs /\ uses[wr[u]] # m
      BY <3>1, <1>2, <1>3 DEF ConcInv, StepsAgree
    <3> QED
      BY <3>2, <2>1, <2>2, <1>1, <1>4 DEF Posting
  <2>5. Creating(u)'
    <3>1. call[u] = "create" => mr[u] \in Mrs /\ mr[u] # m
      BY <2>1, <1>2, <1>3, <1>8 DEF Placed, Calls
    <3>2. \A v \in Threads : call'[v] = "create" => call[v] = "create" /\ mr'[v] = mr[v]
      BY <1>6 DEF Others, Calls
    <3> QED
      BY <2>1, <2>2, <3>1, <3>2, <1>1, <1>4 DEF Creating
  <2>6. Putting(u)'
    <3>1. Target(u)' = Target(u)
      BY <2>2, <1>1 DEF Target
    <3>2. pc[u] \in Puts => mstate'[Target(u)] = mstate[Target(u)]
      BY <2>1, <1>3, <1>4 DEF Putting, Live
    <3> QED
      BY <3>1, <3>2, <2>1, <2>2, <1>1 DEF Putting, Live
  <2> QED
    BY <2>3, <2>4, <2>5, <2>6
<1>9. Placed(t)' /\ Posting(t)' /\ Creating(t)' /\ Putting(t)'
  BY <1>6 DEF Placed, Posting, Creating, Putting, Puts, Frees, Calls
<1>10. InTheTable'
  <2>1. ASSUME NEW i \in Slots, table[i] # None
        PROVE  mstate'[table[i]] \in {"new", "valid", "destroyed"}
    <3>1. table[i] \in Mrs /\ mstate[table[i]] \in {"new", "valid", "destroyed"}
      BY <2>1, <1>1 DEF ConcShape, RefInv, InTheTable
    <3> QED
      BY <3>1, <1>4, <1>5
  <2> QED
    BY <2>1, <1>1 DEF RefInv, InTheTable
<1>11. LiveFound'
  <2>1. ASSUME NEW x \in Mrs, Live(x)'
        PROVE  /\ handle[x] \in Slots
               /\ \/ table[handle[x]] = x
                  \/ \E u \in Threads : mr'[u] = x /\ At(u, "f_unlock")'
    <3>1. CASE x = m
      <4>1. slot[t] \in Slots /\ table[slot[t]] = m /\ m # None
        BY <2>1, <3>1, <1>5 DEF Live
      <4> QED
        BY <3>1, <4>1 DEF RefInv, InTheTable
    <3>2. CASE x # m
      <4>1. Live(x)
        BY <2>1, <3>2, <1>4 DEF Live
      <4>2. /\ handle[x] \in Slots
            /\ \/ table[handle[x]] = x
               \/ \E u \in Threads : mr[u] = x /\ At(u, "f_unlock")
        BY <4>1 DEF RefInv, LiveFound
      <4>3. \A u \in Threads : At(u, "f_unlock") => mr'[u] = mr[u] /\ At(u, "f_unlock")'
        BY <1>1, <1>6 DEF At, Others
      <4> QED
        BY <4>2, <4>3
    <3> QED
      BY <3>1, <3>2
  <2> QED
    BY <2>1, <1>1 DEF LiveFound
<1>12. UsedMrs'
  <2>1. \A v \in Wrs : uses[v] # None => uses[v] \in Mrs /\ uses[v] # m
    BY <1>1, <1>2, <1>3 DEF ConcShape
  <2> QED
    BY <2>1, <1>1, <1>4 DEF RefInv, UsedMrs
<1>13. WrsInOnePlace' /\ RefsCounted' /\ \A x : WrsOf(x)' = WrsOf(x)
  BY <1>1, <1>6, <1>7, NoWrStep
<1>14. WrsOf(m) = {}
  BY <1>2, <1>3 DEF WrsOf
<1>15. NoUseAfterFree'
  BY <1>1, <1>4, <1>13, <1>14 DEF RefInv, NoUseAfterFree
<1> QED
  BY <1>7, <1>8, <1>9, <1>10, <1>11, <1>12, <1>13, <1>15 DEF RefInv

-----------------------------------------------------------------------------
(* resp.wr. *)

\* Only the reception that is going on moves resp.wr.
LEMMA RespMoved ==
  ASSUME RefInv, RespKept, NEW t \in Threads, Others(t), rq' = rq, RespAt(t)',
         resp' = resp \/ (call[t] = "receive" /\ resp' \in {None, wr[t]})
  PROVE  RespKept'
<1>1. resp' # None => ~InList(resp)'
  <2>1. CASE resp' = resp
    BY <2>1 DEF RespKept, InList
  <2>2. CASE call[t] = "receive" /\ resp' = wr[t] /\ wr[t] # None
    BY <2>2 DEF RefInv, WrsInOnePlace, InList
  <2> QED
    BY <2>1, <2>2
<1>2. ASSUME NEW u \in Threads, u # t PROVE RespAt(u)'
  <2>1. RespAt(u) /\ call'[u] = call[u] /\ pc'[u] = pc[u] /\ wr'[u] = wr[u]
    BY <1>2 DEF RespKept, Others
  <2>2. CASE resp' = resp
    BY <2>1, <2>2 DEF RespAt, RespFor
  <2>3. CASE call[t] = "receive" /\ resp' \in {None, wr[t]}
    <3>1. call[u] # "receive"
      BY <1>2, <2>3 DEF RefInv, CallsApart, Reapers
    <3>2. wr[u] # None => wr[u] # wr[t]
      BY <1>2 DEF RefInv, WrsInOnePlace
    <3> QED
      BY <2>1, <2>3, <3>1, <3>2 DEF RespAt
  <2> QED
    BY <2>2, <2>3
<1> QED
  BY <1>1, <1>2 DEF RespKept

\* A thread goes on, and resp.wr stays.
LEMMA RespGoes ==
  ASSUME ConcShape, RefInv, RespKept, NEW t \in Threads, NEW l, Goto(t, l),
         Others(t), call'[t] = call[t], wr'[t] = wr[t], UNCHANGED <<rq, resp>>,
         call[t] = "receive" => RespFor(t, l, resp)
  PROVE  RespKept'
<1>1. pc'[t] = l
  BY DEF Goto, ConcShape
<1>2. RespAt(t)'
  BY <1>1 DEF RespKept, RespAt, RespFor
<1> QED
  BY <1>2, RespMoved

\* A call is over; that of a reception may have emptied resp.wr.
LEMMA RespReturns ==
  ASSUME ConcShape, RefInv, RespKept, NEW t \in Threads, Return(t), rq' = rq,
         resp' = resp \/ (call[t] = "receive" /\ resp' = None)
  PROVE  RespKept'
<1>1. Others(t) /\ call'[t] = None /\ wr'[t] = None
  BY ReturnOthers
<1>2. RespAt(t)'
  BY <1>1, ConcurrencyAssumption DEF RespAt, Calls
<1> QED
  BY <1>1, <1>2, RespMoved

LEMMA RespBegins ==
  ASSUME ConcInv, RefInv, RespKept, NEW t \in Threads,
         \/ \E w \in Wrs, m \in Mrs : PostRecv(t, w, m)
         \/ Receive(t)
         \/ \E m \in Mrs : CreateMr(t, m) \/ DestroyMr(t, m)
  PROVE  RespKept'
<1> USE ConcurrencyAssumption
<1>1. ConcShape /\ UNCHANGED <<rq, resp>>
  BY DEF ConcInv, ConcTypeOK, PostRecv, Receive, CreateMr, DestroyMr
<1>2. ASSUME NEW w \in Wrs, NEW m \in Mrs, PostRecv(t, w, m) PROVE RespKept'
  <2>1. Begin(t, "post_recv", "get") /\ UNCHANGED mr /\ uses[w] = None
        /\ wr' = [wr EXCEPT ![t] = w] /\ slot' = [slot EXCEPT ![t] = handle[m]]
    BY <1>2 DEF PostRecv
  <2>2. Others(t) /\ call'[t] = "post_recv" /\ wr'[t] = w
    BY <1>1, <2>1, BeginOthers DEF Others, ConcShape
  <2>3. w # resp
    BY <2>1 DEF ConcInv, StepsAgree
  <2>4. RespAt(t)'
    BY <1>1, <2>2, <2>3 DEF RespAt
  <2> QED
    BY <1>1, <2>2, <2>4, RespMoved
<1>3. ASSUME Receive(t) PROVE RespKept'
  <2>1. Begin(t, "receive", "pop") /\ UNCHANGED <<wr, mr, slot>>
    BY <1>3 DEF Receive
  <2>2. Others(t) /\ call'[t] = "receive" /\ pc'[t] = "pop"
    BY <1>1, <2>1, BeginOthers DEF Others
  <2>3. RespAt(t)'
    BY <2>2 DEF RespAt, RespFor, Puts, Frees
  <2> QED
    BY <1>1, <2>2, <2>3, RespMoved
<1>4. ASSUME NEW m \in Mrs, CreateMr(t, m) PROVE RespKept'
  <2>1. /\ Begin(t, "create", "t_lock") /\ UNCHANGED <<wr, slot>>
        /\ mr' = [mr EXCEPT ![t] = m]
    BY <1>4 DEF CreateMr
  <2>2. Others(t) /\ call'[t] = "create" /\ wr'[t] = None
    BY <1>1, <2>1, BeginOthers DEF Others, ConcShape
  <2>3. RespAt(t)'
    BY <2>2 DEF RespAt
  <2> QED
    BY <1>1, <2>2, <2>3, RespMoved
<1>5. ASSUME NEW m \in Mrs, DestroyMr(t, m) PROVE RespKept'
  <2>1. /\ Begin(t, "destroy", "look") /\ UNCHANGED <<wr, mr>>
        /\ slot' = [slot EXCEPT ![t] = handle[m]]
    BY <1>5 DEF DestroyMr
  <2>2. Others(t) /\ call'[t] = "destroy" /\ wr'[t] = None
    BY <1>1, <2>1, BeginOthers DEF Others, ConcShape
  <2>3. RespAt(t)'
    BY <2>2 DEF RespAt
  <2> QED
    BY <1>1, <2>2, <2>3, RespMoved
<1> QED
  BY <1>2, <1>3, <1>4, <1>5

\* The list: a WR taken from it is in hand alone, and one put in is not resp.wr.
LEMMA RespListed ==
  ASSUME ConcInv, RefInv, RespKept, NEW t \in Threads, AddTail(t) \/ Pop(t)
  PROVE  RespKept'
<1> USE ConcurrencyAssumption
<1>1. ConcShape /\ pc[t] = "q_store" /\ RespAt(t) /\ resp' = resp
      /\ Goto(t, "q_unlock") /\ UNCHANGED <<call, mr, slot>>
  BY DEF ConcInv, ConcTypeOK, RespKept, AddTail, Pop, At
<1>2. CASE AddTail(t)
  <2>1. wr[t] \in Wrs /\ rq' = Append(rq, wr[t]) /\ rq \in Seq(Wrs) /\ call[t] = "post_recv"
        /\ wr' = wr
    <3>1. Placed(t)
      BY DEF RefInv
    <3> QED
      BY <1>1, <1>2, <3>1 DEF Placed, Puts, Frees, Creates, AddTail, ConcInv, StepsAgree, ConcShape
  <2>2. ~InList(wr[t]) /\ \A i, j \in 1 .. Len(rq) : rq[i] = rq[j] => i = j
    BY <1>1, <2>1 DEF RefInv, WrsInOnePlace
  <2>3. \A w : ListedNext(w) <=> w = wr[t] \/ InList(w)
    BY <2>1, <2>2, AppendedPlaces DEF InList, ListedNext
  <2>4. resp # wr[t]
    BY <1>1, <2>1 DEF RespAt
  <2>5. resp' # None => ~InList(resp)'
    <3>1. InList(resp)' <=> ListedNext(resp)
      BY <1>1 DEF InList, ListedNext
    <3> QED
      BY <3>1, <2>3, <2>4, <1>1 DEF RespKept
  <2>6. \A u \in Threads : pc'[u] = pc[u] \/ (u = t /\ pc'[u] = "q_unlock")
    BY <1>1 DEF Goto, ConcShape
  <2>7. \A u \in Threads : RespAt(u)'
    BY <2>1, <2>6, <1>1 DEF RespKept, RespAt, RespFor
  <2> QED
    BY <2>5, <2>7 DEF RespKept
<1>3. CASE Pop(t)
  <2>1. call[t] = "receive" /\ resp = None
    BY <1>1, <1>3 DEF Pop, RespAt, RespFor
  <2>2. Head(list[t]) \in Wrs /\ wr' = [wr EXCEPT ![t] = Head(list[t])]
    BY <1>1, <1>3, <2>1 DEF Pop, ConcInv, StepsAgree, ConcShape
  <2>3. \A u \in Threads : /\ u # t => pc'[u] = pc[u] /\ wr'[u] = wr[u]
                           /\ u = t => pc'[u] = "q_unlock"
    BY <1>1, <2>2 DEF Goto, ConcShape
  <2>4. ASSUME NEW u \in Threads PROVE RespAt(u)'
    <3>1. RespFor(u, pc[u], resp)' \/ call[u] # "receive"
      <4>1. CASE u = t
        BY <4>1, <1>1, <2>1, <2>3 DEF RespFor, Puts, Frees
      <4>2. CASE u # t
        BY <4>2, <2>1 DEF RefInv, CallsApart, Reapers
      <4> QED
        BY <4>1, <4>2
    <3> QED
      BY <3>1, <1>1, <2>1 DEF RespAt
  <2> QED
    BY <2>4, <2>1, <1>1 DEF RespKept
<1> QED
  BY <1>2, <1>3

\* What the steps do to resp.wr, apart from those on the list.
LEMMA RespSteps ==
  ASSUME ConcInv, RefInv, RespKept, NEW t \in Threads, Step(t), ~AddTail(t), ~Pop(t)
  PROVE  RespKept'
<1> USE ConcurrencyAssumption
<1>1. ConcShape /\ Placed(t) /\ RespAt(t)
  BY DEF ConcInv, ConcTypeOK, RefInv, RespKept
<1>2. ASSUME NEW label, NEW next, Lookup(t, label, next),
             <<label, next>> \in {<<"get", "ref">>, <<"map", "map_state">>,
                                  <<"find", "dec">>, <<"look", "busy">>}
      PROVE  RespKept'
  <2>1. rq' = rq /\ pc[t] = label
    BY <1>2 DEF Lookup, At
  <2>2. CASE Return(t) /\ (resp' = resp \/ (call[t] = "receive" /\ resp' = None))
    BY <2>1, <2>2, <1>1, RespReturns
  <2>3. CASE /\ mr' = [mr EXCEPT ![t] = table[slot[t]]] /\ Goto(t, next)
             /\ UNCHANGED <<call, wr, slot, list, resp>>
    <3>1. Others(t) /\ call'[t] = call[t] /\ wr'[t] = wr[t]
      BY <2>3, <1>1 DEF Others, Goto, ConcShape
    <3>2. call[t] = "receive" => RespFor(t, next, resp)
      BY <1>1, <1>2, <2>1 DEF RespAt, RespFor, Puts, Frees
    <3> QED
      BY <2>1, <2>3, <3>1, <3>2, <1>1, RespGoes
  <2> QED
    BY <1>2, <2>2, <2>3 DEF Lookup, End
<1>3. ASSUME NEW l, Goto(t, l), UNCHANGED <<call, wr, mr, rq, resp>>,
             call[t] = "receive" => RespFor(t, l, resp),
             slot' = slot \/ \E x : slot' = [slot EXCEPT ![t] = x]
      PROVE  RespKept'
  <2>1. Others(t) /\ call'[t] = call[t] /\ wr'[t] = wr[t]
    BY <1>1, <1>3 DEF Others, Goto, ConcShape
  <2> QED
    BY <2>1, <1>1, <1>3, RespGoes
<1>4. ASSUME Return(t), rq' = rq, resp' = resp \/ (call[t] = "receive" /\ resp' = None)
      PROVE  RespKept'
  BY <1>1, <1>4, RespReturns
<1>5. ASSUME TakeReference(t) \/ LockQueue(t) \/ LoadQueue(t) PROVE RespKept'
  <2>1. PICK l : /\ Goto(t, l) /\ l \in {"q_lock", "q_load", "q_store", "q_unlock"}
                 /\ UNCHANGED <<call, wr, mr, rq, resp, slot>>
                 /\ pc[t] \in {"ref", "q_lock", "q_load"}
    BY <1>5 DEF TakeReference, LockQueue, LoadQueue, At
  <2>2. call[t] = "receive" => RespFor(t, l, resp)
    BY <1>1, <2>1 DEF RespAt, RespFor, Puts, Frees, Placed
  <2> QED
    BY <2>1, <2>2, <1>3
<1>6. ASSUME PopUnlessHeld(t) PROVE RespKept'
  <2>1. CASE resp # None
    BY <2>1, <1>6, <1>4 DEF PopUnlessHeld
  <2>2. CASE resp = None
    <3>1. RespFor(t, "q_lock", resp)
      BY <2>2 DEF RespFor, Puts, Frees
    <3> QED
      BY <3>1, <2>2, <1>6, <1>3 DEF PopUnlessHeld
  <2> QED
    BY <2>1, <2>2
<1>7. ASSUME UnlockQueue(t) PROVE RespKept'
  <2>1. rq' = rq /\ pc[t] = "q_unlock"
    BY <1>7 DEF UnlockQueue, At
  <2>2. CASE call[t] = "receive" /\ wr[t] # None
    <3>1. resp = None
      BY <2>1, <2>2, <1>1 DEF RespAt, RespFor
    <3>2. PICK l \in {"map", "find"} :
             /\ Goto(t, l) /\ resp' = (IF l = "map" THEN wr[t] ELSE resp)
             /\ UNCHANGED <<call, wr, mr>> /\ \E x : slot' = [slot EXCEPT ![t] = x]
      BY <1>7, <2>2 DEF UnlockQueue
    <3>3. Others(t) /\ call'[t] = "receive" /\ wr'[t] = wr[t] /\ pc'[t] = l
      BY <1>1, <2>2, <3>2 DEF Others, Goto, ConcShape
    <3>4. RespAt(t)'
      BY <3>1, <3>2, <3>3 DEF RespAt, RespFor, Puts, Frees
    <3> QED
      BY <1>1, <2>1, <2>2, <3>1, <3>2, <3>3, <3>4, RespMoved
  <2>3. CASE ~(call[t] = "receive" /\ wr[t] # None)
    BY <2>1, <2>3, <1>7, <1>4 DEF UnlockQueue, End
  <2> QED
    BY <2>2, <2>3
<1>8. ASSUME MapState(t) PROVE RespKept'
  <2>1. pc[t] = "map_state" /\ UNCHANGED <<rq, resp>>
    BY <1>8 DEF MapState, At
  <2>2. CASE Return(t)
    BY <2>1, <2>2, <1>4
  <2>3. CASE Goto(t, "find") /\ UNCHANGED <<call, wr, mr, slot>>
    <3>1. call[t] = "receive" => RespFor(t, "find", resp)
      BY <2>1, <1>1 DEF RespAt, RespFor
    <3> QED
      BY <2>1, <2>3, <3>1, <1>3
  <2> QED
    BY <1>8, <2>2, <2>3 DEF MapState
<1>9. ASSUME \/ PutReference(t) \/ DestroyUnlessBusy(t) \/ LockToFree(t) \/ ClearSlot(t)
             \/ LockTable(t) \/ LoadSlot(t) \/ StoreSlot(t)
      PROVE  RespKept'
  <2>1. PICK l : /\ Goto(t, l) /\ UNCHANGED <<call, wr, mr, rq, resp>>
                 /\ slot' = slot \/ \E x : slot' = [slot EXCEPT ![t] = x]
                 /\ l \in {"check", "mark", "f_lock", "f_clear", "f_unlock",
                           "t_load", "t_store", "t_unlock"}
                 /\ pc[t] \in {"dec", "busy", "f_lock", "f_clear", "t_lock", "t_load", "t_store"}
    BY <1>9 DEF PutReference, DestroyUnlessBusy, LockToFree, ClearSlot, LockTable, LoadSlot,
                StoreSlot, At
  <2>2. call[t] = "receive" => RespFor(t, l, resp)
    BY <1>1, <2>1 DEF RespAt, RespFor, Puts, Frees, Placed
  <2> QED
    BY <2>1, <2>2, <1>3
<1>10. ASSUME CheckState(t) PROVE RespKept'
  <2>1. pc[t] = "check" /\ rq' = rq
    BY <1>10 DEF CheckState, At
  <2>2. CASE End(t)
    BY <2>1, <2>2, <1>4 DEF End
  <2>3. CASE Goto(t, "look") /\ UNCHANGED <<call, wr, mr, slot, resp>>
    <3>1. call[t] = "receive" => RespFor(t, "look", resp)
      BY <2>1, <1>1 DEF RespAt, RespFor, Puts, Frees
    <3> QED
      BY <2>1, <2>3, <3>1, <1>3
  <2> QED
    BY <1>10, <2>2, <2>3 DEF CheckState
<1>11. ASSUME MarkDestroyed(t) \/ UnlockAndFree(t) \/ UnlockTable(t) PROVE RespKept'
  BY <1>11, <1>4 DEF MarkDestroyed, UnlockAndFree, UnlockTable, End
<1> QED
  BY <1>2, <1>5, <1>6, <1>7, <1>8, <1>9, <1>10, <1>11 DEF Step

-----------------------------------------------------------------------------
LEMMA RefInit ==
  ASSUME ConcInit PROVE RefInv /\ RespKept
<1> USE ConcurrencyAssumption
<1>1. CallsApart /\ \A t \in Threads : Placed(t) /\ Posting(t) /\ Creating(t) /\ Putting(t)
  BY DEF ConcInit, CallsApart, Reapers, Placed, Posting, Creating, Putting, Puts, Frees, Calls
<1>2. InTheTable /\ LiveFound /\ UsedMrs
  BY DEF ConcInit, InTheTable, LiveFound, UsedMrs, Live
<1>3. WrsInOnePlace
  BY DEF ConcInit, WrsInOnePlace
<1>4. \A m \in Mrs : WrsOf(m) = {}
  BY DEF ConcInit, WrsOf
<1>5. RefsCounted
  BY <1>4, FS_EmptySet DEF ConcInit, RefsCounted
<1>6. NoUseAfterFree
  BY <1>4 DEF ConcInit, NoUseAfterFree
<1>7. RespKept
  BY DEF ConcInit, RespKept, RespAt, Calls
<1> QED
  BY <1>1, <1>2, <1>3, <1>5, <1>6, <1>7 DEF RefInv

\* A step that changes nothing keeps everything.
LEMMA RefStutter ==
  ASSUME RefInv, RespKept, UNCHANGED conc_vars PROVE RefInv' /\ RespKept'
<1> USE DEF conc_vars, locals, mrs, history
<1>1. \A m : WrsOf(m)' = WrsOf(m)
  BY DEF WrsOf
<1>2. \A t \in Threads : Placed(t)' /\ Posting(t)' /\ Creating(t)' /\ Putting(t)'
  BY DEF RefInv, Placed, Posting, Creating, Putting, Target, Live
<1>3. CallsApart' /\ InTheTable' /\ LiveFound' /\ UsedMrs'
  BY DEF RefInv, CallsApart, InTheTable, LiveFound, UsedMrs, Live, At
<1>4. WrsInOnePlace'
  BY DEF RefInv, WrsInOnePlace, InList
<1>5. RefsCounted' /\ NoUseAfterFree'
  BY <1>1, SameCounts DEF RefInv, NoUseAfterFree
<1>6. RespKept'
  BY DEF RespKept, RespAt, RespFor, InList
<1> QED
  BY <1>2, <1>3, <1>4, <1>5, <1>6 DEF RefInv

\* Every step keeps the invariant.
LEMMA RefStep ==
  ASSUME KeptApart \subseteq Apart, ConcInv, RefInv, RespKept, [ConcNext]_conc_vars
  PROVE  RefInv' /\ RespKept'
<1>1. ASSUME NEW t \in Threads,
             \/ \E w \in Wrs, m \in Mrs : PostRecv(t, w, m)
             \/ Receive(t)
             \/ \E m \in Mrs : CreateMr(t, m) \/ DestroyMr(t, m)
      PROVE  RefInv' /\ RespKept'
  BY <1>1, PostRecvStep, ReceiveStep, CreateMrStep, DestroyMrStep, RespBegins
<1>2. ASSUME NEW t \in Threads, Step(t) PROVE RefInv' /\ RespKept'
  <2>1. RefInv'
    BY <1>2, GetStep, TakeReferenceStep, PopUnlessHeldStep, LockQueueStep, LoadQueueStep,
       AddTailStep, PopStep, UnlockQueueStep, MapStep, MapStateStep, FindStep,
       PutReferenceStep, CheckStateStep, LookStep, DestroyUnlessBusyStep, MarkDestroyedStep,
       LockToFreeStep, ClearSlotStep, UnlockAndFreeStep, LockTableStep, LoadSlotStep,
       StoreSlotStep, UnlockTableStep DEF Step
  <2> QED
    BY <2>1, <1>2, RespListed, RespSteps
<1> QED
  BY <1>1, <1>2, RefStutter DEF ConcNext

\* With locks that wait and these calls kept apart, the invariant holds throughout.
THEOREM RefInvariant ==
  ASSUME Blocking, KeptApart \subseteq Apart
  PROVE  ConcSpec => [](ConcInv /\ RefInv /\ RespKept)
<1>1. ConcInit => RefInv /\ RespKept
  BY RefInit
<1>2. ConcInv /\ RefInv /\ RespKept /\ [ConcNext]_conc_vars => RefInv' /\ RespKept'
  BY RefStep
<1>3. ConcSpec => []ConcInv
  BY ConcInvariant
<1> QED
  BY <1>1, <1>2, <1>3, PTL DEF ConcSpec

\* roce_resource_alloc never gives two MRs one handle, and an MR that exists is in the
\* table at its own handle, while other threads create, put and destroy.
THEOREM HandlesAlwaysUnique ==
  ASSUME Blocking, KeptApart \subseteq Apart PROVE ConcSpec => []HandlesUnique
<1>1. RefInv => HandlesUnique
  BY DEF RefInv, LiveFound, HandlesUnique, Live
<1> QED
  BY <1>1, RefInvariant, PTL

\* ref of an MR is the number of receive WRs that use it, across the calls of
\* roce_get_mr and roce_put_mr that run at once.
THEOREM ConcRefsAlwaysExact ==
  ASSUME Blocking, KeptApart \subseteq Apart PROVE ConcSpec => []ConcRefsExact
<1>1. RefInv => ConcRefsExact
  BY DEF RefInv, RefsCounted, ConcRefsExact
<1> QED
  BY <1>1, RefInvariant, PTL

\* No thread follows a pointer to an MR that roce_destroy_mr has freed, and none is
\* freed while a receive WR uses it.
THEOREM NeverUsedAfterFree ==
  ASSUME Blocking, KeptApart \subseteq Apart PROVE ConcSpec => []NoUseAfterFree
<1>1. RefInv => NoUseAfterFree
  BY DEF RefInv
<1> QED
  BY <1>1, RefInvariant, PTL

-----------------------------------------------------------------------------
(* An MR that waits to be destroyed is seen. *)

\* A reception that has put the reference of a WR of m.
Sees(t, m) == call[t] = "receive" /\ pc[t] \in Freeing /\ uses[wr[t]] = m

Seen(m) == ref[m] # 0 \/ \E t \in Threads : Sees(t, m)

Pending == \A m \in Mrs : mstate[m] = "destroyed" => Seen(m)

\* A step of a thread leaves the locals of the others.
LEMMA StepOthers ==
  ASSUME ConcShape, NEW t \in Threads, Step(t)
  PROVE  Others(t) /\ uses' = uses
<1>1. ASSUME NEW label, NEW next, Lookup(t, label, next) PROVE Others(t) /\ uses' = uses
  <2>1. uses' = uses
    BY <1>1 DEF Lookup
  <2>2. CASE Return(t)
    BY <2>1, <2>2, ReturnOthers
  <2>3. mr' = [mr EXCEPT ![t] = table[slot[t]]] /\ Goto(t, next) /\ UNCHANGED <<call, wr, slot>>
          => Others(t)
    BY DEF Others, Goto, ConcShape
  <2> QED
    BY <1>1, <2>1, <2>2, <2>3 DEF Lookup, End
<1>2. ASSUME NEW l, Goto(t, l), UNCHANGED <<call, wr, mr, slot>> PROVE Others(t)
  BY <1>2, GotoOthers
<1>3. ASSUME Return(t) PROVE Others(t)
  BY <1>3, ReturnOthers
<1>4. CASE TakeReference(t) \/ LockQueue(t) \/ LoadQueue(t) \/ AddTail(t)
  BY <1>4, <1>2 DEF TakeReference, LockQueue, LoadQueue, AddTail
<1>5. CASE PopUnlessHeld(t) \/ MapState(t)
  BY <1>5, <1>2, <1>3 DEF PopUnlessHeld, MapState
<1>6. CASE Pop(t)
  BY <1>6 DEF Pop, Goto, Others, ConcShape
<1>7. CASE UnlockQueue(t)
  <2>1. uses' = uses
    BY <1>7 DEF UnlockQueue
  <2>2. CASE Return(t)
    BY <2>1, <2>2, <1>3
  <2>3. CASE /\ UNCHANGED <<call, wr, mr>> /\ \E l : Goto(t, l)
             /\ \E x : slot' = [slot EXCEPT ![t] = x]
    BY <2>1, <2>3 DEF Goto, Others, ConcShape
  <2> QED
    BY <1>7, <2>2, <2>3 DEF UnlockQueue, End
<1>8. CASE PutReference(t) \/ DestroyUnlessBusy(t) \/ LockToFree(t) \/ ClearSlot(t)
  BY <1>8, <1>2 DEF PutReference, DestroyUnlessBusy, LockToFree, ClearSlot
<1>9. CASE CheckState(t) \/ MarkDestroyed(t) \/ UnlockAndFree(t) \/ UnlockTable(t)
  BY <1>9, <1>2, <1>3 DEF CheckState, MarkDestroyed, UnlockAndFree, UnlockTable, End
<1>10. CASE LockTable(t) \/ StoreSlot(t)
  BY <1>10, <1>2 DEF LockTable, StoreSlot
<1>11. CASE LoadSlot(t)
  <2>1. /\ uses' = uses /\ UNCHANGED <<call, wr, mr>>
        /\ \E l : Goto(t, l)
        /\ \E x : slot' = [slot EXCEPT ![t] = x]
    BY <1>11 DEF LoadSlot
  <2> QED
    BY <2>1 DEF Goto, Others, ConcShape
<1> QED
  BY <1>1, <1>4, <1>5, <1>6, <1>7, <1>8, <1>9, <1>10, <1>11 DEF Step

\* Only the step of the thread that sees an MR, or the last put, can end that.
LEMMA SeenStays ==
  ASSUME NEW t \in Threads, Others(t), uses' = uses, NEW m \in Mrs, Seen(m),
         ref[m] # 0 => Seen(m)', Sees(t, m) => Seen(m)'
  PROVE  Seen(m)'
<1>1. ASSUME NEW u \in Threads, u # t, Sees(u, m) PROVE Seen(m)'
  BY <1>1 DEF Others, Sees, Seen
<1> QED
  BY <1>1 DEF Seen

\* A thread that goes on still sees it.
LEMMA SeesOn ==
  ASSUME ConcShape, NEW t \in Threads, uses' = uses, NEW m, Sees(t, m), NEW l \in Freeing,
         Goto(t, l), UNCHANGED <<call, wr>>
  PROVE  Seen(m)'
BY DEF Sees, Seen, Goto, ConcShape

LEMMA PendingBegins ==
  ASSUME ConcInv, RefInv, Pending, NEW t \in Threads,
         \/ \E w \in Wrs, m \in Mrs : PostRecv(t, w, m)
         \/ Receive(t)
         \/ \E m \in Mrs : CreateMr(t, m) \/ DestroyMr(t, m)
  PROVE  Pending'
<1> USE ConcurrencyAssumption
<1>1. ConcShape /\ ref' = ref /\ call[t] = None
      /\ \A u \in Threads \ {t} : call'[u] = call[u] /\ pc'[u] = pc[u]
  BY DEF ConcInv, ConcTypeOK, PostRecv, Receive, CreateMr, DestroyMr, mrs, Begin, Goto, ConcShape
<1>2. \A m \in Mrs : mstate'[m] = "destroyed" => mstate[m] = "destroyed"
  BY <1>1 DEF PostRecv, Receive, CreateMr, DestroyMr, mrs, ConcShape
<1>3. \A u \in Threads \ {t} : wr'[u] = wr[u]
  BY <1>1 DEF PostRecv, Receive, CreateMr, DestroyMr, ConcShape
<1>4. \A w \in Wrs : uses[w] # None => uses'[w] = uses[w]
  BY <1>1 DEF PostRecv, Receive, CreateMr, DestroyMr, ConcShape
<1>5. ASSUME NEW m \in Mrs, NEW u \in Threads, Sees(u, m) PROVE Seen(m)'
  <2>1. u # t /\ Placed(u)
    BY <1>1, <1>5 DEF Sees, Calls, RefInv
  <2>2. wr[u] \in Wrs
    BY <1>5, <2>1 DEF Sees, Placed, Freeing
  <2> QED
    BY <1>1, <1>3, <1>4, <1>5, <2>1, <2>2 DEF Sees, Seen
<1> QED
  BY <1>1, <1>2, <1>5 DEF Pending, Seen

LEMMA PendingSteps ==
  ASSUME ConcInv, RefInv, RespKept, Pending, NEW t \in Threads, Step(t)
  PROVE  Pending'
<1> USE ConcurrencyAssumption
<1>1. ConcShape /\ Placed(t) /\ Putting(t) /\ Posting(t) /\ Others(t) /\ uses' = uses
  BY StepOthers DEF ConcInv, ConcTypeOK, RefInv
<1>2. ASSUME ref' = ref, NEW m \in Mrs, Seen(m), Sees(t, m) => Seen(m)' PROVE Seen(m)'
  BY <1>1, <1>2, SeenStays DEF Seen
<1>3. ASSUME NEW m \in Mrs, Sees(t, m), pc[t] # "look" PROVE mr[t] = m
  BY <1>1, <1>3 DEF Sees, Putting, Freeing, Puts, Frees
<1>4. ASSUME mstate' = mstate, ref' = ref, \A m \in Mrs : Sees(t, m) => Seen(m)'
      PROVE  Pending'
  BY <1>2, <1>4 DEF Pending
<1>5. CASE Lookup(t, "get", "ref") \/ Lookup(t, "map", "map_state") \/ Lookup(t, "find", "dec")
  <2>1. mstate' = mstate /\ ref' = ref /\ pc[t] \notin Freeing
    BY <1>5 DEF Lookup, mrs, At, Freeing
  <2> QED
    BY <2>1, <1>4 DEF Sees
<1>6. CASE Lookup(t, "look", "busy")
  <2>1. mstate' = mstate /\ ref' = ref /\ pc[t] = "look"
    BY <1>6 DEF Lookup, mrs, At
  <2>2. slot[t] \in Slots /\ table[slot[t]] \in Mrs
    BY <2>1, <1>1 DEF Putting, Puts, Frees, Target
  <2>3. pc'[t] = "busy" /\ call'[t] = call[t] /\ wr'[t] = wr[t]
    BY <1>6, <2>2, LookupFinds
  <2>4. \A m \in Mrs : Sees(t, m) => Seen(m)'
    BY <2>3, <1>1 DEF Sees, Seen, Freeing
  <2> QED
    BY <2>1, <2>4, <1>4
<1>7. CASE TakeReference(t)
  <2>1. pc[t] = "ref" /\ mstate' = mstate /\ call[t] = "post_recv"
    BY <1>1, <1>7 DEF TakeReference, At, Placed, Puts, Frees, Creates
  <2>2. mr[t] \in Mrs /\ ref' = [ref EXCEPT ![mr[t]] = @ + 1]
    BY <1>1, <1>7, <2>1 DEF TakeReference, Posting, Placed, ConcInv, StepsAgree
  <2>3. ASSUME NEW m \in Mrs, ref[m] # 0 PROVE ref'[m] # 0
    <3>1. ref[m] \in Nat
      <4>1. IsFiniteSet(WrsOf(m)) /\ ref[m] = Cardinality(WrsOf(m))
        BY DEF RefInv, RefsCounted
      <4> QED
        BY <4>1, FS_CardinalityType
    <3> QED
      BY <2>2, <2>3, <3>1, <1>1 DEF ConcShape
  <2>4. \A m \in Mrs : Seen(m) => Seen(m)'
    BY <2>1, <2>3, <1>1, SeenStays DEF Seen, Sees
  <2> QED
    BY <2>1, <2>4 DEF Pending
<1>8. CASE \/ PopUnlessHeld(t) \/ LockQueue(t) \/ LoadQueue(t) \/ AddTail(t) \/ Pop(t)
           \/ UnlockQueue(t) \/ MapState(t) \/ LockTable(t) \/ LoadSlot(t) \/ StoreSlot(t)
  <2>1. mstate' = mstate /\ ref' = ref /\ pc[t] \notin Freeing
    BY <1>8 DEF PopUnlessHeld, LockQueue, LoadQueue, AddTail, Pop, UnlockQueue, MapState,
                LockTable, LoadSlot, StoreSlot, mrs, At, Freeing
  <2> QED
    BY <2>1, <1>4 DEF Sees
<1>9. CASE PutReference(t)
  <2>1. /\ pc[t] = "dec" /\ mstate' = mstate /\ Goto(t, "check") /\ UNCHANGED <<call, wr>>
        /\ ref' = [ref EXCEPT ![mr[t]] = @ - 1]
    BY <1>9 DEF PutReference, At
  <2>2. call[t] = "receive" /\ mr[t] = uses[wr[t]] /\ mr[t] \in Mrs
    BY <2>1, <1>1 DEF Placed, Putting, Posts, Puts, Frees, Creates
  <2>3. Seen(mr[t])'
    <3>1. pc'[t] = "check" /\ call'[t] = "receive" /\ uses'[wr'[t]] = mr[t]
      BY <2>1, <2>2, <1>1 DEF Goto, ConcShape
    <3>2. Sees(t, mr[t])'
      <4>1. mr' = mr
        BY <1>9 DEF PutReference
      <4> QED
        BY <3>1, <4>1 DEF Sees, Freeing
    <3>3. mr' = mr
      BY <1>9 DEF PutReference
    <3> QED
      BY <3>2, <3>3 DEF Seen
  <2>4. ASSUME NEW m \in Mrs, m # mr[t], Seen(m) PROVE Seen(m)'
    <3>1. ref'[m] = ref[m]
      BY <2>1, <2>4, <1>1 DEF ConcShape
    <3> QED
      BY <2>1, <2>4, <3>1, <1>1, SeenStays DEF Seen, Sees, Freeing
  <2> QED
    BY <2>1, <2>3, <2>4, <1>9 DEF Pending, PutReference, Seen, Sees
<1>10. CASE CheckState(t)
  <2>1. mstate' = mstate /\ ref' = ref /\ pc[t] = "check"
    BY <1>10 DEF CheckState, mrs, At
  <2>2. ASSUME NEW m \in Mrs, mstate[m] = "destroyed", Sees(t, m) PROVE Seen(m)'
    <3>0. mr[t] = m
      BY <2>1, <2>2, <1>3
    <3>1. Goto(t, "look") /\ UNCHANGED <<call, wr>>
      BY <3>0, <2>2, <1>10 DEF CheckState
    <3> QED
      BY <3>1, <2>2, <1>1, SeesOn DEF Freeing
  <2> QED
    BY <2>1, <2>2, <1>2 DEF Pending
<1>11. CASE DestroyUnlessBusy(t) \/ LockToFree(t) \/ ClearSlot(t)
  <2>1. PICK l \in {"mark", "f_lock", "f_clear", "f_unlock"} :
           Goto(t, l) /\ UNCHANGED <<call, wr, mstate, ref>>
    BY <1>11 DEF DestroyUnlessBusy, LockToFree, ClearSlot, mrs
  <2>2. \A m \in Mrs : Sees(t, m) => Seen(m)'
    BY <2>1, <1>1, SeesOn DEF Freeing
  <2> QED
    BY <2>1, <2>2, <1>4
<1>12. CASE MarkDestroyed(t)
  <2>1. /\ pc[t] = "mark" /\ ref' = ref /\ mstate' = [mstate EXCEPT ![mr[t]] = "destroyed"]
    BY <1>12 DEF MarkDestroyed, At
  <2>2. mr[t] = Target(t) /\ ref[mr[t]] # 0
    BY <2>1, <1>1 DEF Putting, Puts, Frees
  <2>3. ASSUME NEW m \in Mrs, m # mr[t], Seen(m) PROVE Seen(m)'
    <3>1. ~Sees(t, m)
      BY <2>1, <2>3, <1>3
    <3> QED
      BY <2>1, <2>3, <3>1, <1>2
  <2>4. \A m \in Mrs : m # mr[t] => mstate'[m] = mstate[m]
    BY <2>1, <1>1 DEF ConcShape
  <2>5. ASSUME NEW m \in Mrs, m = mr[t] PROVE Seen(m)'
    BY <2>1, <2>2, <2>5 DEF Seen
  <2> QED
    BY <2>3, <2>4, <2>5 DEF Pending
<1>13. CASE UnlockAndFree(t)
  <2>1. /\ pc[t] = "f_unlock" /\ ref' = ref /\ mstate' = [mstate EXCEPT ![mr[t]] = "freed"]
    BY <1>13 DEF UnlockAndFree, At
  <2>2. ASSUME NEW m \in Mrs, mstate'[m] = "destroyed"
        PROVE  mstate[m] = "destroyed" /\ m # mr[t]
    BY <2>1, <2>2, <1>1 DEF ConcShape
  <2>3. \A m \in Mrs : m # mr[t] => ~Sees(t, m)
    BY <2>1, <1>3
  <2>4. \A m \in Mrs : m # mr[t] /\ Seen(m) => Seen(m)'
    BY <2>1, <2>3, <1>2
  <2> QED
    BY <2>2, <2>4 DEF Pending
<1>14. CASE UnlockTable(t)
  <2>1. /\ pc[t] = "t_unlock" /\ ref' = ref
        /\ \E s \in {"freed", "valid"} : mstate' = [mstate EXCEPT ![mr[t]] = s]
    BY <1>14 DEF UnlockTable, At
  <2>2. \A m \in Mrs : mstate'[m] = "destroyed" => mstate[m] = "destroyed"
    BY <2>1, <1>1 DEF ConcShape
  <2> QED
    BY <2>1, <2>2, <1>2 DEF Pending, Sees, Freeing
<1> QED
  BY <1>5, <1>6, <1>7, <1>8, <1>9, <1>10, <1>11, <1>12, <1>13, <1>14 DEF Step

\* "Destroy later" is never forgotten: an MR that roce_destroy_mr left for later has a
\* WR that uses it, or a reception that has put the last reference and will free it.
THEOREM PendingAlwaysSeen ==
  ASSUME Blocking, KeptApart \subseteq Apart PROVE ConcSpec => []PendingIsSeen
<1>1. ConcInit => Pending
  BY DEF ConcInit, Pending
<1>2. ConcInv /\ RefInv /\ RespKept /\ Pending /\ [ConcNext]_conc_vars => Pending'
  <2>1. Pending /\ UNCHANGED conc_vars => Pending'
    BY DEF conc_vars, locals, mrs, Pending, Seen, Sees
  <2> QED
    BY <2>1, PendingBegins, PendingSteps DEF ConcNext
<1>3. RefInv /\ Pending => PendingIsSeen
  <2>1. ASSUME RefInv, NEW m \in Mrs, WrsOf(m) = {} PROVE ref[m] = 0
    BY <2>1, FS_EmptySet DEF RefInv, RefsCounted
  <2> QED
    BY <2>1 DEF Pending, PendingIsSeen, Seen, Sees
<1> QED
  BY <1>1, <1>2, <1>3, RefInvariant, PTL DEF ConcSpec

=============================================================================
