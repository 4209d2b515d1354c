-------------------------- MODULE ConcurrencyProofs --------------------------
(***************************************************************************)
(* What the locks guarantee for every number of threads, WRs and MRs, and  *)
(* whatever calls the application lets overlap: a lock excludes, and no    *)
(* receive WR is lost, doubled or overtaken.                               *)
(***************************************************************************)
EXTENDS Concurrency, SequenceTheorems, TLAPS

-----------------------------------------------------------------------------
(***************************************************************************)
(* RecvWrsInOrder is not inductive: that AddTail and Pop change the list   *)
(* as it is needs the loaded list to be the list still, which the lock     *)
(* gives.                                                                  *)
(***************************************************************************)
Queueing == {"get", "ref", "pop", "q_lock", "q_load", "q_store"}

StepsAgree ==
  /\ \A t \in Threads :
       /\ pc[t] = "q_store" => list[t] = rq /\ (call[t] = "receive" => rq # <<>>)
       /\ pc[t] \in Queueing => \/ call[t] = "post_recv" /\ wr[t] \in Wrs
                                \/ call[t] = "receive" /\ pc[t] \notin {"get", "ref"}
       /\ wr[t] # None => uses[wr[t]] \in Mrs
  /\ \A i \in 1 .. Len(rq) : uses[rq[i]] \in Mrs
  /\ resp # None => uses[resp] \in Mrs

ConcInv == ConcTypeOK /\ LocksExclude /\ StepsAgree /\ RecvWrsInOrder

-----------------------------------------------------------------------------
\* A WR added to a list is added to what the list ends.
LEMMA AppendConcat ==
  ASSUME NEW s \in Seq(Wrs), NEW u \in Seq(Wrs), NEW e \in Wrs
  PROVE  Append(s \o u, e) = s \o Append(u, e)
OBVIOUS

\* The first WR of a list moves to the end of the list before it.
LEMMA HeadMoves ==
  ASSUME NEW s \in Seq(Wrs), NEW u \in Seq(Wrs), u # <<>>
  PROVE  Append(s, Head(u)) \o Tail(u) = s \o u
OBVIOUS

LocalsShape ==
  /\ call \in [Threads -> Calls \cup {None}] /\ pc \in [Threads -> Labels]
  /\ wr \in [Threads -> Wrs \cup {None}] /\ mr \in [Threads -> Mrs \cup {None}]
  /\ slot \in [Threads -> Slots \cup {None}] /\ list \in [Threads -> Seq(Wrs)]
  /\ resp \in Wrs \cup {None}

\* A thread that returns leaves its locals typed.
LEMMA ReturnShape ==
  ASSUME ConcShape, NEW t \in Threads, Return(t), resp' \in {resp, None}
  PROVE  LocalsShape'
<1>1. <<>> \in Seq(Wrs) /\ "start" \in Labels
  BY DEF Labels
<1>2. LocalsShape
  BY DEF ConcShape, LocalsShape
<1> QED
  BY <1>1, <1>2 DEF LocalsShape, Return, Goto

\* So does a thread that goes on.
LEMMA GotoShape ==
  ASSUME ConcShape, NEW t \in Threads, NEW l \in Labels, Goto(t, l),
         UNCHANGED <<call, wr, mr, slot, list, resp>>
  PROVE  LocalsShape'
<1>1. LocalsShape
  BY DEF ConcShape, LocalsShape
<1> QED
  BY <1>1 DEF LocalsShape, Goto

\* With its locals typed, a step that changes no more than these keeps the types.
LEMMA LocalsSuffice ==
  ASSUME ConcShape, LocalsShape', held' \in [{"rq", "table"} -> BOOLEAN],
         uaf' \in BOOLEAN, UNCHANGED <<rq, mrs, uses, history>>
  PROVE  ConcShape'
BY DEF ConcShape, LocalsShape, mrs, history

\* The same when a count changes.
LEMMA CountsSuffice ==
  ASSUME ConcShape, LocalsShape', ref' \in [Mrs -> Int], uaf' \in BOOLEAN,
         UNCHANGED <<held, rq, table, mstate, handle, uses, history>>
  PROVE  ConcShape'
<1>1. /\ held' \in [{"rq", "table"} -> BOOLEAN] /\ rq' \in Seq(Wrs)
      /\ posted' \in Seq(Wrs) /\ taken' \in Seq(Wrs)
  BY DEF ConcShape, history
<1>2. /\ table' \in [Slots -> Mrs \cup {None}] /\ handle' \in [Mrs -> Slots \cup {None}]
      /\ uses' \in [Wrs -> Mrs \cup {None}]
      /\ mstate' \in [Mrs -> {"none", "new", "valid", "destroyed", "freed"}]
  BY DEF ConcShape
<1> QED
  BY <1>1, <1>2 DEF ConcShape, LocalsShape

\* Looking a handle up yields an MR of the table, or ends the call.
LEMMA LookupShape ==
  ASSUME ConcShape, NEW t \in Threads, NEW label, NEW next \in Labels,
         Lookup(t, label, next)
  PROVE  ConcShape'
<1>1. LocalsShape'
  <2>1. CASE slot[t] \in Slots /\ table[slot[t]] # None
    <3>1. table[slot[t]] \in Mrs
      BY <2>1 DEF ConcShape
    <3>2. /\ mr' = [mr EXCEPT ![t] = table[slot[t]]] /\ pc' = [pc EXCEPT ![t] = next]
          /\ UNCHANGED <<call, wr, slot, list, resp>>
      BY <2>1 DEF Lookup, Goto
    <3>3. LocalsShape
      BY DEF ConcShape, LocalsShape
    <3> QED
      BY <3>1, <3>2, <3>3 DEF LocalsShape
  <2>2. CASE ~(slot[t] \in Slots /\ table[slot[t]] # None)
    <3>1. Return(t) /\ resp' \in {resp, None}
      BY <2>2 DEF Lookup, End
    <3> QED
      BY <3>1, ReturnShape
  <2> QED
    BY <2>1, <2>2
<1>2. /\ held' = [held EXCEPT !["table"] = FALSE] /\ uaf' = uaf
      /\ UNCHANGED <<rq, mrs, uses, history>>
  BY DEF Lookup, Release
<1>3. held' \in [{"rq", "table"} -> BOOLEAN] /\ uaf' \in BOOLEAN
  BY <1>2 DEF ConcShape
<1> QED
  BY <1>1, <1>2, <1>3, LocalsSuffice

\* A count that goes up or down stays a number.
LEMMA CountShape ==
  ASSUME ConcShape, NEW m, NEW k, m \in Mrs => k \in Int, ref' = [ref EXCEPT ![m] = k]
  PROVE  ref' \in [Mrs -> Int]
BY DEF ConcShape

\* Every step keeps the types.
LEMMA ShapeStep ==
  ASSUME ConcInv, Blocking, [ConcNext]_conc_vars
  PROVE  ConcShape'
<1> USE ConcurrencyAssumption
<1>1. ASSUME NEW t \in Threads, NEW w \in Wrs, NEW m \in Mrs, PostRecv(t, w, m)
      PROVE ConcShape'
  BY <1>1 DEF PostRecv, ConcInv, ConcTypeOK, ConcShape, Labels, Calls, Goto, Begin, mrs,
     history
<1>2. ASSUME NEW t \in Threads, Receive(t) PROVE ConcShape'
  BY <1>2 DEF Receive, ConcInv, ConcTypeOK, ConcShape, Labels, Calls, Goto, Begin, mrs,
     history
<1>3. ASSUME NEW t \in Threads, NEW m \in Mrs, CreateMr(t, m) PROVE ConcShape'
  BY <1>3 DEF CreateMr, ConcInv, ConcTypeOK, ConcShape, Labels, Calls, Goto, Begin, history
<1>4. ASSUME NEW t \in Threads, NEW m \in Mrs, DestroyMr(t, m) PROVE ConcShape'
  BY <1>4 DEF DestroyMr, ConcInv, ConcTypeOK, ConcShape, Labels, Calls, Goto, Begin, mrs,
     history
<1>5. ASSUME NEW t \in Threads, Lookup(t, "get", "ref") PROVE ConcShape'
  <2>1. ConcShape /\ "ref" \in Labels
    BY DEF ConcInv, ConcTypeOK, Labels
  <2> QED
    BY <1>5, <2>1, LookupShape
<1>6. ASSUME NEW t \in Threads, TakeReference(t) PROVE ConcShape'
  <2>1. /\ Goto(t, "q_lock") /\ ref' = [ref EXCEPT ![mr[t]] = ref[mr[t]] + 1]
        /\ Follow(mr[t])
        /\ UNCHANGED <<call, wr, mr, slot, list, held, rq, resp, table, mstate, handle, uses,
                       history>>
    BY <1>6 DEF TakeReference
  <2>2. ConcShape /\ "q_lock" \in Labels
    BY DEF ConcInv, ConcTypeOK, Labels
  <2>3. LocalsShape' /\ ref' \in [Mrs -> Int]
    <3>1. LocalsShape'
      BY <2>1, <2>2, GotoShape
    <3>2. mr[t] \in Mrs => ref[mr[t]] + 1 \in Int
      BY <2>2 DEF ConcShape
    <3>3. ref' \in [Mrs -> Int]
      BY <2>1, <2>2, <3>2, CountShape
    <3> QED
      BY <3>1, <3>3
  <2>4. uaf' \in BOOLEAN
    BY <2>1, <2>2 DEF Follow, ConcShape
  <2> QED
    BY <2>1, <2>2, <2>3, <2>4, CountsSuffice
<1>7. ASSUME NEW t \in Threads, LockQueue(t) PROVE ConcShape'
  BY <1>7 DEF LockQueue, ConcInv, ConcTypeOK, ConcShape, Labels, Goto, Acquire, mrs, history
<1>8. ASSUME NEW t \in Threads, LoadQueue(t) PROVE ConcShape'
  BY <1>8 DEF LoadQueue, ConcInv, ConcTypeOK, ConcShape, Labels, Goto, mrs, history
<1>9. ASSUME NEW t \in Threads, AddTail(t) PROVE ConcShape'
  BY <1>9 DEF AddTail, ConcInv, ConcTypeOK, ConcShape, StepsAgree, Queueing, Labels, At,
     Goto, mrs
<1>10. ASSUME NEW t \in Threads, Pop(t) PROVE ConcShape'
  BY <1>10 DEF Pop, ConcInv, ConcTypeOK, ConcShape, StepsAgree, Queueing, Labels, At,
     Goto, mrs
<1>11. ASSUME NEW t \in Threads, UnlockQueue(t) PROVE ConcShape'
  <2>1. ConcShape
    BY DEF ConcInv, ConcTypeOK
  <2>2. LocalsShape'
    <3>1. CASE call[t] = "receive" /\ wr[t] # None
      <4>1. uses[wr[t]] \in Mrs
        BY <3>1 DEF ConcInv, StepsAgree
      <4>2. handle[uses[wr[t]]] \in Slots \cup {None} /\ wr[t] \in Wrs
        BY <3>1, <4>1, <2>1 DEF ConcShape
      <4>3. /\ slot' = [slot EXCEPT ![t] = handle[uses[wr[t]]]]
            /\ \E l \in {"map", "find"} : pc' = [pc EXCEPT ![t] = l]
            /\ resp' \in {resp, wr[t]} /\ UNCHANGED <<call, wr, mr, list>>
        BY <1>11, <3>1 DEF UnlockQueue, Goto
      <4>4. LocalsShape /\ {"map", "find"} \subseteq Labels
        BY <2>1 DEF ConcShape, LocalsShape, Labels
      <4> QED
        BY <4>2, <4>3, <4>4 DEF LocalsShape
    <3>2. CASE ~(call[t] = "receive" /\ wr[t] # None)
      <4>1. Return(t) /\ resp' \in {resp, None}
        BY <1>11, <3>2 DEF UnlockQueue, End
      <4> QED
        BY <2>1, <4>1, ReturnShape
    <3> QED
      BY <3>1, <3>2
  <2>3. /\ held' = [held EXCEPT !["rq"] = FALSE] /\ uaf' = uaf
        /\ UNCHANGED <<rq, mrs, uses, history>>
    BY <1>11 DEF UnlockQueue, Release
  <2>4. held' \in [{"rq", "table"} -> BOOLEAN] /\ uaf' \in BOOLEAN
    BY <2>1, <2>3 DEF ConcShape
  <2> QED
    BY <2>1, <2>2, <2>3, <2>4, LocalsSuffice
<1>12. ASSUME NEW t \in Threads, Lookup(t, "find", "dec") PROVE ConcShape'
  <2>1. ConcShape /\ "dec" \in Labels
    BY DEF ConcInv, ConcTypeOK, Labels
  <2> QED
    BY <1>12, <2>1, LookupShape
<1>13. ASSUME NEW t \in Threads, PutReference(t) PROVE ConcShape'
  <2>1. /\ Goto(t, "check") /\ ref' = [ref EXCEPT ![mr[t]] = ref[mr[t]] - 1]
        /\ Follow(mr[t])
        /\ UNCHANGED <<call, wr, mr, slot, list, held, rq, resp, table, mstate, handle, uses,
                       history>>
    BY <1>13 DEF PutReference
  <2>2. ConcShape /\ "check" \in Labels
    BY DEF ConcInv, ConcTypeOK, Labels
  <2>3. LocalsShape' /\ ref' \in [Mrs -> Int]
    <3>1. LocalsShape'
      BY <2>1, <2>2, GotoShape
    <3>2. mr[t] \in Mrs => ref[mr[t]] - 1 \in Int
      BY <2>2 DEF ConcShape
    <3>3. ref' \in [Mrs -> Int]
      BY <2>1, <2>2, <3>2, CountShape
    <3> QED
      BY <3>1, <3>3
  <2>4. uaf' \in BOOLEAN
    BY <2>1, <2>2 DEF Follow, ConcShape
  <2> QED
    BY <2>1, <2>2, <2>3, <2>4, CountsSuffice
<1>14. ASSUME NEW t \in Threads, CheckState(t) PROVE ConcShape'
  <2>1. ConcShape /\ "look" \in Labels
    BY DEF ConcInv, ConcTypeOK, Labels
  <2>2. LocalsShape'
    <3>1. \/ Goto(t, "look") /\ UNCHANGED <<call, wr, mr, slot, list, resp>>
          \/ Return(t) /\ resp' \in {resp, None}
      BY <1>14 DEF CheckState, End
    <3> QED
      BY <2>1, <3>1, GotoShape, ReturnShape
  <2>3. Follow(mr[t]) /\ UNCHANGED <<held, rq, mrs, uses, history>>
    BY <1>14 DEF CheckState
  <2>4. held' \in [{"rq", "table"} -> BOOLEAN] /\ uaf' \in BOOLEAN
    BY <2>1, <2>3 DEF ConcShape, Follow
  <2> QED
    BY <2>1, <2>2, <2>3, <2>4, LocalsSuffice
<1>15. ASSUME NEW t \in Threads, Lookup(t, "look", "busy") PROVE ConcShape'
  <2>1. ConcShape /\ "busy" \in Labels
    BY DEF ConcInv, ConcTypeOK, Labels
  <2> QED
    BY <1>15, <2>1, LookupShape
<1>16. ASSUME NEW t \in Threads, DestroyUnlessBusy(t) PROVE ConcShape'
  <2>1. ConcShape /\ {"mark", "f_lock"} \subseteq Labels
    BY DEF ConcInv, ConcTypeOK, Labels
  <2>2. /\ \E l \in {"mark", "f_lock"} : Goto(t, l)
        /\ UNCHANGED <<call, wr, mr, slot, list, resp>>
    BY <1>16 DEF DestroyUnlessBusy
  <2>3. LocalsShape'
    BY <2>1, <2>2, GotoShape
  <2>4. Follow(mr[t]) /\ UNCHANGED <<held, rq, mrs, uses, history>>
    BY <1>16 DEF DestroyUnlessBusy
  <2>5. held' \in [{"rq", "table"} -> BOOLEAN] /\ uaf' \in BOOLEAN
    BY <2>1, <2>4 DEF ConcShape, Follow
  <2> QED
    BY <2>1, <2>3, <2>4, <2>5, LocalsSuffice
<1>17. ASSUME NEW t \in Threads, LockToFree(t) PROVE ConcShape'
  BY <1>17 DEF LockToFree, ConcInv, ConcTypeOK, ConcShape, Labels, Goto, Acquire, mrs,
     history
<1>18. ASSUME NEW t \in Threads, ClearSlot(t) PROVE ConcShape'
  BY <1>18 DEF ClearSlot, ConcInv, ConcTypeOK, ConcShape, Labels, Goto, history
<1>19. ASSUME NEW t \in Threads, UnlockAndFree(t) PROVE ConcShape'
  <2>1. ConcShape
    BY DEF ConcInv, ConcTypeOK
  <2>2. /\ Return(t) /\ resp' \in {resp, None}
        /\ held' = [held EXCEPT !["table"] = FALSE]
        /\ mstate' = [mstate EXCEPT ![mr[t]] = "freed"]
        /\ UNCHANGED <<rq, table, ref, handle, uses, history, uaf>>
    BY <1>19 DEF UnlockAndFree, End, Release
  <2>3. LocalsShape'
    BY <2>1, <2>2, ReturnShape
  <2>4. /\ mstate' \in [Mrs -> {"none", "new", "valid", "destroyed", "freed"}]
        /\ held' \in [{"rq", "table"} -> BOOLEAN]
    BY <2>1, <2>2 DEF ConcShape
  <2> QED
    BY <2>1, <2>2, <2>3, <2>4 DEF ConcShape, LocalsShape, history
<1>20. ASSUME NEW t \in Threads, LockTable(t) PROVE ConcShape'
  BY <1>20 DEF LockTable, ConcInv, ConcTypeOK, ConcShape, Labels, Goto, Acquire, mrs,
     history
<1>21. ASSUME NEW t \in Threads, LoadSlot(t) PROVE ConcShape'
  <2>1. PICK s \in Slots \cup {None} : slot' = [slot EXCEPT ![t] = s]
    BY <1>21 DEF LoadSlot
  <2>2. slot' \in [Threads -> Slots \cup {None}]
    BY <2>1 DEF ConcInv, ConcTypeOK, ConcShape
  <2>3. pc' \in [Threads -> Labels]
    <3>1. \E l \in {"t_unlock", "t_store"} : pc' = [pc EXCEPT ![t] = l]
      BY <1>21 DEF LoadSlot, Goto
    <3> QED
      BY <3>1 DEF ConcInv, ConcTypeOK, ConcShape, Labels
  <2>4. LocalsShape'
    BY <1>21, <2>2, <2>3 DEF LoadSlot, ConcInv, ConcTypeOK, ConcShape, LocalsShape
  <2>5. /\ held' \in [{"rq", "table"} -> BOOLEAN] /\ uaf' \in BOOLEAN
        /\ UNCHANGED <<rq, mrs, uses, history>>
    BY <1>21 DEF LoadSlot, ConcInv, ConcTypeOK, ConcShape
  <2> QED
    BY <2>4, <2>5, LocalsSuffice DEF ConcInv, ConcTypeOK
<1>22. ASSUME NEW t \in Threads, StoreSlot(t) PROVE ConcShape'
  BY <1>22 DEF StoreSlot, ConcInv, ConcTypeOK, ConcShape, Labels, Goto, history
<1>23. ASSUME NEW t \in Threads, UnlockTable(t) PROVE ConcShape'
  <2>1. ConcShape
    BY DEF ConcInv, ConcTypeOK
  <2>2. /\ Return(t) /\ held' = [held EXCEPT !["table"] = FALSE]
        /\ mstate' = [mstate EXCEPT ![mr[t]] = IF slot[t] = None THEN "freed" ELSE "valid"]
        /\ UNCHANGED <<rq, resp, table, ref, handle, uses, history, uaf>>
    BY <1>23 DEF UnlockTable, Release
  <2>3. LocalsShape'
    BY <2>1, <2>2, ReturnShape
  <2>4. /\ mstate' \in [Mrs -> {"none", "new", "valid", "destroyed", "freed"}]
        /\ held' \in [{"rq", "table"} -> BOOLEAN]
    BY <2>1, <2>2 DEF ConcShape
  <2> QED
    BY <2>1, <2>2, <2>3, <2>4 DEF ConcShape, LocalsShape, history
<1>24. ASSUME NEW t \in Threads, PopUnlessHeld(t) PROVE ConcShape'
  <2>1. ConcShape /\ "q_lock" \in Labels
    BY DEF ConcInv, ConcTypeOK, Labels
  <2>2. /\ resp' = resp
        /\ \/ Return(t)
           \/ Goto(t, "q_lock") /\ UNCHANGED <<call, wr, mr, slot, list>>
    BY <1>24 DEF PopUnlessHeld
  <2>3. LocalsShape'
    BY <2>1, <2>2, GotoShape, ReturnShape
  <2>4. UNCHANGED <<held, rq, mrs, uses, history, uaf>>
    BY <1>24 DEF PopUnlessHeld
  <2>5. held' \in [{"rq", "table"} -> BOOLEAN] /\ uaf' \in BOOLEAN
    BY <2>1, <2>4 DEF ConcShape
  <2> QED
    BY <2>1, <2>3, <2>4, <2>5, LocalsSuffice
<1>25. ASSUME NEW t \in Threads, Lookup(t, "map", "map_state") PROVE ConcShape'
  <2>1. ConcShape /\ "map_state" \in Labels
    BY DEF ConcInv, ConcTypeOK, Labels
  <2> QED
    BY <1>25, <2>1, LookupShape
<1>26. ASSUME NEW t \in Threads, MapState(t) PROVE ConcShape'
  <2>1. ConcShape /\ "find" \in Labels
    BY DEF ConcInv, ConcTypeOK, Labels
  <2>2. /\ resp' = resp
        /\ \/ Return(t)
           \/ Goto(t, "find") /\ UNCHANGED <<call, wr, mr, slot, list>>
    BY <1>26 DEF MapState
  <2>3. LocalsShape'
    BY <2>1, <2>2, GotoShape, ReturnShape
  <2>4. Follow(mr[t]) /\ UNCHANGED <<held, rq, mrs, uses, history>>
    BY <1>26 DEF MapState
  <2>5. held' \in [{"rq", "table"} -> BOOLEAN] /\ uaf' \in BOOLEAN
    BY <2>1, <2>4 DEF ConcShape, Follow
  <2> QED
    BY <2>1, <2>3, <2>4, <2>5, LocalsSuffice
<1>27. ASSUME NEW t \in Threads, MarkDestroyed(t) PROVE ConcShape'
  <2>1. ConcShape
    BY DEF ConcInv, ConcTypeOK
  <2>2. /\ Return(t) /\ resp' \in {resp, None} /\ Follow(mr[t])
        /\ mstate' = [mstate EXCEPT ![mr[t]] = "destroyed"]
        /\ UNCHANGED <<held, rq, table, ref, handle, uses, history>>
    BY <1>27 DEF MarkDestroyed, End
  <2>3. LocalsShape'
    BY <2>1, <2>2, ReturnShape
  <2>4. /\ mstate' \in [Mrs -> {"none", "new", "valid", "destroyed", "freed"}]
        /\ uaf' \in BOOLEAN
    BY <2>1, <2>2 DEF ConcShape, Follow
  <2> QED
    BY <2>1, <2>2, <2>3, <2>4 DEF ConcShape, LocalsShape, history
<1>28. CASE UNCHANGED conc_vars
  BY <1>28 DEF conc_vars, ConcInv, ConcTypeOK, ConcShape, Labels, locals, mrs, history
<1> QED
  BY <1>1, <1>2, <1>3, <1>4, <1>5, <1>6, <1>7, <1>8, <1>9, <1>10, <1>11, <1>12, <1>13,
     <1>14, <1>15, <1>16, <1>17, <1>18, <1>19, <1>20, <1>21, <1>22, <1>23, <1>24, <1>25, <1>26,
     <1>27, <1>28 DEF ConcNext, Step

\* A lock is released only by the thread inside it.
LEMMA HoldsStep ==
  ASSUME ConcInv, Blocking, [ConcNext]_conc_vars
  PROVE  InsideHolds'
<1> USE ConcurrencyAssumption
<1>1. ASSUME NEW t \in Threads, NEW w \in Wrs, NEW m \in Mrs, PostRecv(t, w, m)
      PROVE InsideHolds'
  BY <1>1 DEF PostRecv, ConcInv, ConcTypeOK, ConcShape, InsideHolds, LocksExclude,
     InQueue, InTable, Goto, Begin, mrs, history
<1>2. ASSUME NEW t \in Threads, Receive(t) PROVE InsideHolds'
  BY <1>2 DEF Receive, ConcInv, ConcTypeOK, ConcShape, InsideHolds, LocksExclude,
     InQueue, InTable, Goto, Begin, mrs, history
<1>3. ASSUME NEW t \in Threads, NEW m \in Mrs, CreateMr(t, m) PROVE InsideHolds'
  BY <1>3 DEF CreateMr, ConcInv, ConcTypeOK, ConcShape, InsideHolds, LocksExclude,
     InQueue, InTable, Goto, Begin, history
<1>4. ASSUME NEW t \in Threads, NEW m \in Mrs, DestroyMr(t, m) PROVE InsideHolds'
  BY <1>4 DEF DestroyMr, ConcInv, ConcTypeOK, ConcShape, InsideHolds, LocksExclude,
     InQueue, InTable, Goto, Begin, mrs, history
<1>5. ASSUME NEW t \in Threads, Lookup(t, "get", "ref") PROVE InsideHolds'
  BY <1>5 DEF Lookup, ConcInv, ConcTypeOK, ConcShape, InsideHolds, LocksExclude, InQueue,
     InTable, At, Goto, Return, End, Release, mrs, history
<1>6. ASSUME NEW t \in Threads, TakeReference(t) PROVE InsideHolds'
  BY <1>6 DEF TakeReference, ConcInv, ConcTypeOK, ConcShape, InsideHolds, LocksExclude,
     InQueue, InTable, At, Goto, Follow, history
<1>7. ASSUME NEW t \in Threads, LockQueue(t) PROVE InsideHolds'
  BY <1>7 DEF LockQueue, ConcInv, ConcTypeOK, ConcShape, InsideHolds, LocksExclude,
     InQueue, InTable, At, Goto, Acquire, mrs, history
<1>8. ASSUME NEW t \in Threads, LoadQueue(t) PROVE InsideHolds'
  BY <1>8 DEF LoadQueue, ConcInv, ConcTypeOK, ConcShape, InsideHolds, LocksExclude,
     InQueue, InTable, At, Goto, mrs, history
<1>9. ASSUME NEW t \in Threads, AddTail(t) PROVE InsideHolds'
  BY <1>9 DEF AddTail, ConcInv, ConcTypeOK, ConcShape, InsideHolds, LocksExclude,
     InQueue, InTable, At, Goto, mrs
<1>10. ASSUME NEW t \in Threads, Pop(t) PROVE InsideHolds'
  BY <1>10 DEF Pop, ConcInv, ConcTypeOK, ConcShape, InsideHolds, LocksExclude, InQueue,
     InTable, At, Goto, mrs
<1>11. ASSUME NEW t \in Threads, UnlockQueue(t) PROVE InsideHolds'
  BY <1>11 DEF UnlockQueue, ConcInv, ConcTypeOK, ConcShape, InsideHolds, LocksExclude,
     InQueue, InTable, At, Goto, Return, End, Release, mrs, history
<1>12. ASSUME NEW t \in Threads, Lookup(t, "find", "dec") PROVE InsideHolds'
  BY <1>12 DEF Lookup, ConcInv, ConcTypeOK, ConcShape, InsideHolds, LocksExclude,
     InQueue, InTable, At, Goto, Return, End, Release, mrs, history
<1>13. ASSUME NEW t \in Threads, PutReference(t) PROVE InsideHolds'
  BY <1>13 DEF PutReference, ConcInv, ConcTypeOK, ConcShape, InsideHolds, LocksExclude,
     InQueue, InTable, At, Goto, Follow, history
<1>14. ASSUME NEW t \in Threads, CheckState(t) PROVE InsideHolds'
  BY <1>14 DEF CheckState, ConcInv, ConcTypeOK, ConcShape, InsideHolds, LocksExclude,
     InQueue, InTable, At, Goto, Return, End, Follow, mrs, history
<1>15. ASSUME NEW t \in Threads, Lookup(t, "look", "busy") PROVE InsideHolds'
  BY <1>15 DEF Lookup, ConcInv, ConcTypeOK, ConcShape, InsideHolds, LocksExclude,
     InQueue, InTable, At, Goto, Return, End, Release, mrs, history
<1>16. ASSUME NEW t \in Threads, DestroyUnlessBusy(t) PROVE InsideHolds'
  BY <1>16 DEF DestroyUnlessBusy, ConcInv, ConcTypeOK, ConcShape, InsideHolds,
     LocksExclude, InQueue, InTable, At, Goto, Return, End, Follow, history
<1>17. ASSUME NEW t \in Threads, LockToFree(t) PROVE InsideHolds'
  BY <1>17 DEF LockToFree, ConcInv, ConcTypeOK, ConcShape, InsideHolds, LocksExclude,
     InQueue, InTable, At, Goto, Acquire, mrs, history
<1>18. ASSUME NEW t \in Threads, ClearSlot(t) PROVE InsideHolds'
  BY <1>18 DEF ClearSlot, ConcInv, ConcTypeOK, ConcShape, InsideHolds, LocksExclude,
     InQueue, InTable, At, Goto, history
<1>19. ASSUME NEW t \in Threads, UnlockAndFree(t) PROVE InsideHolds'
  BY <1>19 DEF UnlockAndFree, ConcInv, ConcTypeOK, ConcShape, InsideHolds, LocksExclude,
     InQueue, InTable, At, Goto, Return, End, Release, history
<1>20. ASSUME NEW t \in Threads, LockTable(t) PROVE InsideHolds'
  BY <1>20 DEF LockTable, ConcInv, ConcTypeOK, ConcShape, InsideHolds, LocksExclude,
     InQueue, InTable, At, Goto, Acquire, mrs, history
<1>21. ASSUME NEW t \in Threads, LoadSlot(t) PROVE InsideHolds'
  BY <1>21 DEF LoadSlot, ConcInv, ConcTypeOK, ConcShape, InsideHolds, LocksExclude,
     InQueue, InTable, At, Goto, mrs, history
<1>22. ASSUME NEW t \in Threads, StoreSlot(t) PROVE InsideHolds'
  BY <1>22 DEF StoreSlot, ConcInv, ConcTypeOK, ConcShape, InsideHolds, LocksExclude,
     InQueue, InTable, At, Goto, history
<1>23. ASSUME NEW t \in Threads, UnlockTable(t) PROVE InsideHolds'
  BY <1>23 DEF UnlockTable, ConcInv, ConcTypeOK, ConcShape, InsideHolds, LocksExclude,
     InQueue, InTable, At, Goto, Return, End, Release, history
<1>24. ASSUME NEW t \in Threads, PopUnlessHeld(t) PROVE InsideHolds'
  BY <1>24 DEF PopUnlessHeld, ConcInv, ConcTypeOK, ConcShape, InsideHolds, LocksExclude,
     InQueue, InTable, At, Goto, Return, End, mrs, history
<1>25. ASSUME NEW t \in Threads, Lookup(t, "map", "map_state") PROVE InsideHolds'
  BY <1>25 DEF Lookup, ConcInv, ConcTypeOK, ConcShape, InsideHolds, LocksExclude,
     InQueue, InTable, At, Goto, Return, End, Release, mrs, history
<1>26. ASSUME NEW t \in Threads, MapState(t) PROVE InsideHolds'
  BY <1>26 DEF MapState, ConcInv, ConcTypeOK, ConcShape, InsideHolds, LocksExclude,
     InQueue, InTable, At, Goto, Return, End, Follow, mrs, history
<1>27. ASSUME NEW t \in Threads, MarkDestroyed(t) PROVE InsideHolds'
  BY <1>27 DEF MarkDestroyed, ConcInv, ConcTypeOK, ConcShape, InsideHolds, LocksExclude,
     InQueue, InTable, At, Goto, Return, End, Follow, history
<1>28. CASE UNCHANGED conc_vars
  BY <1>28 DEF conc_vars, ConcInv, ConcTypeOK, ConcShape, InsideHolds, LocksExclude,
     InQueue, InTable, locals, mrs, history
<1> QED
  BY <1>1, <1>2, <1>3, <1>4, <1>5, <1>6, <1>7, <1>8, <1>9, <1>10, <1>11, <1>12, <1>13,
     <1>14, <1>15, <1>16, <1>17, <1>18, <1>19, <1>20, <1>21, <1>22, <1>23, <1>24, <1>25, <1>26,
     <1>27, <1>28 DEF ConcNext, Step

\* Only who finds the lock free gets inside.
LEMMA ExcludeStep ==
  ASSUME ConcInv, Blocking, [ConcNext]_conc_vars
  PROVE  LocksExclude'
<1> USE ConcurrencyAssumption
<1>1. ASSUME NEW t \in Threads, NEW w \in Wrs, NEW m \in Mrs, PostRecv(t, w, m)
      PROVE LocksExclude'
  BY <1>1 DEF PostRecv, ConcInv, ConcTypeOK, ConcShape, InsideHolds, LocksExclude,
     InQueue, InTable, Goto, Begin, mrs, history
<1>2. ASSUME NEW t \in Threads, Receive(t) PROVE LocksExclude'
  BY <1>2 DEF Receive, ConcInv, ConcTypeOK, ConcShape, InsideHolds, LocksExclude,
     InQueue, InTable, Goto, Begin, mrs, history
<1>3. ASSUME NEW t \in Threads, NEW m \in Mrs, CreateMr(t, m) PROVE LocksExclude'
  BY <1>3 DEF CreateMr, ConcInv, ConcTypeOK, ConcShape, InsideHolds, LocksExclude,
     InQueue, InTable, Goto, Begin, history
<1>4. ASSUME NEW t \in Threads, NEW m \in Mrs, DestroyMr(t, m) PROVE LocksExclude'
  BY <1>4 DEF DestroyMr, ConcInv, ConcTypeOK, ConcShape, InsideHolds, LocksExclude,
     InQueue, InTable, Goto, Begin, mrs, history
<1>5. ASSUME NEW t \in Threads, Lookup(t, "get", "ref") PROVE LocksExclude'
  BY <1>5 DEF Lookup, ConcInv, ConcTypeOK, ConcShape, InsideHolds, LocksExclude, InQueue,
     InTable, At, Goto, Return, End, Release, mrs, history
<1>6. ASSUME NEW t \in Threads, TakeReference(t) PROVE LocksExclude'
  BY <1>6 DEF TakeReference, ConcInv, ConcTypeOK, ConcShape, InsideHolds, LocksExclude,
     InQueue, InTable, At, Goto, Follow, history
<1>7. ASSUME NEW t \in Threads, LockQueue(t) PROVE LocksExclude'
  BY <1>7 DEF LockQueue, ConcInv, ConcTypeOK, ConcShape, InsideHolds, LocksExclude,
     InQueue, InTable, At, Goto, Acquire, mrs, history
<1>8. ASSUME NEW t \in Threads, LoadQueue(t) PROVE LocksExclude'
  BY <1>8 DEF LoadQueue, ConcInv, ConcTypeOK, ConcShape, InsideHolds, LocksExclude,
     InQueue, InTable, At, Goto, mrs, history
<1>9. ASSUME NEW t \in Threads, AddTail(t) PROVE LocksExclude'
  BY <1>9 DEF AddTail, ConcInv, ConcTypeOK, ConcShape, InsideHolds, LocksExclude,
     InQueue, InTable, At, Goto, mrs
<1>10. ASSUME NEW t \in Threads, Pop(t) PROVE LocksExclude'
  BY <1>10 DEF Pop, ConcInv, ConcTypeOK, ConcShape, InsideHolds, LocksExclude, InQueue,
     InTable, At, Goto, mrs
<1>11. ASSUME NEW t \in Threads, UnlockQueue(t) PROVE LocksExclude'
  <2>1. ~InQueue(t)' /\ ~InTable(t)'
    BY <1>11 DEF UnlockQueue, ConcInv, ConcTypeOK, ConcShape, At, Goto, Return, End,
       InQueue, InTable
  <2>2. \A u \in Threads \ {t} : pc'[u] = pc[u]
    BY <1>11 DEF UnlockQueue, ConcInv, ConcTypeOK, ConcShape, Goto, Return, End
  <2> QED
    BY <2>1, <2>2 DEF ConcInv, LocksExclude, InQueue, InTable
<1>12. ASSUME NEW t \in Threads, Lookup(t, "find", "dec") PROVE LocksExclude'
  BY <1>12 DEF Lookup, ConcInv, ConcTypeOK, ConcShape, InsideHolds, LocksExclude,
     InQueue, InTable, At, Goto, Return, End, Release, mrs, history
<1>13. ASSUME NEW t \in Threads, PutReference(t) PROVE LocksExclude'
  BY <1>13 DEF PutReference, ConcInv, ConcTypeOK, ConcShape, InsideHolds, LocksExclude,
     InQueue, InTable, At, Goto, Follow, history
<1>14. ASSUME NEW t \in Threads, CheckState(t) PROVE LocksExclude'
  BY <1>14 DEF CheckState, ConcInv, ConcTypeOK, ConcShape, InsideHolds, LocksExclude,
     InQueue, InTable, At, Goto, Return, End, Follow, mrs, history
<1>15. ASSUME NEW t \in Threads, Lookup(t, "look", "busy") PROVE LocksExclude'
  BY <1>15 DEF Lookup, ConcInv, ConcTypeOK, ConcShape, InsideHolds, LocksExclude,
     InQueue, InTable, At, Goto, Return, End, Release, mrs, history
<1>16. ASSUME NEW t \in Threads, DestroyUnlessBusy(t) PROVE LocksExclude'
  <2>1. ~InQueue(t)' /\ ~InTable(t)'
    BY <1>16 DEF DestroyUnlessBusy, ConcInv, ConcTypeOK, ConcShape, At, Goto, Return, End,
       InQueue, InTable
  <2>2. \A u \in Threads \ {t} : pc'[u] = pc[u]
    BY <1>16 DEF DestroyUnlessBusy, ConcInv, ConcTypeOK, ConcShape, Goto, Return, End
  <2> QED
    BY <2>1, <2>2 DEF ConcInv, LocksExclude, InQueue, InTable
<1>17. ASSUME NEW t \in Threads, LockToFree(t) PROVE LocksExclude'
  BY <1>17 DEF LockToFree, ConcInv, ConcTypeOK, ConcShape, InsideHolds, LocksExclude,
     InQueue, InTable, At, Goto, Acquire, mrs, history
<1>18. ASSUME NEW t \in Threads, ClearSlot(t) PROVE LocksExclude'
  BY <1>18 DEF ClearSlot, ConcInv, ConcTypeOK, ConcShape, InsideHolds, LocksExclude,
     InQueue, InTable, At, Goto, history
<1>19. ASSUME NEW t \in Threads, UnlockAndFree(t) PROVE LocksExclude'
  BY <1>19 DEF UnlockAndFree, ConcInv, ConcTypeOK, ConcShape, InsideHolds, LocksExclude,
     InQueue, InTable, At, Goto, Return, End, Release, history
<1>20. ASSUME NEW t \in Threads, LockTable(t) PROVE LocksExclude'
  BY <1>20 DEF LockTable, ConcInv, ConcTypeOK, ConcShape, InsideHolds, LocksExclude,
     InQueue, InTable, At, Goto, Acquire, mrs, history
<1>21. ASSUME NEW t \in Threads, LoadSlot(t) PROVE LocksExclude'
  <2>1. InTable(t) /\ ~InQueue(t)'
    BY <1>21 DEF LoadSlot, ConcInv, ConcTypeOK, ConcShape, At, Goto, InQueue, InTable
  <2>2. \A u \in Threads \ {t} : pc'[u] = pc[u]
    BY <1>21 DEF LoadSlot, ConcInv, ConcTypeOK, ConcShape, Goto
  <2> QED
    BY <2>1, <2>2 DEF ConcInv, LocksExclude, InQueue, InTable
<1>22. ASSUME NEW t \in Threads, StoreSlot(t) PROVE LocksExclude'
  BY <1>22 DEF StoreSlot, ConcInv, ConcTypeOK, ConcShape, InsideHolds, LocksExclude,
     InQueue, InTable, At, Goto, history
<1>23. ASSUME NEW t \in Threads, UnlockTable(t) PROVE LocksExclude'
  BY <1>23 DEF UnlockTable, ConcInv, ConcTypeOK, ConcShape, InsideHolds, LocksExclude,
     InQueue, InTable, At, Goto, Return, End, Release, history
<1>24. ASSUME NEW t \in Threads, PopUnlessHeld(t) PROVE LocksExclude'
  <2>1. ~InQueue(t)' /\ ~InTable(t)'
    BY <1>24 DEF PopUnlessHeld, ConcInv, ConcTypeOK, ConcShape, At, Goto, Return, End,
       InQueue, InTable
  <2>2. \A u \in Threads \ {t} : pc'[u] = pc[u]
    BY <1>24 DEF PopUnlessHeld, ConcInv, ConcTypeOK, ConcShape, Goto, Return, End
  <2> QED
    BY <2>1, <2>2 DEF ConcInv, LocksExclude, InQueue, InTable
<1>25. ASSUME NEW t \in Threads, Lookup(t, "map", "map_state") PROVE LocksExclude'
  BY <1>25 DEF Lookup, ConcInv, ConcTypeOK, ConcShape, InsideHolds, LocksExclude,
     InQueue, InTable, At, Goto, Return, End, Release, mrs, history
<1>26. ASSUME NEW t \in Threads, MapState(t) PROVE LocksExclude'
  <2>1. ~InQueue(t)' /\ ~InTable(t)'
    BY <1>26 DEF MapState, ConcInv, ConcTypeOK, ConcShape, At, Goto, Return, End,
       InQueue, InTable
  <2>2. \A u \in Threads \ {t} : pc'[u] = pc[u]
    BY <1>26 DEF MapState, ConcInv, ConcTypeOK, ConcShape, Goto, Return, End
  <2> QED
    BY <2>1, <2>2 DEF ConcInv, LocksExclude, InQueue, InTable
<1>27. ASSUME NEW t \in Threads, MarkDestroyed(t) PROVE LocksExclude'
  <2>1. ~InQueue(t)' /\ ~InTable(t)'
    BY <1>27 DEF MarkDestroyed, ConcInv, ConcTypeOK, ConcShape, At, Goto, Return, End,
       InQueue, InTable
  <2>2. \A u \in Threads \ {t} : pc'[u] = pc[u]
    BY <1>27 DEF MarkDestroyed, ConcInv, ConcTypeOK, ConcShape, Goto, Return, End
  <2> QED
    BY <2>1, <2>2 DEF ConcInv, LocksExclude, InQueue, InTable
<1>28. CASE UNCHANGED conc_vars
  BY <1>28 DEF conc_vars, ConcInv, ConcTypeOK, ConcShape, InsideHolds, LocksExclude,
     InQueue, InTable, locals, mrs, history
<1> QED
  BY <1>1, <1>2, <1>3, <1>4, <1>5, <1>6, <1>7, <1>8, <1>9, <1>10, <1>11, <1>12, <1>13,
     <1>14, <1>15, <1>16, <1>17, <1>18, <1>19, <1>20, <1>21, <1>22, <1>23, <1>24, <1>25, <1>26,
     <1>27, <1>28 DEF ConcNext, Step

\* What a thread in the lock has loaded is the list.
LEMMA AgreeStep ==
  ASSUME ConcInv, Blocking, [ConcNext]_conc_vars
  PROVE  StepsAgree'
<1> USE ConcurrencyAssumption
<1>1. ASSUME NEW t \in Threads, NEW w \in Wrs, NEW m \in Mrs, PostRecv(t, w, m)
      PROVE StepsAgree'
  <2>1. /\ pc' = [pc EXCEPT ![t] = "get"] /\ call' = [call EXCEPT ![t] = "post_recv"]
        /\ wr' = [wr EXCEPT ![t] = w] /\ uses' = [uses EXCEPT ![w] = m]
        /\ UNCHANGED <<rq, list, resp>>
    BY <1>1 DEF PostRecv, Begin, Goto
  <2>2. \A v \in Wrs : uses[v] \in Mrs => uses'[v] \in Mrs
    BY <2>1 DEF ConcInv, ConcTypeOK, ConcShape
  <2>3. \A i \in 1 .. Len(rq) : rq[i] \in Wrs
    BY ElementOfSeq DEF ConcInv, ConcTypeOK, ConcShape
  <2>4. uses'[w] \in Mrs
    BY <2>1 DEF ConcInv, ConcTypeOK, ConcShape
  <2>5. wr'[t] # None => uses'[wr'[t]] \in Mrs
    BY <2>1, <2>4 DEF ConcInv, ConcTypeOK, ConcShape
  <2>6. \A u \in Threads \ {t} : wr'[u] # None => uses'[wr'[u]] \in Mrs
    BY <2>1, <2>2 DEF ConcInv, ConcTypeOK, ConcShape, StepsAgree
  <2>7. \A i \in 1 .. Len(rq') : uses'[rq'[i]] \in Mrs
    BY <2>1, <2>2, <2>3 DEF ConcInv, StepsAgree
  <2>8. wr' \in [Threads -> Wrs \cup {None}] /\ wr'[t] \in Wrs
    BY <2>1 DEF ConcInv, ConcTypeOK, ConcShape
  <2>9. pc'[t] = "get" /\ call'[t] = "post_recv"
    BY <2>1 DEF ConcInv, ConcTypeOK, ConcShape
  <2>10. \A u \in Threads \ {t} : /\ pc'[u] = pc[u] /\ call'[u] = call[u]
                                  /\ wr'[u] = wr[u] /\ list'[u] = list[u]
    BY <2>1 DEF ConcInv, ConcTypeOK, ConcShape
  <2>11. \A u \in Threads :
           pc'[u] = "q_store" => list'[u] = rq' /\ (call'[u] = "receive" => rq' # <<>>)
    BY <2>1, <2>9, <2>10 DEF ConcInv, StepsAgree
  <2>12. \A u \in Threads :
           pc'[u] \in Queueing => \/ call'[u] = "post_recv" /\ wr'[u] \in Wrs
                                  \/ call'[u] = "receive" /\ pc'[u] \notin {"get", "ref"}
    BY <2>8, <2>9, <2>10 DEF ConcInv, StepsAgree
  <2>13. \A u \in Threads : wr'[u] # None => uses'[wr'[u]] \in Mrs
    BY <2>5, <2>6
  <2>14. resp' # None => uses'[resp'] \in Mrs
    BY <2>1, <2>2 DEF ConcInv, ConcTypeOK, ConcShape, StepsAgree
  <2> QED
    BY <2>7, <2>11, <2>12, <2>13, <2>14 DEF StepsAgree
<1>2. ASSUME NEW t \in Threads, Receive(t) PROVE StepsAgree'
  BY <1>2 DEF Receive, ConcInv, ConcTypeOK, ConcShape, InsideHolds, LocksExclude,
     StepsAgree, Queueing, InQueue, Goto, Begin, mrs, history
<1>3. ASSUME NEW t \in Threads, NEW m \in Mrs, CreateMr(t, m) PROVE StepsAgree'
  BY <1>3 DEF CreateMr, ConcInv, ConcTypeOK, ConcShape, InsideHolds, LocksExclude,
     StepsAgree, Queueing, InQueue, Goto, Begin, history
<1>4. ASSUME NEW t \in Threads, NEW m \in Mrs, DestroyMr(t, m) PROVE StepsAgree'
  BY <1>4 DEF DestroyMr, ConcInv, ConcTypeOK, ConcShape, InsideHolds, LocksExclude,
     StepsAgree, Queueing, InQueue, Goto, Begin, mrs, history
<1>5. ASSUME NEW t \in Threads, Lookup(t, "get", "ref") PROVE StepsAgree'
  <2>1. call[t] = "post_recv" /\ wr[t] \in Wrs
    BY <1>5 DEF Lookup, At, ConcInv, StepsAgree, Queueing
  <2>2. \/ pc'[t] = "ref" /\ call'[t] = call[t] /\ wr'[t] = wr[t]
        \/ pc'[t] = "start" /\ wr'[t] = None
    BY <1>5 DEF Lookup, ConcInv, ConcTypeOK, ConcShape, Goto, Return, End
  <2>3. \A u \in Threads \ {t} : /\ pc'[u] = pc[u] /\ call'[u] = call[u]
                                 /\ wr'[u] = wr[u] /\ list'[u] = list[u]
    BY <1>5 DEF Lookup, ConcInv, ConcTypeOK, ConcShape, Goto, Return, End
  <2>4. UNCHANGED <<rq, uses>> /\ resp' \in {resp, None, wr[t]}
    BY <1>5 DEF Lookup, End
  <2> QED
    BY <2>1, <2>2, <2>3, <2>4 DEF ConcInv, StepsAgree, Queueing
<1>6. ASSUME NEW t \in Threads, TakeReference(t) PROVE StepsAgree'
  BY <1>6 DEF TakeReference, ConcInv, ConcTypeOK, ConcShape, InsideHolds, LocksExclude,
     StepsAgree, Queueing, InQueue, At, Goto, Follow, history
<1>7. ASSUME NEW t \in Threads, LockQueue(t) PROVE StepsAgree'
  BY <1>7 DEF LockQueue, ConcInv, ConcTypeOK, ConcShape, InsideHolds, LocksExclude,
     StepsAgree, Queueing, InQueue, At, Goto, Acquire, mrs, history
<1>8. ASSUME NEW t \in Threads, LoadQueue(t) PROVE StepsAgree'
  BY <1>8 DEF LoadQueue, ConcInv, ConcTypeOK, ConcShape, InsideHolds, LocksExclude,
     StepsAgree, Queueing, InQueue, At, Goto, mrs, history
<1>9. ASSUME NEW t \in Threads, AddTail(t) PROVE StepsAgree'
  BY <1>9 DEF AddTail, ConcInv, ConcTypeOK, ConcShape, InsideHolds, LocksExclude,
     StepsAgree, Queueing, InQueue, At, Goto, mrs
<1>10. ASSUME NEW t \in Threads, Pop(t) PROVE StepsAgree'
  BY <1>10 DEF Pop, ConcInv, ConcTypeOK, ConcShape, InsideHolds, LocksExclude,
     StepsAgree, Queueing, InQueue, At, Goto, mrs
<1>11. ASSUME NEW t \in Threads, UnlockQueue(t) PROVE StepsAgree'
  <2>1. pc'[t] \notin Queueing /\ (wr'[t] = wr[t] \/ wr'[t] = None)
    BY <1>11 DEF UnlockQueue, ConcInv, ConcTypeOK, ConcShape, Goto, Return, End, Queueing
  <2>2. \A u \in Threads \ {t} : /\ pc'[u] = pc[u] /\ call'[u] = call[u]
                                 /\ wr'[u] = wr[u] /\ list'[u] = list[u]
    BY <1>11 DEF UnlockQueue, ConcInv, ConcTypeOK, ConcShape, Goto, Return, End
  <2>3. UNCHANGED <<rq, uses>> /\ resp' \in {resp, None, wr[t]}
    BY <1>11 DEF UnlockQueue, End
  <2> QED
    BY <2>1, <2>2, <2>3 DEF ConcInv, StepsAgree, Queueing
<1>12. ASSUME NEW t \in Threads, Lookup(t, "find", "dec") PROVE StepsAgree'
  <2>1. pc'[t] \notin Queueing /\ (wr'[t] = wr[t] \/ wr'[t] = None)
    BY <1>12 DEF Lookup, ConcInv, ConcTypeOK, ConcShape, Goto, Return, End, Queueing
  <2>2. \A u \in Threads \ {t} : /\ pc'[u] = pc[u] /\ call'[u] = call[u]
                                 /\ wr'[u] = wr[u] /\ list'[u] = list[u]
    BY <1>12 DEF Lookup, ConcInv, ConcTypeOK, ConcShape, Goto, Return, End
  <2>3. UNCHANGED <<rq, uses>> /\ resp' \in {resp, None, wr[t]}
    BY <1>12 DEF Lookup, End
  <2> QED
    BY <2>1, <2>2, <2>3 DEF ConcInv, StepsAgree, Queueing
<1>13. ASSUME NEW t \in Threads, PutReference(t) PROVE StepsAgree'
  BY <1>13 DEF PutReference, ConcInv, ConcTypeOK, ConcShape, InsideHolds, LocksExclude,
     StepsAgree, Queueing, InQueue, At, Goto, Follow, history
<1>14. ASSUME NEW t \in Threads, CheckState(t) PROVE StepsAgree'
  <2>1. pc'[t] \notin Queueing /\ (wr'[t] = wr[t] \/ wr'[t] = None)
    BY <1>14 DEF CheckState, ConcInv, ConcTypeOK, ConcShape, Goto, Return, End, Queueing
  <2>2. \A u \in Threads \ {t} : /\ pc'[u] = pc[u] /\ call'[u] = call[u]
                                 /\ wr'[u] = wr[u] /\ list'[u] = list[u]
    BY <1>14 DEF CheckState, ConcInv, ConcTypeOK, ConcShape, Goto, Return, End
  <2>3. UNCHANGED <<rq, uses>> /\ resp' \in {resp, None, wr[t]}
    BY <1>14 DEF CheckState, End
  <2> QED
    BY <2>1, <2>2, <2>3 DEF ConcInv, StepsAgree, Queueing
<1>15. ASSUME NEW t \in Threads, Lookup(t, "look", "busy") PROVE StepsAgree'
  <2>1. pc'[t] \notin Queueing /\ (wr'[t] = wr[t] \/ wr'[t] = None)
    BY <1>15 DEF Lookup, ConcInv, ConcTypeOK, ConcShape, Goto, Return, End, Queueing
  <2>2. \A u \in Threads \ {t} : /\ pc'[u] = pc[u] /\ call'[u] = call[u]
                                 /\ wr'[u] = wr[u] /\ list'[u] = list[u]
    BY <1>15 DEF Lookup, ConcInv, ConcTypeOK, ConcShape, Goto, Return, End
  <2>3. UNCHANGED <<rq, uses>> /\ resp' \in {resp, None, wr[t]}
    BY <1>15 DEF Lookup, End
  <2> QED
    BY <2>1, <2>2, <2>3 DEF ConcInv, StepsAgree, Queueing
<1>16. ASSUME NEW t \in Threads, DestroyUnlessBusy(t) PROVE StepsAgree'
  <2>1. pc'[t] \notin Queueing /\ (wr'[t] = wr[t] \/ wr'[t] = None)
    BY <1>16 DEF DestroyUnlessBusy, ConcInv, ConcTypeOK, ConcShape, Goto, Return, End, Queueing
  <2>2. \A u \in Threads \ {t} : /\ pc'[u] = pc[u] /\ call'[u] = call[u]
                                 /\ wr'[u] = wr[u] /\ list'[u] = list[u]
    BY <1>16 DEF DestroyUnlessBusy, ConcInv, ConcTypeOK, ConcShape, Goto, Return, End
  <2>3. UNCHANGED <<rq, uses>> /\ resp' \in {resp, None, wr[t]}
    BY <1>16 DEF DestroyUnlessBusy, End
  <2> QED
    BY <2>1, <2>2, <2>3 DEF ConcInv, StepsAgree, Queueing
<1>17. ASSUME NEW t \in Threads, LockToFree(t) PROVE StepsAgree'
  BY <1>17 DEF LockToFree, ConcInv, ConcTypeOK, ConcShape, InsideHolds, LocksExclude,
     StepsAgree, Queueing, InQueue, At, Goto, Acquire, mrs, history
<1>18. ASSUME NEW t \in Threads, ClearSlot(t) PROVE StepsAgree'
  BY <1>18 DEF ClearSlot, ConcInv, ConcTypeOK, ConcShape, InsideHolds, LocksExclude,
     StepsAgree, Queueing, InQueue, At, Goto, history
<1>19. ASSUME NEW t \in Threads, UnlockAndFree(t) PROVE StepsAgree'
  BY <1>19 DEF UnlockAndFree, ConcInv, ConcTypeOK, ConcShape, InsideHolds, LocksExclude,
     StepsAgree, Queueing, InQueue, At, Goto, Return, End, Release, history
<1>20. ASSUME NEW t \in Threads, LockTable(t) PROVE StepsAgree'
  BY <1>20 DEF LockTable, ConcInv, ConcTypeOK, ConcShape, InsideHolds, LocksExclude,
     StepsAgree, Queueing, InQueue, At, Goto, Acquire, mrs, history
<1>21. ASSUME NEW t \in Threads, LoadSlot(t) PROVE StepsAgree'
  <2>1. pc'[t] \notin Queueing /\ (wr'[t] = wr[t] \/ wr'[t] = None)
    BY <1>21 DEF LoadSlot, ConcInv, ConcTypeOK, ConcShape, Goto, Return, End, Queueing
  <2>2. \A u \in Threads \ {t} : /\ pc'[u] = pc[u] /\ call'[u] = call[u]
                                 /\ wr'[u] = wr[u] /\ list'[u] = list[u]
    BY <1>21 DEF LoadSlot, ConcInv, ConcTypeOK, ConcShape, Goto, Return, End
  <2>3. UNCHANGED <<rq, uses>> /\ resp' \in {resp, None, wr[t]}
    BY <1>21 DEF LoadSlot, End
  <2> QED
    BY <2>1, <2>2, <2>3 DEF ConcInv, StepsAgree, Queueing
<1>22. ASSUME NEW t \in Threads, StoreSlot(t) PROVE StepsAgree'
  BY <1>22 DEF StoreSlot, ConcInv, ConcTypeOK, ConcShape, InsideHolds, LocksExclude,
     StepsAgree, Queueing, InQueue, At, Goto, history
<1>23. ASSUME NEW t \in Threads, UnlockTable(t) PROVE StepsAgree'
  BY <1>23 DEF UnlockTable, ConcInv, ConcTypeOK, ConcShape, InsideHolds, LocksExclude,
     StepsAgree, Queueing, InQueue, At, Goto, Return, End, Release, history
<1>24. ASSUME NEW t \in Threads, PopUnlessHeld(t) PROVE StepsAgree'
  <2>1. \/ pc'[t] = "q_lock" /\ call'[t] = call[t] /\ wr'[t] = wr[t]
        \/ pc'[t] = "start" /\ wr'[t] = None
    BY <1>24 DEF PopUnlessHeld, ConcInv, ConcTypeOK, ConcShape, Goto, Return
  <2>2. \A u \in Threads \ {t} : /\ pc'[u] = pc[u] /\ call'[u] = call[u]
                                 /\ wr'[u] = wr[u] /\ list'[u] = list[u]
    BY <1>24 DEF PopUnlessHeld, ConcInv, ConcTypeOK, ConcShape, Goto, Return
  <2>3. UNCHANGED <<rq, uses, resp>> /\ pc[t] = "pop"
    BY <1>24 DEF PopUnlessHeld, At
  <2> QED
    BY <2>1, <2>2, <2>3 DEF ConcInv, StepsAgree, Queueing
<1>25. ASSUME NEW t \in Threads, Lookup(t, "map", "map_state") PROVE StepsAgree'
  <2>1. pc'[t] \notin Queueing /\ (wr'[t] = wr[t] \/ wr'[t] = None)
    BY <1>25 DEF Lookup, ConcInv, ConcTypeOK, ConcShape, Goto, Return, End, Queueing
  <2>2. \A u \in Threads \ {t} : /\ pc'[u] = pc[u] /\ call'[u] = call[u]
                                 /\ wr'[u] = wr[u] /\ list'[u] = list[u]
    BY <1>25 DEF Lookup, ConcInv, ConcTypeOK, ConcShape, Goto, Return, End
  <2>3. UNCHANGED <<rq, uses>> /\ resp' \in {resp, None, wr[t]}
    BY <1>25 DEF Lookup, End
  <2> QED
    BY <2>1, <2>2, <2>3 DEF ConcInv, StepsAgree, Queueing
<1>26. ASSUME NEW t \in Threads, MapState(t) PROVE StepsAgree'
  <2>1. pc'[t] \notin Queueing /\ (wr'[t] = wr[t] \/ wr'[t] = None)
    BY <1>26 DEF MapState, ConcInv, ConcTypeOK, ConcShape, Goto, Return, End, Queueing
  <2>2. \A u \in Threads \ {t} : /\ pc'[u] = pc[u] /\ call'[u] = call[u]
                                 /\ wr'[u] = wr[u] /\ list'[u] = list[u]
    BY <1>26 DEF MapState, ConcInv, ConcTypeOK, ConcShape, Goto, Return, End
  <2>3. UNCHANGED <<rq, uses>> /\ resp' \in {resp, None, wr[t]}
    BY <1>26 DEF MapState, End
  <2> QED
    BY <2>1, <2>2, <2>3 DEF ConcInv, StepsAgree, Queueing
<1>27. ASSUME NEW t \in Threads, MarkDestroyed(t) PROVE StepsAgree'
  <2>1. pc'[t] \notin Queueing /\ (wr'[t] = wr[t] \/ wr'[t] = None)
    BY <1>27 DEF MarkDestroyed, ConcInv, ConcTypeOK, ConcShape, Goto, Return, End, Queueing
  <2>2. \A u \in Threads \ {t} : /\ pc'[u] = pc[u] /\ call'[u] = call[u]
                                 /\ wr'[u] = wr[u] /\ list'[u] = list[u]
    BY <1>27 DEF MarkDestroyed, ConcInv, ConcTypeOK, ConcShape, Goto, Return, End
  <2>3. UNCHANGED <<rq, uses>> /\ resp' \in {resp, None, wr[t]}
    BY <1>27 DEF MarkDestroyed, End
  <2> QED
    BY <2>1, <2>2, <2>3 DEF ConcInv, StepsAgree, Queueing
<1>28. CASE UNCHANGED conc_vars
  BY <1>28 DEF conc_vars, ConcInv, ConcTypeOK, ConcShape, InsideHolds, LocksExclude,
     StepsAgree, Queueing, InQueue, locals, mrs, history
<1> QED
  BY <1>1, <1>2, <1>3, <1>4, <1>5, <1>6, <1>7, <1>8, <1>9, <1>10, <1>11, <1>12, <1>13,
     <1>14, <1>15, <1>16, <1>17, <1>18, <1>19, <1>20, <1>21, <1>22, <1>23, <1>24, <1>25, <1>26,
     <1>27, <1>28 DEF ConcNext, Step

\* A WR is added at the end of both sequences, or moves from one to the other.
LEMMA OrderStep ==
  ASSUME ConcInv, Blocking, [ConcNext]_conc_vars
  PROVE  RecvWrsInOrder'
<1> USE ConcurrencyAssumption
<1>1. ASSUME NEW t \in Threads, NEW w \in Wrs, NEW m \in Mrs, PostRecv(t, w, m)
      PROVE RecvWrsInOrder'
  BY <1>1 DEF PostRecv, ConcInv, RecvWrsInOrder, Goto, Begin, mrs, history
<1>2. ASSUME NEW t \in Threads, Receive(t) PROVE RecvWrsInOrder'
  BY <1>2 DEF Receive, ConcInv, RecvWrsInOrder, Goto, Begin, mrs, history
<1>3. ASSUME NEW t \in Threads, NEW m \in Mrs, CreateMr(t, m) PROVE RecvWrsInOrder'
  BY <1>3 DEF CreateMr, ConcInv, RecvWrsInOrder, Goto, Begin, history
<1>4. ASSUME NEW t \in Threads, NEW m \in Mrs, DestroyMr(t, m) PROVE RecvWrsInOrder'
  BY <1>4 DEF DestroyMr, ConcInv, RecvWrsInOrder, Goto, Begin, mrs, history
<1>5. ASSUME NEW t \in Threads, Lookup(t, "get", "ref") PROVE RecvWrsInOrder'
  BY <1>5 DEF Lookup, ConcInv, RecvWrsInOrder, Goto, Return, End, Release, mrs, history
<1>6. ASSUME NEW t \in Threads, TakeReference(t) PROVE RecvWrsInOrder'
  BY <1>6 DEF TakeReference, ConcInv, RecvWrsInOrder, Goto, Follow, history
<1>7. ASSUME NEW t \in Threads, LockQueue(t) PROVE RecvWrsInOrder'
  BY <1>7 DEF LockQueue, ConcInv, RecvWrsInOrder, Goto, Acquire, mrs, history
<1>8. ASSUME NEW t \in Threads, LoadQueue(t) PROVE RecvWrsInOrder'
  BY <1>8 DEF LoadQueue, ConcInv, RecvWrsInOrder, Goto, mrs, history
<1>9. ASSUME NEW t \in Threads, AddTail(t) PROVE RecvWrsInOrder'
  <2>1. rq' = Append(rq, wr[t]) /\ posted' = Append(posted, wr[t]) /\ taken' = taken
    BY <1>9 DEF AddTail, At, ConcInv, StepsAgree
  <2>2. wr[t] \in Wrs
    BY <1>9 DEF AddTail, At, ConcInv, StepsAgree, Queueing
  <2>3. taken \in Seq(Wrs) /\ rq \in Seq(Wrs) /\ posted = taken \o rq
    BY DEF ConcInv, ConcTypeOK, ConcShape, RecvWrsInOrder
  <2> QED
    <3>1. Append(taken \o rq, wr[t]) = taken \o Append(rq, wr[t])
      BY ONLY <2>2, <2>3, AppendConcat
    <3> QED
      BY <2>1, <2>3, <3>1 DEF RecvWrsInOrder
<1>10. ASSUME NEW t \in Threads, Pop(t) PROVE RecvWrsInOrder'
  <2>1. rq' = Tail(rq) /\ taken' = Append(taken, Head(rq)) /\ posted' = posted /\ rq # <<>>
    BY <1>10 DEF Pop, At, ConcInv, StepsAgree
  <2>2. taken \in Seq(Wrs) /\ rq \in Seq(Wrs) /\ posted = taken \o rq
    BY DEF ConcInv, ConcTypeOK, ConcShape, RecvWrsInOrder
  <2> QED
    BY <2>1, <2>2, HeadMoves DEF RecvWrsInOrder
<1>11. ASSUME NEW t \in Threads, UnlockQueue(t) PROVE RecvWrsInOrder'
  BY <1>11 DEF UnlockQueue, ConcInv, RecvWrsInOrder, Goto, Return, End, Release, mrs, history
<1>12. ASSUME NEW t \in Threads, Lookup(t, "find", "dec") PROVE RecvWrsInOrder'
  BY <1>12 DEF Lookup, ConcInv, RecvWrsInOrder, Goto, Return, End, Release, mrs, history
<1>13. ASSUME NEW t \in Threads, PutReference(t) PROVE RecvWrsInOrder'
  BY <1>13 DEF PutReference, ConcInv, RecvWrsInOrder, Goto, Follow, history
<1>14. ASSUME NEW t \in Threads, CheckState(t) PROVE RecvWrsInOrder'
  BY <1>14 DEF CheckState, ConcInv, RecvWrsInOrder, Goto, Return, End, Follow, mrs, history
<1>15. ASSUME NEW t \in Threads, Lookup(t, "look", "busy") PROVE RecvWrsInOrder'
  BY <1>15 DEF Lookup, ConcInv, RecvWrsInOrder, Goto, Return, End, Release, mrs, history
<1>16. ASSUME NEW t \in Threads, DestroyUnlessBusy(t) PROVE RecvWrsInOrder'
  BY <1>16 DEF DestroyUnlessBusy, ConcInv, RecvWrsInOrder, Goto, Return, End, Follow, history
<1>17. ASSUME NEW t \in Threads, LockToFree(t) PROVE RecvWrsInOrder'
  BY <1>17 DEF LockToFree, ConcInv, RecvWrsInOrder, Goto, Acquire, mrs, history
<1>18. ASSUME NEW t \in Threads, ClearSlot(t) PROVE RecvWrsInOrder'
  BY <1>18 DEF ClearSlot, ConcInv, RecvWrsInOrder, Goto, history
<1>19. ASSUME NEW t \in Threads, UnlockAndFree(t) PROVE RecvWrsInOrder'
  BY <1>19 DEF UnlockAndFree, ConcInv, RecvWrsInOrder, Goto, Return, End, Release, history
<1>20. ASSUME NEW t \in Threads, LockTable(t) PROVE RecvWrsInOrder'
  BY <1>20 DEF LockTable, ConcInv, RecvWrsInOrder, Goto, Acquire, mrs, history
<1>21. ASSUME NEW t \in Threads, LoadSlot(t) PROVE RecvWrsInOrder'
  BY <1>21 DEF LoadSlot, ConcInv, RecvWrsInOrder, Goto, mrs, history
<1>22. ASSUME NEW t \in Threads, StoreSlot(t) PROVE RecvWrsInOrder'
  BY <1>22 DEF StoreSlot, ConcInv, RecvWrsInOrder, Goto, history
<1>23. ASSUME NEW t \in Threads, UnlockTable(t) PROVE RecvWrsInOrder'
  BY <1>23 DEF UnlockTable, ConcInv, RecvWrsInOrder, Goto, Return, End, Release, history
<1>24. ASSUME NEW t \in Threads, PopUnlessHeld(t) PROVE RecvWrsInOrder'
  BY <1>24 DEF PopUnlessHeld, ConcInv, RecvWrsInOrder, Goto, Return, mrs, history
<1>25. ASSUME NEW t \in Threads, Lookup(t, "map", "map_state") PROVE RecvWrsInOrder'
  BY <1>25 DEF Lookup, ConcInv, RecvWrsInOrder, Goto, Return, End, Release, mrs, history
<1>26. ASSUME NEW t \in Threads, MapState(t) PROVE RecvWrsInOrder'
  BY <1>26 DEF MapState, ConcInv, RecvWrsInOrder, Goto, Return, Follow, mrs, history
<1>27. ASSUME NEW t \in Threads, MarkDestroyed(t) PROVE RecvWrsInOrder'
  BY <1>27 DEF MarkDestroyed, ConcInv, RecvWrsInOrder, Goto, Return, End, Follow, history
<1>28. CASE UNCHANGED conc_vars
  BY <1>28 DEF conc_vars, ConcInv, RecvWrsInOrder, locals, mrs, history
<1> QED
  BY <1>1, <1>2, <1>3, <1>4, <1>5, <1>6, <1>7, <1>8, <1>9, <1>10, <1>11, <1>12, <1>13,
     <1>14, <1>15, <1>16, <1>17, <1>18, <1>19, <1>20, <1>21, <1>22, <1>23, <1>24, <1>25, <1>26,
     <1>27, <1>28 DEF ConcNext, Step

-----------------------------------------------------------------------------
(***************************************************************************)
(* With locks that wait, whatever calls overlap, every receive WR is taken *)
(* once and in order, each variable keeps its type, and no two threads are *)
(* inside one lock.                                                        *)
(***************************************************************************)
THEOREM ConcInvariant == ASSUME Blocking PROVE ConcSpec => []ConcInv
<1>1. ConcInit => ConcInv
  <2> SUFFICES ASSUME ConcInit PROVE ConcInv
    OBVIOUS
  <2> USE ConcurrencyAssumption
  <2>1. ConcShape
    <3>1. <<>> \in Seq(Wrs) /\ "start" \in Labels
      BY DEF Labels
    <3>2. held \in [{"rq", "table"} -> BOOLEAN] /\ ref \in [Mrs -> Int]
      BY DEF ConcInit
    <3> QED
      BY <3>1, <3>2 DEF ConcInit, ConcShape
  <2>2. InsideHolds /\ LocksExclude
    BY DEF ConcInit, InsideHolds, LocksExclude, InQueue, InTable
  <2>3. StepsAgree
    BY DEF ConcInit, StepsAgree, Queueing
  <2>4. RecvWrsInOrder
    BY DEF ConcInit, RecvWrsInOrder
  <2> QED
    BY <2>1, <2>2, <2>3, <2>4 DEF ConcInv, ConcTypeOK
<1>2. ConcInv /\ [ConcNext]_conc_vars => ConcInv'
  BY ShapeStep, HoldsStep, ExcludeStep, AgreeStep, OrderStep DEF ConcInv, ConcTypeOK
<1> QED
  BY <1>1, <1>2, PTL DEF ConcSpec

\* With locks that wait, every variable keeps its type and who is inside holds the lock.
THEOREM ConcTypeCorrect == ASSUME Blocking PROVE ConcSpec => []ConcTypeOK
<1>1. ConcInv => ConcTypeOK
  BY DEF ConcInv
<1> QED
  BY <1>1, ConcInvariant, PTL

\* With locks that wait, one thread at a time is inside rq.lock, and inside resource.lock.
THEOREM LocksAlwaysExclude == ASSUME Blocking PROVE ConcSpec => []LocksExclude
<1>1. ConcInv => LocksExclude
  BY DEF ConcInv
<1> QED
  BY <1>1, ConcInvariant, PTL

\* With locks that wait, no receive WR is lost, doubled or overtaken in rq.wrs.
THEOREM RecvWrsAlwaysInOrder == ASSUME Blocking PROVE ConcSpec => []RecvWrsInOrder
<1>1. ConcInv => RecvWrsInOrder
  BY DEF ConcInv
<1> QED
  BY <1>1, ConcInvariant, PTL

=============================================================================
