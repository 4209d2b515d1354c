----------------------------- MODULE Concurrency -----------------------------
(***************************************************************************)
(* Threads that call the library at once: roce_post_recv, the reception of *)
(* a packet that takes one receive WR (a SEND that fits it, or a WRITE     *)
(* with immediate data), roce_create_mr and roce_destroy_mr, on one QP and *)
(* one table of MRs.  A step is what a thread does between two accesses to *)
(* what threads share: the list of receive WRs (rq.lock), the WR being     *)
(* filled (resp.wr), the table (resource.lock), the reference count and    *)
(* the state of an MR.  A list operation loads the list and stores the     *)
(* changed one.                                                            *)
(*                                                                         *)
(* Nothing in the code keeps a thread from an MR that another destroys:    *)
(* Apart says which calls the application keeps from overlapping.          *)
(***************************************************************************)
EXTENDS Integers, Sequences, FiniteSets

CONSTANTS
  Threads, Wrs, Mrs,    \* WRs and MRs are used once each
  Size,                 \* of the MR table
  Blocking,             \* spin.lock waits for the lock; FALSE: see Acquire
  Apart,                \* sets of one or two calls that never overlap
  None

Calls == {"post_recv", "receive", "create", "destroy"}
Slots == 0 .. Size - 1

ASSUME ConcurrencyAssumption ==
  /\ Size \in Nat /\ Blocking \in BOOLEAN
  /\ Apart \in SUBSET SUBSET Calls
  /\ None \notin Wrs /\ None \notin Mrs /\ None \notin Slots /\ None \notin Calls

VARIABLES
  call,      \* the call a thread is in, or None
  pc,        \* its next step
  wr,        \* the WR it has in hand
  mr,        \* the MR it has a pointer to
  slot,      \* the handle it works with
  list,      \* the list of WRs as it loaded it
  held,      \* whether "rq" and "table" are locked
  rq,        \* qp->rq.wrs
  resp,      \* qp->resp.wr
  table,     \* resource->addr of the MRs
  ref, mstate,    \* ref of an MR; "none", "new", "valid", "destroyed" or "freed"
  handle,    \* handle of an MR
  uses,      \* the MR in the scatter list of a WR posted, or None
  posted, taken,  \* history: WRs in the order they were put in and taken out
  uaf        \* history: an MR was accessed after it was freed

locals == <<call, pc, wr, mr, slot, list>>
mrs == <<table, ref, mstate, handle>>
history == <<posted, taken>>
conc_vars == <<locals, held, rq, resp, mrs, uses, history, uaf>>

-----------------------------------------------------------------------------
\* Mutant: nobody waits.
AcquireAnyway(l) == held' = [held EXCEPT ![l] = TRUE]

(***************************************************************************)
(* roce_spin_lock.  Unless the application sets the functions, spin.lock   *)
(* is pthread_spin_trylock, and no caller looks at what it returns.        *)
(***************************************************************************)
Acquire(l) == (Blocking => ~held[l]) /\ held' = [held EXCEPT ![l] = TRUE]

Release(l) == held' = [held EXCEPT ![l] = FALSE]

Goto(t, label) == pc' = [pc EXCEPT ![t] = label]

Return(t) ==
  /\ call' = [call EXCEPT ![t] = None]
  /\ Goto(t, "start")
  /\ wr' = [wr EXCEPT ![t] = None] /\ mr' = [mr EXCEPT ![t] = None]
  /\ slot' = [slot EXCEPT ![t] = None] /\ list' = [list EXCEPT ![t] = <<>>]

\* A reception that is over leaves no WR to be filled.
End(t) == Return(t) /\ resp' = IF call[t] = "receive" THEN None ELSE resp

Begin(t, c, label) ==
  /\ call[t] = None
  /\ \A u \in Threads \ {t} : {c, call[u]} \notin Apart
  /\ call' = [call EXCEPT ![t] = c]
  /\ Goto(t, label)

At(t, label) == pc[t] = label

\* A pointer to an MR is followed.
Follow(m) == uaf' = (uaf \/ mstate[m] = "freed")

-----------------------------------------------------------------------------
(* Calls.  The application uses MRs whose creation has returned and that   *)
(* it has not destroyed.                                                   *)

PostRecv(t, w, m) ==
  /\ Begin(t, "post_recv", "get")
  /\ uses[w] = None /\ mstate[m] = "valid"
  /\ uses' = [uses EXCEPT ![w] = m]
  /\ wr' = [wr EXCEPT ![t] = w] /\ slot' = [slot EXCEPT ![t] = handle[m]]
  /\ UNCHANGED <<mr, list, held, rq, resp, mrs, history, uaf>>

Receive(t) ==
  /\ Begin(t, "receive", "pop")
  /\ UNCHANGED <<wr, mr, slot, list, held, rq, resp, mrs, uses, history, uaf>>

CreateMr(t, m) ==
  /\ Begin(t, "create", "t_lock")
  /\ mstate[m] = "none"
  /\ mstate' = [mstate EXCEPT ![m] = "new"]
  /\ mr' = [mr EXCEPT ![t] = m]
  /\ UNCHANGED <<wr, slot, list, held, rq, resp, table, ref, handle, uses, history, uaf>>

DestroyMr(t, m) ==
  /\ Begin(t, "destroy", "look")
  /\ mstate[m] = "valid"
  /\ slot' = [slot EXCEPT ![t] = handle[m]]
  /\ UNCHANGED <<wr, mr, list, held, rq, resp, mrs, uses, history, uaf>>

-----------------------------------------------------------------------------
(***************************************************************************)
(* roce_resource_get, which locks, reads and unlocks: the handle's MR, and *)
(* on to the step next; without one, or past the table, the call ends,     *)
(* with the WR left in resp.wr when it was to be mapped.                   *)
(* (The error path of roce_post_recv, which puts references again, is in   *)
(* Resources; here an MR to be posted is in the table.)                    *)
(***************************************************************************)
Lookup(t, label, next) ==
  /\ At(t, label)
  /\ Blocking => ~held["table"]
  /\ Release("table")
  /\ IF slot[t] \notin Slots \/ table[slot[t]] = None
     THEN IF label = "map" THEN Return(t) /\ UNCHANGED resp ELSE End(t)
     ELSE /\ mr' = [mr EXCEPT ![t] = table[slot[t]]] /\ Goto(t, next)
          /\ UNCHANGED <<call, wr, slot, list, resp>>
  /\ UNCHANGED <<rq, mrs, uses, history, uaf>>

\* Mutant: the reference is not taken.
TakeNoReference(t) ==
  /\ At(t, "ref") /\ Goto(t, "q_lock")
  /\ UNCHANGED <<call, wr, mr, slot, list, held, rq, resp, mrs, uses, history, uaf>>

\* roce_atomic_inc in roce_get_mr.
TakeReference(t) ==
  /\ At(t, "ref") /\ Goto(t, "q_lock")
  /\ Follow(mr[t]) /\ ref' = [ref EXCEPT ![mr[t]] = @ + 1]
  /\ UNCHANGED <<call, wr, mr, slot, list, held, rq, resp, table, mstate, handle, uses, history>>

-----------------------------------------------------------------------------
(* The list of receive WRs: list_add_tail and list_pop under rq.lock. *)

(***************************************************************************)
(* roce_pop_recv_wr: while a WR is held, a SEND of one packet is one too   *)
(* early, and is dropped.  No WRITE comes then, as its PSN would have to   *)
(* be that of the SEND that was refused.                                   *)
(***************************************************************************)
PopUnlessHeld(t) ==
  /\ At(t, "pop")
  /\ IF resp # None THEN Return(t)
     ELSE Goto(t, "q_lock") /\ UNCHANGED <<call, wr, mr, slot, list>>
  /\ UNCHANGED <<held, rq, resp, mrs, uses, history, uaf>>

\* Mutant: the list is loaded before it is locked.
LockQueueLate(t) ==
  /\ At(t, "q_lock") /\ Goto(t, "q_load")
  /\ UNCHANGED <<call, wr, mr, slot, list, held, rq, resp, mrs, uses, history, uaf>>

LockQueue(t) ==
  /\ At(t, "q_lock") /\ Acquire("rq") /\ Goto(t, "q_load")
  /\ UNCHANGED <<call, wr, mr, slot, list, rq, resp, mrs, uses, history, uaf>>

\* Mutant: an empty list is looked at again, under the lock.
LoadQueueWaits(t) ==
  /\ At(t, "q_load")
  /\ list' = [list EXCEPT ![t] = rq]
  /\ Goto(t, IF call[t] = "receive" /\ rq = <<>> THEN "q_load" ELSE "q_store")
  /\ UNCHANGED <<call, wr, mr, slot, held, rq, resp, mrs, uses, history, uaf>>

LoadQueue(t) ==
  /\ At(t, "q_load")
  /\ list' = [list EXCEPT ![t] = rq]
  /\ Goto(t, IF call[t] = "receive" /\ rq = <<>> THEN "q_unlock" ELSE "q_store")
  /\ UNCHANGED <<call, wr, mr, slot, held, rq, resp, mrs, uses, history, uaf>>

AddTail(t) ==
  /\ At(t, "q_store") /\ call[t] = "post_recv" /\ Goto(t, "q_unlock")
  /\ rq' = Append(list[t], wr[t])
  /\ posted' = Append(posted, wr[t])
  /\ UNCHANGED <<call, wr, mr, slot, list, held, resp, mrs, uses, taken, uaf>>

Pop(t) ==
  /\ At(t, "q_store") /\ call[t] = "receive" /\ Goto(t, "q_unlock")
  /\ rq' = Tail(list[t])
  /\ taken' = Append(taken, Head(list[t]))
  /\ wr' = [wr EXCEPT ![t] = Head(list[t])]
  /\ UNCHANGED <<call, mr, slot, list, held, resp, mrs, uses, posted, uaf>>

\* The WR taken is kept in resp.wr and mapped for a SEND; that of a WRITE with
\* immediate data is freed at once, which puts its MR.
UnlockQueue(t) ==
  /\ At(t, "q_unlock") /\ Release("rq")
  /\ IF call[t] = "receive" /\ wr[t] # None
     THEN /\ slot' = [slot EXCEPT ![t] = handle[uses[wr[t]]]]
          /\ UNCHANGED <<call, wr, mr, list>>
          /\ \/ Goto(t, "map") /\ resp' = wr[t]
             \/ Goto(t, "find") /\ UNCHANGED resp
     ELSE End(t)
  /\ UNCHANGED <<rq, mrs, uses, history, uaf>>

\* roce_mr_map_sge refuses an MR that is not valid (-EACCES): the WR stays in
\* resp.wr.  Otherwise the message is copied, and the WR completed and freed.
MapState(t) ==
  /\ At(t, "map_state") /\ Follow(mr[t])
  /\ IF mstate[mr[t]] = "valid" THEN Goto(t, "find") /\ UNCHANGED <<call, wr, mr, slot, list>>
     ELSE Return(t)
  /\ UNCHANGED <<held, rq, resp, mrs, uses, history>>

-----------------------------------------------------------------------------
(* roce_put_mr and roce_destroy_mr. *)

PutReference(t) ==
  /\ At(t, "dec") /\ Goto(t, "check")
  /\ Follow(mr[t]) /\ ref' = [ref EXCEPT ![mr[t]] = @ - 1]
  /\ UNCHANGED <<call, wr, mr, slot, list, held, rq, resp, table, mstate, handle, uses, history>>

\* Mutant: a pending destruction is left for ever.
CheckNothing(t) ==
  /\ At(t, "check") /\ End(t)
  /\ UNCHANGED <<held, rq, mrs, uses, history, uaf>>

CheckState(t) ==
  /\ At(t, "check") /\ Follow(mr[t])
  /\ IF mstate[mr[t]] = "destroyed"
     THEN Goto(t, "look") /\ UNCHANGED <<call, wr, mr, slot, list, resp>>
     ELSE End(t)
  /\ UNCHANGED <<held, rq, mrs, uses, history>>

\* Mutant: references do not keep an MR.
DestroyAtOnce(t) ==
  /\ At(t, "busy") /\ Follow(mr[t]) /\ Goto(t, "f_lock")
  /\ UNCHANGED <<call, wr, mr, slot, list, held, rq, resp, mrs, uses, history>>

\* The reference count is read, and then the state is stored.
DestroyUnlessBusy(t) ==
  /\ At(t, "busy") /\ Follow(mr[t])
  /\ Goto(t, IF ref[mr[t]] # 0 THEN "mark" ELSE "f_lock")
  /\ UNCHANGED <<call, wr, mr, slot, list, held, rq, resp, mrs, uses, history>>

MarkDestroyed(t) ==
  /\ At(t, "mark") /\ Follow(mr[t]) /\ End(t)
  /\ mstate' = [mstate EXCEPT ![mr[t]] = "destroyed"]
  /\ UNCHANGED <<held, rq, table, ref, handle, uses, history>>

LockToFree(t) ==
  /\ At(t, "f_lock") /\ Acquire("table") /\ Goto(t, "f_clear")
  /\ UNCHANGED <<call, wr, mr, slot, list, rq, resp, mrs, uses, history, uaf>>

ClearSlot(t) ==
  /\ At(t, "f_clear") /\ Goto(t, "f_unlock")
  /\ table' = [table EXCEPT ![slot[t]] = None]
  /\ UNCHANGED <<call, wr, mr, slot, list, held, rq, resp, ref, mstate, handle, uses, history, uaf>>

\* The memory is freed after the lock is released.
UnlockAndFree(t) ==
  /\ At(t, "f_unlock") /\ Release("table") /\ End(t)
  /\ mstate' = [mstate EXCEPT ![mr[t]] = "freed"]
  /\ UNCHANGED <<rq, table, ref, handle, uses, history, uaf>>

-----------------------------------------------------------------------------
(* roce_resource_alloc: the first empty slot. *)

\* Mutant: the slot is looked for before the table is locked.
LockTableLate(t) ==
  /\ At(t, "t_lock") /\ Goto(t, "t_load")
  /\ UNCHANGED <<call, wr, mr, slot, list, held, rq, resp, mrs, uses, history, uaf>>

LockTable(t) ==
  /\ At(t, "t_lock") /\ Acquire("table") /\ Goto(t, "t_load")
  /\ UNCHANGED <<call, wr, mr, slot, list, rq, resp, mrs, uses, history, uaf>>

LoadSlot(t) ==
  LET empty == {i \in Slots : table[i] = None} IN
  /\ At(t, "t_load")
  /\ \/ /\ empty = {} /\ Goto(t, "t_unlock")
        /\ slot' = [slot EXCEPT ![t] = None]
     \/ /\ Goto(t, "t_store")
        /\ \E i \in empty : (\A j \in empty : i <= j) /\ slot' = [slot EXCEPT ![t] = i]
  /\ UNCHANGED <<call, wr, mr, list, held, rq, resp, mrs, uses, history, uaf>>

StoreSlot(t) ==
  /\ At(t, "t_store") /\ Goto(t, "t_unlock")
  /\ table' = [table EXCEPT ![slot[t]] = mr[t]]
  /\ handle' = [handle EXCEPT ![mr[t]] = slot[t]]
  /\ UNCHANGED <<call, wr, mr, slot, list, held, rq, resp, ref, mstate, uses, history, uaf>>

\* With -EBUSY the new MR is freed.
UnlockTable(t) ==
  /\ At(t, "t_unlock") /\ Release("table") /\ Return(t)
  /\ mstate' = [mstate EXCEPT ![mr[t]] = IF slot[t] = None THEN "freed" ELSE "valid"]
  /\ UNCHANGED <<rq, resp, table, ref, handle, uses, history, uaf>>

-----------------------------------------------------------------------------
ConcInit ==
  /\ call = [t \in Threads |-> None] /\ pc = [t \in Threads |-> "start"]
  /\ wr = [t \in Threads |-> None] /\ mr = [t \in Threads |-> None]
  /\ slot = [t \in Threads |-> None] /\ list = [t \in Threads |-> <<>>]
  /\ held = [l \in {"rq", "table"} |-> FALSE]
  /\ rq = <<>> /\ resp = None /\ table = [i \in Slots |-> None]
  /\ ref = [m \in Mrs |-> 0] /\ mstate = [m \in Mrs |-> "none"]
  /\ handle = [m \in Mrs |-> None] /\ uses = [w \in Wrs |-> None]
  /\ posted = <<>> /\ taken = <<>> /\ uaf = FALSE

\* The steps of a call that has begun.
Step(t) ==
  \/ Lookup(t, "get", "ref") \/ TakeReference(t)
  \/ PopUnlessHeld(t) \/ LockQueue(t) \/ LoadQueue(t) \/ AddTail(t) \/ Pop(t) \/ UnlockQueue(t)
  \/ Lookup(t, "map", "map_state") \/ MapState(t)
  \/ Lookup(t, "find", "dec") \/ PutReference(t) \/ CheckState(t)
  \/ Lookup(t, "look", "busy") \/ DestroyUnlessBusy(t) \/ MarkDestroyed(t)
  \/ LockToFree(t) \/ ClearSlot(t) \/ UnlockAndFree(t)
  \/ LockTable(t) \/ LoadSlot(t) \/ StoreSlot(t) \/ UnlockTable(t)

ConcNext ==
  \E t \in Threads :
    \/ \E w \in Wrs, m \in Mrs : PostRecv(t, w, m)
    \/ Receive(t)
    \/ \E m \in Mrs : CreateMr(t, m) \/ DestroyMr(t, m)
    \/ Step(t)

ConcSpec == ConcInit /\ [][ConcNext]_conc_vars

(***************************************************************************)
(* A thread that is in a call runs, but one that waits for a lock may find *)
(* it taken for ever: a spin lock is not fair.                             *)
(***************************************************************************)
ConcFairSpec == ConcSpec /\ \A t \in Threads : WF_conc_vars(Step(t))

\* Packets keep arriving, and whoever waits for rq.lock gets it at last.
ConcFairLocksSpec ==
  /\ ConcFairSpec
  /\ \A t \in Threads : SF_conc_vars(LockQueue(t))
  /\ WF_conc_vars(\E t \in Threads : Receive(t))

-----------------------------------------------------------------------------
InQueue(t) == pc[t] \in {"q_load", "q_store", "q_unlock"}
InTable(t) == pc[t] \in {"t_load", "t_store", "t_unlock", "f_clear", "f_unlock"}

Labels == {"start", "get", "ref", "pop", "q_lock", "q_load", "q_store", "q_unlock",
           "map", "map_state", "find", "dec", "check", "look", "busy", "mark",
           "f_lock", "f_clear", "f_unlock", "t_lock", "t_load", "t_store", "t_unlock"}

ConcShape ==
  /\ call \in [Threads -> Calls \cup {None}] /\ pc \in [Threads -> Labels]
  /\ wr \in [Threads -> Wrs \cup {None}] /\ mr \in [Threads -> Mrs \cup {None}]
  /\ slot \in [Threads -> Slots \cup {None}] /\ list \in [Threads -> Seq(Wrs)]
  /\ held \in [{"rq", "table"} -> BOOLEAN]
  /\ rq \in Seq(Wrs) /\ resp \in Wrs \cup {None} /\ posted \in Seq(Wrs) /\ taken \in Seq(Wrs)
  /\ table \in [Slots -> Mrs \cup {None}] /\ handle \in [Mrs -> Slots \cup {None}]
  /\ ref \in [Mrs -> Int] /\ uses \in [Wrs -> Mrs \cup {None}] /\ uaf \in BOOLEAN
  /\ mstate \in [Mrs -> {"none", "new", "valid", "destroyed", "freed"}]

\* A thread between roce_spin_lock and roce_spin_unlock has the lock taken.
InsideHolds == \A t \in Threads : (InQueue(t) => held["rq"]) /\ (InTable(t) => held["table"])

\* Every variable has its type, and a lock is taken while a thread is inside.
ConcTypeOK == ConcShape /\ InsideHolds

(***************************************************************************)
(* What a spin lock is for: one thread at a time is between roce_spin_lock *)
(* and roce_spin_unlock of the list and of the table.  The header calls    *)
(* the default functions those of libc, fine for general programs.         *)
(***************************************************************************)
LocksExclude ==
  \A t, u \in Threads : t # u => ~(InQueue(t) /\ InQueue(u)) /\ ~(InTable(t) /\ InTable(u))

(***************************************************************************)
(* However posting threads and the receiving thread interleave, every      *)
(* receive WR is taken once and in the order of posting: what was put in   *)
(* the list is what was taken out followed by what is in it.               *)
(***************************************************************************)
RecvWrsInOrder == posted = taken \o rq

(***************************************************************************)
(* No handle is given to two MRs: an MR that exists is in the table at its *)
(* own handle, while other threads create and free.                        *)
(***************************************************************************)
HandlesUnique ==
  \A m \in Mrs : mstate[m] \in {"valid", "destroyed"} =>
    \/ table[handle[m]] = m
    \/ \E t \in Threads : mr[t] = m /\ At(t, "f_unlock")

\* Steps of a reception that has put the reference of its WR.
Freeing == {"check", "look", "busy", "mark", "f_lock", "f_clear", "f_unlock"}

(***************************************************************************)
(* The reference count of an MR is the number of receive WRs that name it  *)
(* and have neither been freed nor failed to get it, across the calls that *)
(* take and put references at the same time.                               *)
(***************************************************************************)
WrsOf(m) ==
  {w \in Wrs : /\ uses[w] = m
               /\ \A t \in Threads : wr[t] = w => pc[t] \notin {"get", "ref"} \cup Freeing
               /\ \/ \E t \in Threads : wr[t] = w
                  \/ \E i \in 1 .. Len(rq) : rq[i] = w
                  \/ resp = w}

ConcRefsExact == \A m \in Mrs : ref[m] = Cardinality(WrsOf(m))

\* No thread follows a pointer to a freed MR, and none is freed while a WR names it.
NoUseAfterFree ==
  /\ ~uaf
  /\ \A m \in Mrs : mstate[m] = "freed" => WrsOf(m) = {}

\* A lock that is taken is released again, on every path of every call.
LocksReleased == \A l \in {"rq", "table"} : held[l] ~> ~held[l]

(***************************************************************************)
(* "Destroy later": an MR that waits to be destroyed is one that a WR uses *)
(* or that a reception is about to free, so that somebody will see that it *)
(* waits.                                                                  *)
(***************************************************************************)
PendingIsSeen ==
  \A m \in Mrs : mstate[m] = "destroyed" =>
    \/ WrsOf(m) # {}
    \/ \E t \in Threads : call[t] = "receive" /\ pc[t] \in Freeing /\ uses[wr[t]] = m

\* "MR in use.  Destroy later": an MR destroyed while WRs use it is freed in
\* the end, when packets keep arriving.
DestroyedIsFreed == \A m \in Mrs : mstate[m] = "destroyed" ~> mstate[m] = "freed"
=============================================================================
