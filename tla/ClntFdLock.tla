------------------------------ MODULE ClntFdLock -----------------------------
(***************************************************************************)
(* The per-descriptor locks of libtirpc's clients (clnt_fd_locks.h and its *)
(* users in clnt_vc.c and clnt_dg.c): threads that call, control, free     *)
(* results on and destroy CLIENT handles that share one descriptor.  The   *)
(* mutex clnt_fd_lock is held for the length of an action; the condition   *)
(* variable is signalled outside it.                                       *)
(***************************************************************************)
EXTENDS Integers, FiniteSets

CONSTANTS Threads, Handles,
          Blocks,     \* memory a lock item may be allocated in
          None,
          StaysActive,  \* does freeres leave the lock active? (clnt_dg.c)
          MaxOps,     \* bound on the operations of one thread
          MaxRefs     \* bound on the references to one lock

ASSUME LockAssumption ==
  Handles /= {} /\ None \notin Blocks /\ MaxOps \in Nat /\ MaxRefs \in Nat /\ StaysActive \in BOOLEAN

Ops == {"call", "control", "freeres", "destroy"}

VARIABLES
  item,      \* the list entry of the descriptor, or None
  active, refs,   \* per block
  lock,      \* handle -> the lock it points to; None: no such handle
  pc, op, on,     \* thread: where it is, its operation, its handle
  ops,       \* operations a thread has begun
  at         \* the lock a thread will signal after its unlock

vars == <<item, active, refs, lock, pc, op, on, ops, at>>

Alive(b) == b = item
Waiting(b) == {t \in Threads : pc[t] = "wait" /\ lock[on[t]] = b}

Init ==
  /\ item = None
  /\ active = [b \in Blocks |-> FALSE] /\ refs = [b \in Blocks |-> 0]
  /\ lock = [h \in Handles |-> None]
  /\ pc = [t \in Threads |-> "idle"]
  /\ op = [t \in Threads |-> "call"] /\ on = [t \in Threads |-> CHOOSE h \in Handles : TRUE]
  /\ ops = [t \in Threads |-> 0] /\ at = [t \in Threads |-> None]

-----------------------------------------------------------------------------
(* fd_lock_create: the entry of the descriptor, or a new one.              *)
create_uncounted(h) ==
  IF item = None
  THEN \E b \in Blocks : /\ item' = b /\ refs' = [refs EXCEPT ![b] = 1]
                         /\ active' = [active EXCEPT ![b] = FALSE]
                         /\ lock' = [lock EXCEPT ![h] = b]
  ELSE UNCHANGED <<item, active, refs>> /\ lock' = [lock EXCEPT ![h] = item]
fd_lock_create(h) ==
  IF item = None
  THEN \E b \in Blocks : /\ item' = b /\ refs' = [refs EXCEPT ![b] = 1]
                         /\ active' = [active EXCEPT ![b] = FALSE]
                         /\ lock' = [lock EXCEPT ![h] = b]
  ELSE /\ refs' = [refs EXCEPT ![item] = @ + 1]
       /\ UNCHANGED <<item, active>> /\ lock' = [lock EXCEPT ![h] = item]

(* fd_lock_destroy: the last reference frees the entry.                    *)
fd_lock_destroy(b) ==
  /\ refs' = [refs EXCEPT ![b] = @ - 1]
  /\ item' = IF refs[b] - 1 <= 0 THEN None ELSE item

CanCreate(h) == lock[h] = None /\ (item /= None => refs[item] < MaxRefs)

(* clnt_vc_create, clnt_dg_create.                                         *)
Create(h) ==
  /\ CanCreate(h) /\ fd_lock_create(h)
  /\ UNCHANGED <<pc, op, on, ops, at>>

(* connect fails after the lock was taken: no handle, the reference stays. *)
CreateFails(h) ==
  /\ CanCreate(h)
  /\ IF item = None
     THEN \E b \in Blocks : /\ item' = b /\ refs' = [refs EXCEPT ![b] = 1]
                            /\ active' = [active EXCEPT ![b] = FALSE]
     ELSE refs' = [refs EXCEPT ![item] = @ + 1] /\ UNCHANGED <<item, active>>
  /\ UNCHANGED <<lock, pc, op, on, ops, at>>

-----------------------------------------------------------------------------
Busy(h) == {t \in Threads : pc[t] /= "idle" /\ on[t] = h}

(* A thread begins an operation.  Nothing is begun on a handle that is     *)
(* being destroyed, and a handle is destroyed when nothing is under way on *)
(* it: "Use of clnt is undefined after" clnt_destroy.                      *)
Begin(t, o, h) ==
  /\ pc[t] = "idle" /\ ops[t] < MaxOps /\ lock[h] /= None
  /\ \A u \in Busy(h) : op[u] /= "destroy"
  /\ o = "destroy" => Busy(h) = {}
  /\ pc' = [pc EXCEPT ![t] = "want"]
  /\ op' = [op EXCEPT ![t] = o] /\ on' = [on EXCEPT ![t] = h]
  /\ ops' = [ops EXCEPT ![t] = @ + 1]
  /\ UNCHANGED <<item, active, refs, lock, at>>

(* cond_signal: one of the waiters, if there is one, looks again.          *)
Wake(b, pc1) ==
  LET W == {t \in Threads : pc1[t] = "wait" /\ lock[on[t]] = b} IN
  IF W = {} THEN pc' = pc1 ELSE \E w \in W : pc' = [pc1 EXCEPT ![w] = "want"]

(* "while (fd_lock->active) cond_wait": the mutex taken, the lock busy.    *)
Wait(t) ==
  /\ pc[t] = "want" /\ active[lock[on[t]]]
  /\ pc' = [pc EXCEPT ![t] = "wait"]
  /\ UNCHANGED <<item, active, refs, lock, op, on, ops, at>>
SpuriousWakeup(t) ==
  /\ pc[t] = "wait" /\ pc' = [pc EXCEPT ![t] = "want"]
  /\ UNCHANGED <<item, active, refs, lock, op, on, ops, at>>

(* clnt_*_call and clnt_*_control make the lock active and let the mutex   *)
(* go.                                                                     *)
Acquire(t) ==
  /\ pc[t] = "want" /\ op[t] \in {"call", "control"} /\ ~active[lock[on[t]]]
  /\ active' = [active EXCEPT ![lock[on[t]]] = TRUE]
  /\ pc' = [pc EXCEPT ![t] = "active"]
  /\ UNCHANGED <<item, refs, lock, op, on, ops, at>>

(* release_fd_lock: inactive under the mutex, the signal after it.         *)
release_silent(t) ==
  /\ pc[t] = "active"
  /\ active' = [active EXCEPT ![lock[on[t]]] = FALSE]
  /\ pc' = [pc EXCEPT ![t] = "idle"]
  /\ UNCHANGED <<item, refs, lock, op, on, ops, at>>
release_fd_lock(t) ==
  /\ pc[t] = "active"
  /\ active' = [active EXCEPT ![lock[on[t]]] = FALSE]
  /\ at' = [at EXCEPT ![t] = lock[on[t]]]
  /\ pc' = [pc EXCEPT ![t] = "signal"]
  /\ UNCHANGED <<item, refs, lock, op, on, ops>>

(* clnt_vc_freeres works under the mutex, without making the lock active,  *)
(* and passes the wakeup it may have taken on.  clnt_dg_freeres makes the  *)
(* lock active and leaves it so.                                           *)
FreeRes(t) ==
  /\ pc[t] = "want" /\ op[t] = "freeres" /\ ~active[lock[on[t]]]
  /\ at' = [at EXCEPT ![t] = lock[on[t]]]
  /\ pc' = [pc EXCEPT ![t] = "signal"]
  /\ active' = IF StaysActive THEN [active EXCEPT ![lock[on[t]]] = TRUE] ELSE active
  /\ UNCHANGED <<item, refs, lock, op, on, ops>>

Signal(t) ==
  /\ pc[t] = "signal"
  /\ Wake(at[t], [pc EXCEPT ![t] = "idle"])
  /\ at' = [at EXCEPT ![t] = None]
  /\ UNCHANGED <<item, active, refs, lock, op, on, ops>>

(* clnt_*_destroy: frees the handle, signals and drops the lock, all under *)
(* the mutex.                                                              *)
Destroy(t) ==
  /\ pc[t] = "want" /\ op[t] = "destroy" /\ ~active[lock[on[t]]]
  /\ Wake(lock[on[t]], [pc EXCEPT ![t] = "idle"])
  /\ lock' = [lock EXCEPT ![on[t]] = None]
  /\ fd_lock_destroy(lock[on[t]])
  /\ UNCHANGED <<active, op, on, ops, at>>

Step(t) == Wait(t) \/ Acquire(t) \/ release_fd_lock(t) \/ FreeRes(t) \/ Signal(t) \/ Destroy(t)

Next ==
  \/ \E h \in Handles : Create(h) \/ CreateFails(h)
  \/ \E t \in Threads : \/ Step(t) \/ SpuriousWakeup(t)
                        \/ \E o \in Ops, h \in Handles : Begin(t, o, h)

Spec == Init /\ [][Next]_vars
(* Every thread is scheduled.                                              *)
FairSpec == Spec /\ \A t \in Threads : WF_vars(Step(t))

-----------------------------------------------------------------------------
(* Types; a thread inside an operation has a handle.                       *)
TypeOK ==
  /\ item \in Blocks \cup {None}
  /\ active \in [Blocks -> BOOLEAN] /\ refs \in [Blocks -> Int]
  /\ lock \in [Handles -> Blocks \cup {None}]
  /\ pc \in [Threads -> {"idle", "want", "wait", "active", "signal"}]
  /\ op \in [Threads -> Ops] /\ on \in [Threads -> Handles]
  /\ ops \in [Threads -> Int] /\ at \in [Threads -> Blocks \cup {None}]
  /\ \A t \in Threads : pc[t] \in {"want", "wait", "active"} => lock[on[t]] /= None

(* "fd_lock->active == TRUE => a call is active on some CLIENT handle      *)
(* created for that fd" (clnt_vc.c), and never two: no two threads use a   *)
(* descriptor at once, through one handle or through several.              *)
OneCallPerDescriptor ==
  \A t, u \in Threads :
    pc[t] = "active" /\ pc[u] = "active" /\ lock[on[t]] = lock[on[u]] => t = u

(* The lock a handle points to, and the one a thread is about to signal    *)
(* after its unlock, is not freed: it is the entry of the list, although   *)
(* other threads destroy and create handles meanwhile.                     *)
LockOutlivesUse ==
  /\ \A h \in Handles : lock[h] /= None => Alive(lock[h])
  /\ \A t \in Threads : pc[t] = "signal" => Alive(at[t])

(* A thread waits only while the lock is active or someone who will signal *)
(* or look at the lock is under way: the wakeup that a single cond_signal  *)
(* gives is never lost with a waiter that does not need the lock.          *)
NoLostWakeup ==
  \A b \in Blocks : Waiting(b) /= {} /\ ~active[b] =>
    \E t \in Threads : \/ pc[t] = "signal" /\ at[t] = b
                       \/ pc[t] = "want" /\ lock[on[t]] = b

(* "fd_lock->active == TRUE => a call is active on some CLIENT handle      *)
(* created for that fd" (clnt_dg.c:86), a call or a clnt_control.          *)
ActiveMeansCall ==
  \A b \in Blocks : active[b] => \E t \in Threads : pc[t] = "active" /\ lock[on[t]] = b

(* The list has one entry, every handle points to it, and the entry counts *)
(* at least the handles: a creation that fails leaves its count behind.    *)
Using == {h \in Handles : lock[h] /= None}
Counted ==
  /\ \A h \in Handles : lock[h] /= None => lock[h] = item
  /\ IsFiniteSet(Using)
  /\ item /= None => Cardinality(Using) <= refs[item]

(* A handle stays while an operation is under way on it, also until its    *)
(* late signal is given; who destroys one is alone on it.                  *)
HandleHeld ==
  \A t \in Threads : pc[t] /= "idle" =>
    /\ lock[on[t]] /= None
    /\ pc[t] = "signal" => at[t] = lock[on[t]]
    /\ op[t] = "destroy" =>
         /\ pc[t] \in {"want", "wait"}
         /\ \A u \in Threads : pc[u] /= "idle" /\ on[u] = on[t] => u = t

(* Who uses the descriptor has made its lock active.                       *)
UseIsActive == \A t \in Threads : pc[t] = "active" => active[lock[on[t]]]

(* Threads that call, control and destroy handles of one descriptor: no    *)
(* two use it at once, no lock is freed while a handle or a thread that is *)
(* about to signal still points to it, no wakeup is lost, and an active    *)
(* lock is some thread's; the last where results are freed the way         *)
(* clnt_vc.c does it.  With the counts and the handles under way this is   *)
(* inductive (clnt_vc.c, clnt_dg.c, clnt_fd_locks.h).                      *)
DescriptorLockSafe ==
  /\ TypeOK /\ OneCallPerDescriptor /\ LockOutlivesUse /\ NoLostWakeup
  /\ ~StaysActive => ActiveMeansCall
  /\ Counted /\ HandleHeld /\ UseIsActive

(* Every operation returns: threads that wait are let in, once the         *)
(* others' operations (bounded in number) are over.                        *)
OperationReturns == \A t \in Threads : []<>(pc[t] = "idle")
=============================================================================
