---------------------------- MODULE ClientsProof -----------------------------
(***************************************************************************)
(* Proofs about libtirpc's clients: the safety of the per-descriptor locks *)
(* (ClntFdLock) for any number of threads, handles and lock items, with    *)
(* either way of freeing results; and that a connected client (ClntVc)     *)
(* returns the reply of its own call and has no call executed twice, for   *)
(* any number of calls; that a search for a port (BindPort) stays in its   *)
(* range and passes over no port that was free; and that the handles of a  *)
(* thread (ClntGeneric) own the library's descriptors and are what their   *)
(* caller asked for.                                                       *)
(***************************************************************************)
EXTENDS MCClients, Sequences, FiniteSetTheorems, SequenceTheorems, WellFoundedInduction,
        TLAPS

PCs == {"idle", "want", "wait", "active", "signal"}

(* The parts of the invariant that speak of threads, in one formula.       *)
ThreadParts ==
  /\ OneCallPerDescriptor /\ LockOutlivesUse /\ NoLostWakeup
  /\ ~StaysActive => ActiveMeansCall
  /\ HandleHeld /\ UseIsActive

(* A handle that is created joins those that point to the lock.            *)
LEMMA UsingGrows ==
  ASSUME IsFiniteSet(Using), lock \in [Handles -> Blocks \cup {None}],
         NEW h \in Handles, lock[h] = None, NEW b \in Blocks,
         lock' = [lock EXCEPT ![h] = b]
  PROVE  IsFiniteSet(Using') /\ Cardinality(Using') = Cardinality(Using) + 1
<1>1. Using' = Using \cup {h} /\ h \notin Using
  BY LockAssumption DEF Using
<1> QED BY <1>1, FS_AddElement

(* A handle that is destroyed leaves them.                                 *)
LEMMA UsingShrinks ==
  ASSUME IsFiniteSet(Using), lock \in [Handles -> Blocks \cup {None}],
         NEW h \in Handles, lock[h] /= None,
         lock' = [lock EXCEPT ![h] = None]
  PROVE  /\ IsFiniteSet(Using') /\ Cardinality(Using') = Cardinality(Using) - 1
         /\ Cardinality(Using') \in Nat
         /\ Cardinality(Using') = 0 => \A g \in Handles : lock'[g] = None
<1>1. Using' = Using \ {h} /\ h \in Using
  BY DEF Using
<1>2. IsFiniteSet(Using') /\ Cardinality(Using') = Cardinality(Using) - 1
  BY <1>1, FS_RemoveElement
<1>3. Cardinality(Using') \in Nat
  BY <1>2, FS_CardinalityType
<1>4. Cardinality(Using') = 0 => Using' = {}
  BY <1>2, FS_EmptySet
<1> QED BY <1>2, <1>3, <1>4 DEF Using

(* What a thread that is done and gives cond_signal does to the threads:   *)
(* it is idle, and one of the waiters, if there is one, looks again.       *)
LEMMA WakeOne ==
  ASSUME TypeOK, NEW t \in Threads, NEW b \in Blocks, Wake(b, [pc EXCEPT ![t] = "idle"])
  PROVE  /\ pc' \in [Threads -> PCs] /\ pc'[t] = "idle"
         /\ \A u \in Threads : u /= t =>
              pc'[u] = pc[u] \/ (pc[u] = "wait" /\ lock[on[u]] = b /\ pc'[u] = "want")
         /\ (\E u \in Threads : u /= t /\ pc[u] = "wait" /\ lock[on[u]] = b)
              => \E u \in Threads : /\ u /= t /\ pc[u] = "wait" /\ pc'[u] = "want"
                                    /\ lock[on[u]] = b
<1> DEFINE pc1 == [pc EXCEPT ![t] = "idle"]
           W == {u \in Threads : pc1[u] = "wait" /\ lock[on[u]] = b}
<1>1. pc1 \in [Threads -> PCs] /\ pc1[t] = "idle" /\ \A u \in Threads : u /= t => pc1[u] = pc[u]
  BY DEF TypeOK, PCs
<1>2. CASE W = {}
  <2>1. pc' = pc1
    BY <1>2 DEF Wake
  <2> QED BY <1>1, <1>2, <2>1
<1>3. CASE W /= {}
  <2>1. PICK w \in W : pc' = [pc1 EXCEPT ![w] = "want"]
    BY <1>3 DEF Wake
  <2> HIDE DEF pc1
  <2> QED BY <1>1, <2>1 DEF PCs
<1> QED BY <1>2, <1>3

(* The state clnt_vc_create and clnt_dg_create first find: nothing exists. *)
LEMMA LockInit == Init => DescriptorLockSafe
<1> SUFFICES ASSUME Init PROVE DescriptorLockSafe
  OBVIOUS
<1>1. TypeOK
  BY LockAssumption DEF Init, TypeOK, Ops
<1>2. Using = {}
  BY DEF Init, Using
<1>3. Counted
  BY <1>2, FS_EmptySet DEF Init, Counted
<1>4. ThreadParts
  BY <1>1 DEF Init, TypeOK, ThreadParts, OneCallPerDescriptor, LockOutlivesUse, NoLostWakeup,
     Waiting, ActiveMeansCall, HandleHeld, UseIsActive
<1> QED BY <1>1, <1>3, <1>4 DEF DescriptorLockSafe, ThreadParts

(* Creating a handle, or failing to after the lock was taken, disturbs no  *)
(* thread: the entry is new only when no handle is left.                   *)
LEMMA CreateSafe ==
  ASSUME DescriptorLockSafe, NEW h \in Handles, Create(h) \/ CreateFails(h)
  PROVE  DescriptorLockSafe'
<1> USE LockAssumption
<1>1. TypeOK /\ Counted /\ ThreadParts /\ lock[h] = None
  BY DEF DescriptorLockSafe, ThreadParts, Create, CreateFails, CanCreate
<1>2. UNCHANGED <<pc, op, on, ops, at>>
  BY DEF Create, CreateFails
<1>3. /\ item' \in Blocks
      /\ active' \in [Blocks -> BOOLEAN] /\ refs' \in [Blocks -> Int]
      /\ IF item = None
         THEN refs'[item'] = 1 /\ active' = [active EXCEPT ![item'] = FALSE]
         ELSE refs'[item] = refs[item] + 1 /\ item' = item /\ active' = active
  <2>1. CASE item = None
    <3>1. PICK b \in Blocks : /\ item' = b /\ refs' = [refs EXCEPT ![b] = 1]
                              /\ active' = [active EXCEPT ![b] = FALSE]
      BY <2>1 DEF Create, CreateFails, fd_lock_create
    <3> QED BY <1>1, <2>1, <3>1 DEF TypeOK
  <2>2. CASE item /= None
    <3>1. refs' = [refs EXCEPT ![item] = @ + 1] /\ item' = item /\ active' = active
      BY <2>2 DEF Create, CreateFails, fd_lock_create
    <3> QED BY <1>1, <2>2, <3>1 DEF TypeOK
  <2> QED BY <2>1, <2>2
<1>4. lock' = lock \/ lock' = [lock EXCEPT ![h] = item']
  BY DEF Create, CreateFails, fd_lock_create
<1>5. TypeOK'
  BY <1>1, <1>2, <1>3, <1>4 DEF TypeOK
<1>6. Counted'
  <2>1. item = None => Using = {} /\ Cardinality(Using) = 0
    BY <1>1, FS_EmptySet DEF Counted, Using
  <2>2. Cardinality(Using) \in Nat
    BY <1>1, FS_CardinalityType DEF Counted
  <2>3. /\ IsFiniteSet(Using')
        /\ \/ Cardinality(Using') = Cardinality(Using)
           \/ Cardinality(Using') = Cardinality(Using) + 1
    <3>1. CASE lock' = lock
      BY <1>1, <3>1 DEF Counted, Using
    <3>2. CASE lock' = [lock EXCEPT ![h] = item']
      BY <1>1, <1>3, <3>2, UsingGrows DEF Counted, TypeOK
    <3> QED BY <1>4, <3>1, <3>2
  <2>4. Cardinality(Using') <= refs'[item']
    BY <1>1, <1>3, <2>1, <2>2, <2>3 DEF Counted, TypeOK
  <2> QED BY <1>1, <1>3, <1>4, <2>3, <2>4 DEF Counted, TypeOK
<1>7. ThreadParts'
  <2>1. /\ \A t \in Threads : pc[t] /= "idle" => lock'[on[t]] = lock[on[t]] /\ on[t] /= h
        /\ item = None => \A t \in Threads : pc[t] = "idle"
    BY <1>1, <1>4 DEF ThreadParts, HandleHeld, Counted, TypeOK
  <2>2. LockOutlivesUse' /\ OneCallPerDescriptor'
    BY <1>1, <1>2, <1>3, <1>4, <2>1
    DEF ThreadParts, LockOutlivesUse, OneCallPerDescriptor, Alive, TypeOK, HandleHeld, Counted
  <2>3. HandleHeld' /\ UseIsActive'
    BY <1>1, <1>2, <1>3, <2>1 DEF ThreadParts, HandleHeld, UseIsActive, TypeOK
  <2>4. NoLostWakeup'
    BY <1>1, <1>2, <1>3, <2>1 DEF ThreadParts, NoLostWakeup, Waiting, TypeOK
  <2>5. ~StaysActive => ActiveMeansCall'
    BY <1>1, <1>2, <1>3, <2>1 DEF ThreadParts, ActiveMeansCall, TypeOK
  <2> QED BY <2>2, <2>3, <2>4, <2>5 DEF ThreadParts
<1> QED BY <1>5, <1>6, <1>7 DEF DescriptorLockSafe, ThreadParts

(* The operations of a thread that leave the list of locks and the handles *)
(* alone: begin, wait, be woken, acquire, release, free results, signal.   *)
LEMMA UseSafe ==
  ASSUME DescriptorLockSafe, NEW t \in Threads,
         \/ Wait(t) \/ SpuriousWakeup(t) \/ Acquire(t) \/ release_fd_lock(t)
         \/ FreeRes(t) \/ Signal(t)
         \/ \E o \in Ops, h \in Handles : Begin(t, o, h)
  PROVE  DescriptorLockSafe'
<1> USE LockAssumption DEF TypeOK, PCs
<1>1. TypeOK /\ Counted /\ ThreadParts
  BY DEF DescriptorLockSafe, ThreadParts
<1>2. UNCHANGED <<item, refs, lock>>
  BY DEF Wait, SpuriousWakeup, Acquire, release_fd_lock, FreeRes, Signal, Begin
<1>3. Counted'
  BY <1>1, <1>2 DEF Counted, Using
<1>4. CASE \E o \in Ops, h \in Handles : Begin(t, o, h)
  <2>1. PICK o \in Ops, h \in Handles : Begin(t, o, h)
    BY <1>4
  <2>2. TypeOK'
    BY <1>1, <2>1 DEF Begin
  <2>3. \A u \in Threads : u /= t => pc'[u] = pc[u] /\ on'[u] = on[u] /\ op'[u] = op[u]
    BY <1>1, <2>1 DEF Begin
  <2>4. /\ pc[t] = "idle" /\ pc'[t] = "want" /\ on'[t] = h /\ op'[t] = o /\ lock[h] /= None
        /\ \A u \in Threads : pc[u] /= "idle" /\ on[u] = h => op[u] /= "destroy"
        /\ o = "destroy" => \A u \in Threads : pc[u] /= "idle" => on[u] /= h
    BY <1>1, <2>1 DEF Begin, Busy
  <2>5. UNCHANGED <<at, active>>
    BY <2>1 DEF Begin
  <2>6. HandleHeld'
    BY <1>1, <1>2, <2>3, <2>4, <2>5 DEF ThreadParts, HandleHeld
  <2>7. OneCallPerDescriptor' /\ LockOutlivesUse' /\ UseIsActive'
    BY <1>1, <1>2, <2>3, <2>4, <2>5
    DEF ThreadParts, OneCallPerDescriptor, LockOutlivesUse, UseIsActive, Alive
  <2>8. NoLostWakeup'
    BY <1>1, <1>2, <2>3, <2>4, <2>5 DEF ThreadParts, NoLostWakeup, Waiting
  <2>9. ~StaysActive => ActiveMeansCall'
    BY <1>1, <1>2, <2>3, <2>4, <2>5 DEF ThreadParts, ActiveMeansCall
  <2> QED BY <1>3, <2>2, <2>6, <2>7, <2>8, <2>9 DEF DescriptorLockSafe
<1>5. CASE Wait(t)
  <2>1. TypeOK'
    BY <1>1, <1>5 DEF Wait
  <2>2. /\ pc' = [pc EXCEPT ![t] = "wait"] /\ UNCHANGED <<op, on, at, active>>
        /\ pc[t] = "want" /\ active[lock[on[t]]]
    BY <1>5 DEF Wait
  <2>3. HandleHeld' /\ OneCallPerDescriptor' /\ LockOutlivesUse' /\ UseIsActive'
    BY <1>1, <1>2, <2>2
    DEF ThreadParts, HandleHeld, OneCallPerDescriptor, LockOutlivesUse, UseIsActive, Alive
  <2>4. NoLostWakeup'
    BY <1>1, <1>2, <2>2 DEF ThreadParts, NoLostWakeup, Waiting
  <2>5. ~StaysActive => ActiveMeansCall'
    BY <1>1, <1>2, <2>2 DEF ThreadParts, ActiveMeansCall
  <2> QED BY <1>3, <2>1, <2>3, <2>4, <2>5 DEF DescriptorLockSafe
<1>6. CASE SpuriousWakeup(t)
  <2>1. TypeOK'
    BY <1>1, <1>6 DEF SpuriousWakeup
  <2>2. /\ pc' = [pc EXCEPT ![t] = "want"] /\ UNCHANGED <<op, on, at, active>>
        /\ pc[t] = "wait"
    BY <1>6 DEF SpuriousWakeup
  <2>3. HandleHeld' /\ OneCallPerDescriptor' /\ LockOutlivesUse' /\ UseIsActive'
    BY <1>1, <1>2, <2>2
    DEF ThreadParts, HandleHeld, OneCallPerDescriptor, LockOutlivesUse, UseIsActive, Alive
  <2>4. NoLostWakeup'
    BY <1>1, <1>2, <2>2 DEF ThreadParts, NoLostWakeup, Waiting
  <2>5. ~StaysActive => ActiveMeansCall'
    BY <1>1, <1>2, <2>2 DEF ThreadParts, ActiveMeansCall
  <2> QED BY <1>3, <2>1, <2>3, <2>4, <2>5 DEF DescriptorLockSafe
<1>7. CASE Acquire(t)
  <2>1. TypeOK'
    BY <1>1, <1>7 DEF Acquire
  <2>2. /\ pc' = [pc EXCEPT ![t] = "active"] /\ UNCHANGED <<op, on, at>>
        /\ pc[t] = "want" /\ op[t] /= "destroy" /\ ~active[lock[on[t]]]
        /\ active' = [active EXCEPT ![lock[on[t]]] = TRUE]
    BY <1>7 DEF Acquire
  <2>3. lock[on[t]] \in Blocks
    BY <1>1, <2>2
  <2>4. HandleHeld' /\ OneCallPerDescriptor' /\ LockOutlivesUse' /\ UseIsActive'
    BY <1>1, <1>2, <2>2, <2>3
    DEF ThreadParts, HandleHeld, OneCallPerDescriptor, LockOutlivesUse, UseIsActive, Alive
  <2>5. NoLostWakeup'
    BY <1>1, <1>2, <2>2, <2>3 DEF ThreadParts, NoLostWakeup, Waiting
  <2>6. ~StaysActive => ActiveMeansCall'
    BY <1>1, <1>2, <2>2, <2>3 DEF ThreadParts, ActiveMeansCall
  <2> QED BY <1>3, <2>1, <2>4, <2>5, <2>6 DEF DescriptorLockSafe
<1>8. CASE release_fd_lock(t)
  <2>1. TypeOK'
    BY <1>1, <1>8 DEF release_fd_lock
  <2>2. /\ pc' = [pc EXCEPT ![t] = "signal"] /\ UNCHANGED <<op, on>>
        /\ pc[t] = "active" /\ at' = [at EXCEPT ![t] = lock[on[t]]]
        /\ active' = [active EXCEPT ![lock[on[t]]] = FALSE]
    BY <1>8 DEF release_fd_lock
  <2>3. lock[on[t]] \in Blocks
    BY <1>1, <2>2
  <2>4. HandleHeld' /\ OneCallPerDescriptor' /\ LockOutlivesUse' /\ UseIsActive'
    BY <1>1, <1>2, <2>2, <2>3
    DEF ThreadParts, HandleHeld, OneCallPerDescriptor, LockOutlivesUse, UseIsActive, Alive
  <2>5. NoLostWakeup'
    BY <1>1, <1>2, <2>2, <2>3 DEF ThreadParts, NoLostWakeup, Waiting
  <2>6. ~StaysActive => ActiveMeansCall'
    BY <1>1, <1>2, <2>2, <2>3 DEF ThreadParts, ActiveMeansCall, OneCallPerDescriptor
  <2> QED BY <1>3, <2>1, <2>4, <2>5, <2>6 DEF DescriptorLockSafe
<1>9. CASE FreeRes(t)
  <2>1. /\ pc' = [pc EXCEPT ![t] = "signal"] /\ UNCHANGED <<op, on, ops>>
        /\ pc[t] = "want" /\ op[t] = "freeres" /\ at' = [at EXCEPT ![t] = lock[on[t]]]
        /\ ~active[lock[on[t]]]
        /\ active' = active \/ (StaysActive /\ active' = [active EXCEPT ![lock[on[t]]] = TRUE])
    <3>1. CASE StaysActive
      BY <1>9, <3>1 DEF FreeRes
    <3>2. CASE ~StaysActive
      BY <1>9, <3>2 DEF FreeRes
    <3> QED BY <3>1, <3>2
  <2>2. lock[on[t]] \in Blocks
    BY <1>1, <2>1
  <2>3. TypeOK'
    BY <1>1, <1>2, <2>1, <2>2
  <2>4. HandleHeld' /\ OneCallPerDescriptor' /\ LockOutlivesUse' /\ UseIsActive'
    BY <1>1, <1>2, <2>1, <2>2
    DEF ThreadParts, HandleHeld, OneCallPerDescriptor, LockOutlivesUse, UseIsActive, Alive
  <2>5. NoLostWakeup'
    BY <1>1, <1>2, <2>1, <2>2 DEF ThreadParts, NoLostWakeup, Waiting
  <2>6. ~StaysActive => ActiveMeansCall'
    BY <1>1, <1>2, <2>1 DEF ThreadParts, ActiveMeansCall
  <2> QED BY <1>3, <2>3, <2>4, <2>5, <2>6 DEF DescriptorLockSafe
<1>10. CASE Signal(t)
  <2>1. /\ pc[t] = "signal" /\ UNCHANGED <<active, op, on, ops>>
        /\ Wake(at[t], [pc EXCEPT ![t] = "idle"]) /\ at' = [at EXCEPT ![t] = None]
    BY <1>10 DEF Signal
  <2>2. PICK b \in Blocks : b = at[t]
    BY <1>1, <2>1 DEF ThreadParts, HandleHeld
  <2>3. Wake(b, [pc EXCEPT ![t] = "idle"])
    BY <2>1, <2>2 DEF Wake
  <2>4. /\ pc' \in [Threads -> PCs] /\ pc'[t] = "idle"
        /\ \A u \in Threads : u /= t =>
             pc'[u] = pc[u] \/ (pc[u] = "wait" /\ lock[on[u]] = b /\ pc'[u] = "want")
        /\ (\E u \in Threads : u /= t /\ pc[u] = "wait" /\ lock[on[u]] = b)
             => \E u \in Threads : /\ u /= t /\ pc[u] = "wait" /\ pc'[u] = "want"
                                   /\ lock[on[u]] = b
    BY <1>1, <2>3, WakeOne
  <2>5. TypeOK'
    BY <1>1, <1>2, <2>1, <2>4
  <2>6. HandleHeld' /\ OneCallPerDescriptor' /\ LockOutlivesUse' /\ UseIsActive'
    BY <1>1, <1>2, <2>1, <2>4
    DEF ThreadParts, HandleHeld, OneCallPerDescriptor, LockOutlivesUse, UseIsActive, Alive
  <2>7. NoLostWakeup'
    <3> SUFFICES ASSUME NEW c \in Blocks, NEW w \in Threads, pc'[w] = "wait",
                        lock[on[w]] = c, ~active[c]
                 PROVE  \E u \in Threads : \/ pc'[u] = "signal" /\ at'[u] = c
                                           \/ pc'[u] = "want" /\ lock[on[u]] = c
      BY <1>2, <2>1 DEF NoLostWakeup, Waiting
    <3>1. w /= t /\ pc[w] = "wait"
      BY <2>4
    <3>2. CASE c = b
      BY <2>4, <3>1, <3>2
    <3>3. CASE c /= b
      <4>1. PICK u \in Threads : \/ pc[u] = "signal" /\ at[u] = c
                                 \/ pc[u] = "want" /\ lock[on[u]] = c
        BY <1>1, <3>1 DEF ThreadParts, NoLostWakeup, Waiting
      <4> QED BY <1>1, <2>1, <2>2, <2>4, <3>3, <4>1
    <3> QED BY <3>2, <3>3
  <2>8. ~StaysActive => ActiveMeansCall'
    BY <1>1, <1>2, <2>1, <2>4 DEF ThreadParts, ActiveMeansCall
  <2> QED BY <1>3, <2>5, <2>6, <2>7, <2>8 DEF DescriptorLockSafe
<1> QED BY <1>4, <1>5, <1>6, <1>7, <1>8, <1>9, <1>10

(* clnt_*_destroy: the handle goes, and the entry with the last reference; *)
(* the waiters have handles of their own, and one of them is woken.        *)
LEMMA DestroySafe ==
  ASSUME DescriptorLockSafe, NEW t \in Threads, Destroy(t)
  PROVE  DescriptorLockSafe'
<1> USE LockAssumption DEF TypeOK, PCs
<1>1. TypeOK /\ Counted /\ ThreadParts
  BY DEF DescriptorLockSafe, ThreadParts
<1>2. PICK h \in Handles, b \in Blocks : h = on[t] /\ b = lock[h] /\ b = item
  BY <1>1 DEF Destroy, Counted
<1>3. /\ pc[t] = "want" /\ op[t] = "destroy" /\ ~active[b]
      /\ lock' = [lock EXCEPT ![h] = None]
      /\ refs' = [refs EXCEPT ![b] = @ - 1]
      /\ item' = IF refs[b] - 1 <= 0 THEN None ELSE item
      /\ UNCHANGED <<active, op, on, ops, at>>
  BY <1>2 DEF Destroy, fd_lock_destroy
<1>4. Wake(b, [pc EXCEPT ![t] = "idle"])
  BY <1>2 DEF Destroy, Wake
<1>5. /\ pc' \in [Threads -> PCs] /\ pc'[t] = "idle"
      /\ \A u \in Threads : u /= t =>
           pc'[u] = pc[u] \/ (pc[u] = "wait" /\ lock[on[u]] = b /\ pc'[u] = "want")
      /\ (\E u \in Threads : u /= t /\ pc[u] = "wait" /\ lock[on[u]] = b)
           => \E u \in Threads : /\ u /= t /\ pc[u] = "wait" /\ pc'[u] = "want"
                                 /\ lock[on[u]] = b
  BY <1>1, <1>4, WakeOne
<1>6. /\ IsFiniteSet(Using') /\ Cardinality(Using') = Cardinality(Using) - 1
      /\ Cardinality(Using') \in Nat
      /\ Cardinality(Using') = 0 => \A g \in Handles : lock'[g] = None
  BY <1>1, <1>2, <1>3, UsingShrinks DEF Counted
<1>7. \A u \in Threads : u /= t /\ pc[u] /= "idle" => on[u] /= h /\ lock'[on[u]] = lock[on[u]]
  BY <1>1, <1>2, <1>3 DEF ThreadParts, HandleHeld
<1>8. item' = None => \A g \in Handles : lock'[g] = None
  <2>1. Cardinality(Using) <= refs[b] /\ Cardinality(Using) \in Nat
    BY <1>1, <1>2, FS_CardinalityType DEF Counted
  <2>2. refs[b] \in Int
    BY <1>1
  <2>3. item' = None => refs[b] - 1 <= 0
    BY <1>2, <1>3
  <2>4. item' = None => Cardinality(Using') = 0
    BY <1>6, <2>1, <2>2, <2>3
  <2> QED BY <1>6, <2>4
<1>9. TypeOK'
  BY <1>1, <1>2, <1>3, <1>5, <1>7
<1>10. Counted'
  <2>1. \A g \in Handles : lock'[g] /= None => lock'[g] = item'
    BY <1>1, <1>2, <1>3, <1>8 DEF Counted
  <2>2. item' /= None => Cardinality(Using') <= refs'[item']
    <3>1. Cardinality(Using) <= refs[b] /\ Cardinality(Using) \in Nat /\ refs[b] \in Int
      BY <1>1, <1>2, FS_CardinalityType DEF Counted
    <3>2. refs'[b] = refs[b] - 1 /\ (item' /= None => item' = b)
      BY <1>1, <1>2, <1>3
    <3> QED BY <1>6, <3>1, <3>2
  <2> QED BY <1>6, <2>1, <2>2 DEF Counted
<1>11. HandleHeld'
  BY <1>1, <1>3, <1>5, <1>7 DEF ThreadParts, HandleHeld
<1>12. OneCallPerDescriptor' /\ UseIsActive'
  BY <1>1, <1>3, <1>5, <1>7 DEF ThreadParts, OneCallPerDescriptor, UseIsActive
<1>13. LockOutlivesUse'
  BY <1>1, <1>3, <1>10, <1>11 DEF Counted, LockOutlivesUse, Alive, HandleHeld
<1>14. NoLostWakeup'
  <2> SUFFICES ASSUME NEW c \in Blocks, NEW w \in Threads, pc'[w] = "wait",
                      lock'[on[w]] = c, ~active[c]
               PROVE  \E u \in Threads : \/ pc'[u] = "signal" /\ at[u] = c
                                         \/ pc'[u] = "want" /\ lock'[on[u]] = c
    BY <1>3 DEF NoLostWakeup, Waiting
  <2>1. w /= t /\ pc[w] = "wait" /\ lock[on[w]] = c
    BY <1>5, <1>7
  <2>2. c = b
    BY <1>1, <1>2, <2>1 DEF Counted
  <2> QED BY <1>5, <1>7, <2>1, <2>2
<1>15. ~StaysActive => ActiveMeansCall'
  BY <1>1, <1>2, <1>3, <1>5, <1>7 DEF ThreadParts, ActiveMeansCall
<1> QED BY <1>9, <1>10, <1>11, <1>12, <1>13, <1>14, <1>15 DEF DescriptorLockSafe

(* Threads that share a descriptor, any number of them with any number of  *)
(* handles: one uses it at a time, no lock is freed while a handle or a    *)
(* late signal needs it, and no wakeup is lost (clnt_vc.c, clnt_dg.c,      *)
(* clnt_fd_locks.h).                                                       *)
THEOREM DescriptorLock == Spec => []DescriptorLockSafe
<1>1. DescriptorLockSafe /\ [Next]_vars => DescriptorLockSafe'
  <2> SUFFICES ASSUME DescriptorLockSafe, [Next]_vars PROVE DescriptorLockSafe'
    OBVIOUS
  <2>1. CASE UNCHANGED vars
    BY <2>1 DEF vars, DescriptorLockSafe, TypeOK, OneCallPerDescriptor, LockOutlivesUse, Alive,
       NoLostWakeup, Waiting, ActiveMeansCall, Counted, Using, HandleHeld, UseIsActive
  <2>2. CASE \E h \in Handles : Create(h) \/ CreateFails(h)
    BY <2>2, CreateSafe
  <2>3. CASE \E t \in Threads : \/ Step(t) \/ SpuriousWakeup(t)
                                \/ \E o \in Ops, h \in Handles : Begin(t, o, h)
    BY <2>3, UseSafe, DestroySafe DEF Step
  <2> QED BY <2>1, <2>2, <2>3 DEF Next
<1> QED BY LockInit, <1>1, PTL DEF Spec

-----------------------------------------------------------------------------
(* A connected client.                                                     *)
VcMessage == [xid : Int, id : Nat, cred : {"full", "short"}]
VcReply   == [xid : Int, id : Nat, kind : {"SUCCESS", "AUTHERROR", "SYSTEMERROR", "garbage"}]

(* The calls q on their way to the server, when the handle is at xid x,    *)
(* has begun n calls and e counts the executions: xids only go down, no    *)
(* call is there twice, and none was executed.                             *)
Queued(q, x, n, e) ==
  /\ \A j \in 1 .. Len(q) : q[j].xid >= x /\ q[j].id \in 1 .. n /\ e[q[j].id] = 0
  /\ \A i, j \in 1 .. Len(q) : i < j => q[i].id /= q[j].id

(* The call under way is on no way to the server and was not executed: it  *)
(* may be sent, again.                                                     *)
Sendable(q, c, e) == e[c] = 0 /\ \A j \in 1 .. Len(q) : q[j].id /= c

(* No call on its way under the shorthand was executed for a shorthand and *)
(* answered by an error before: such a call goes on with the full one.     *)
Fresh(q, r) == \A j \in 1 .. Len(q) : q[j].cred = "short" => r[q[j].id] = 0

VcTypes ==
  /\ xid \in Int /\ ct_wait \in Waits \cup {1} /\ ct_waitset \in BOOLEAN
  /\ cred \in {"full", "short"} /\ refreshes \in -1 .. 2
  /\ vc_pc \in {"idle", "send", "read", "reply"}
  /\ vc_calls \in 0 .. MaxCalls
  /\ executed \in [1 .. MaxCalls -> 0 .. 1] /\ erred \in [1 .. MaxCalls -> 0 .. 1]
  /\ \A c \in 1 .. MaxCalls : c > vc_calls => executed[c] = 0 /\ erred[c] = 0
  /\ outbuf \in Seq(VcMessage) /\ to_server \in Seq(VcMessage)
  /\ to_client \in Seq(VcReply)

(* What is known of the call under way: a reply with its xid is its own,   *)
(* and one that makes the client send it again, as every error does while  *)
(* it uses the shorthand, says that no execution of it stands.             *)
UnderWay ==
  /\ vc_pc /= "idle" =>
       /\ call.id = vc_calls /\ vc_calls \in 1 .. MaxCalls /\ refreshes >= 0
  /\ vc_pc = "send" =>
       /\ Sendable(to_server \o outbuf, call.id, executed)
       /\ cred = "short" => erred[call.id] = 0
  /\ vc_pc = "read" =>
       /\ x_id = xid
       /\ \A j \in 1 .. Len(to_server \o outbuf) :
            (to_server \o outbuf)[j].xid = x_id =>
              /\ (to_server \o outbuf)[j].id = call.id
              /\ (to_server \o outbuf)[j].cred = cred
       /\ \A j \in 1 .. Len(to_client) : to_client[j].xid = x_id =>
            /\ to_client[j].id = call.id
            /\ to_client[j].kind \in {"AUTHERROR", "SYSTEMERROR"} /\ cred = "short" =>
                 Sendable(to_server \o outbuf, call.id, executed)
  /\ vc_pc = "reply" =>
       /\ result = call.id
       /\ status /= "SUCCESS" /\ cred = "short" => Sendable(to_server \o outbuf, call.id, executed)

ConnectedInv ==
  /\ VcTypes
  /\ Queued(to_server \o outbuf, xid, vc_calls, executed)
  /\ Fresh(to_server \o outbuf, erred)
  /\ \A j \in 1 .. Len(to_client) : to_client[j].xid >= xid /\ to_client[j].id \in 1 .. vc_calls
  /\ UnderWay

(* A new call joins the others with the next xid down.                     *)
LEMMA QueuedAppend ==
  ASSUME NEW q \in Seq(VcMessage), NEW x \in Int, NEW n \in Nat, NEW e, Queued(q, x, n, e),
         NEW m \in VcMessage, m.xid = x - 1, m.id \in 1 .. n, Sendable(q, m.id, e)
  PROVE  Append(q, m) \in Seq(VcMessage) /\ Queued(Append(q, m), x - 1, n, e)
<1> DEFINE p == Append(q, m)
<1>1. p \in Seq(VcMessage) /\ Len(p) = Len(q) + 1 /\ Len(q) \in Nat
  OBVIOUS
<1>2. p[Len(q) + 1] = m /\ \A j \in 1 .. Len(q) : p[j] = q[j]
  OBVIOUS
<1>3. \A j \in 1 .. Len(q) : q[j].xid \in Int
  <2>1. \A j \in 1 .. Len(q) : q[j] \in VcMessage
    OBVIOUS
  <2> QED BY <2>1 DEF VcMessage
<1> HIDE DEF p
<1>4. \A j \in 1 .. Len(p) : p[j].xid >= x - 1 /\ p[j].id \in 1 .. n /\ e[p[j].id] = 0
  BY <1>1, <1>2, <1>3 DEF Queued, Sendable
<1>5. \A i, j \in 1 .. Len(p) : i < j => p[i].id /= p[j].id
  BY <1>1, <1>2 DEF Queued, Sendable
<1>6. Queued(p, x - 1, n, e)
  BY <1>4, <1>5 DEF Queued
<1> QED BY <1>1, <1>6 DEF p

(* The server takes the first call, and executes it once or not at all.    *)
LEMMA QueuedTail ==
  ASSUME NEW q \in Seq(VcMessage), q /= <<>>, NEW x \in Int, NEW n \in Nat,
         NEW e \in [1 .. MaxCalls -> 0 .. 1], n <= MaxCalls, MaxCalls \in Nat,
         Queued(q, x, n, e), NEW f,
         \A c \in 1 .. MaxCalls : c /= q[1].id => f[c] = e[c]
  PROVE  /\ q[1].id \in 1 .. n /\ q[1].xid >= x /\ e[q[1].id] = 0
         /\ Tail(q) \in Seq(VcMessage) /\ Queued(Tail(q), x, n, f)
         /\ Sendable(Tail(q), q[1].id, e)
         /\ \A c \in 1 .. n : Sendable(q, c, e) => Sendable(Tail(q), c, f) /\ c /= q[1].id
<1>1. Len(q) \in Nat /\ Len(q) >= 1
  OBVIOUS
<1>2. q[1].id \in 1 .. n /\ q[1].xid >= x /\ e[q[1].id] = 0
  BY <1>1 DEF Queued
<1>4. \A c \in 1 .. MaxCalls : c /= q[1].id => f[c] = e[c]
  OBVIOUS
<1> DEFINE p == Tail(q)
<1>5. p \in Seq(VcMessage) /\ Len(p) = Len(q) - 1 /\ \A j \in 1 .. Len(p) : p[j] = q[j + 1]
  BY <1>1
<1> HIDE DEF p
<1>6. \A j \in 1 .. Len(p) : p[j].id /= q[1].id
  BY <1>1, <1>5 DEF Queued
<1>7. ASSUME NEW j \in 1 .. Len(p)
      PROVE  p[j].xid >= x /\ p[j].id \in 1 .. n /\ e[p[j].id] = 0
  <2>1. j + 1 \in 1 .. Len(q)
    BY <1>1, <1>5
  <2>2. p[j] = q[j + 1]
    BY <1>5
  <2> QED BY <2>1, <2>2 DEF Queued
<1>8. \A j \in 1 .. Len(p) : f[p[j].id] = 0
  BY <1>4, <1>6, <1>7
<1>9. ASSUME NEW i \in 1 .. Len(p), NEW j \in 1 .. Len(p), i < j PROVE p[i].id /= p[j].id
  <2>1. i + 1 \in 1 .. Len(q) /\ j + 1 \in 1 .. Len(q) /\ i + 1 < j + 1
    BY <1>1, <1>5, <1>9
  <2>2. p[i] = q[i + 1] /\ p[j] = q[j + 1]
    BY <1>5
  <2> QED BY <2>1, <2>2 DEF Queued
<1>10. Queued(p, x, n, f)
  BY <1>7, <1>8, <1>9 DEF Queued
<1>11. Sendable(p, q[1].id, e)
  BY <1>2, <1>6 DEF Sendable
<1>12. ASSUME NEW c \in 1 .. n, Sendable(q, c, e) PROVE Sendable(p, c, f) /\ c /= q[1].id
  <2>1. c /= q[1].id
    BY <1>1, <1>12 DEF Sendable
  <2>2. f[c] = 0
    BY <1>4, <1>12, <2>1 DEF Sendable
  <2>3. \A j \in 1 .. Len(p) : p[j].id /= c
    BY <1>1, <1>5, <1>12 DEF Sendable
  <2> QED BY <2>1, <2>2, <2>3 DEF Sendable
<1> QED BY <1>2, <1>5, <1>10, <1>11, <1>12 DEF p

(* Taking the first call, adding one and losing the last ones keep the     *)
(* queue fresh.                                                            *)
LEMMA FreshTail ==
  ASSUME NEW q \in Seq(VcMessage), q /= <<>>, NEW x, NEW n, NEW e, Queued(q, x, n, e),
         NEW r, NEW s, Fresh(q, r), \A c \in 1 .. n : c /= q[1].id => s[c] = r[c]
  PROVE  Fresh(Tail(q), s)
<1>1. Len(q) \in Nat /\ Len(q) >= 1
  OBVIOUS
<1> DEFINE p == Tail(q)
<1>2. Len(p) = Len(q) - 1 /\ \A j \in 1 .. Len(p) : p[j] = q[j + 1]
  BY <1>1
<1> HIDE DEF p
<1> SUFFICES ASSUME NEW j \in 1 .. Len(p), p[j].cred = "short" PROVE s[p[j].id] = 0
  BY DEF Fresh, p
<1>3. j + 1 \in 1 .. Len(q) /\ 1 \in 1 .. Len(q) /\ 1 < j + 1 /\ p[j] = q[j + 1]
  BY <1>1, <1>2
<1>4. q[j + 1].id \in 1 .. n /\ q[j + 1].id /= q[1].id
  BY <1>3 DEF Queued
<1> QED BY <1>3, <1>4 DEF Fresh

LEMMA FreshAppend ==
  ASSUME NEW q \in Seq(VcMessage), NEW r, Fresh(q, r), NEW m \in VcMessage,
         m.cred = "short" => r[m.id] = 0
  PROVE  Fresh(Append(q, m), r)
<1> DEFINE p == Append(q, m)
<1>1. Len(p) = Len(q) + 1 /\ Len(q) \in Nat /\ p[Len(q) + 1] = m /\ \A j \in 1 .. Len(q) : p[j] = q[j]
  OBVIOUS
<1> HIDE DEF p
<1>2. Fresh(p, r)
  BY <1>1 DEF Fresh
<1> QED BY <1>2 DEF p

LEMMA FreshParts ==
  ASSUME NEW a \in Seq(VcMessage), NEW b \in Seq(VcMessage), NEW r, Fresh(a \o b, r)
  PROVE  Fresh(a, r)
<1>1. \A j \in 1 .. Len(a) : j \in 1 .. Len(a \o b) /\ (a \o b)[j] = a[j]
  OBVIOUS
<1> QED BY <1>1 DEF Fresh

(* What is on its way when the stream is written, or dropped.              *)
LEMMA QueuedParts ==
  ASSUME NEW a \in Seq(VcMessage), NEW b \in Seq(VcMessage), NEW x, NEW n, NEW e,
         Queued(a \o b, x, n, e)
  PROVE  Queued(a, x, n, e) /\ a \o <<>> = a
<1>1. Len(a) \in Nat /\ Len(b) \in Nat /\ Len(a \o b) = Len(a) + Len(b)
  OBVIOUS
<1>2. \A j \in 1 .. Len(a) : j \in 1 .. Len(a \o b) /\ (a \o b)[j] = a[j]
  BY <1>1
<1>3. \A j \in 1 .. Len(a) : a[j].xid >= x /\ a[j].id \in 1 .. n /\ e[a[j].id] = 0
  BY <1>2 DEF Queued
<1>4. \A i, j \in 1 .. Len(a) : i < j => a[i].id /= a[j].id
  BY <1>2 DEF Queued
<1>5. a \o <<>> = a
  OBVIOUS
<1> QED BY <1>3, <1>4, <1>5 DEF Queued

(* Later, xids are lower and more calls were begun.                        *)
LEMMA QueuedLater ==
  ASSUME NEW q \in Seq(VcMessage), NEW x \in Int, NEW y \in Int, y <= x,
         NEW n \in Nat, NEW k \in Nat, n <= k, NEW e, Queued(q, x, n, e)
  PROVE  Queued(q, y, k, e)
<1>1. \A j \in 1 .. Len(q) : q[j] \in VcMessage
  OBVIOUS
<1>2. \A j \in 1 .. Len(q) : q[j].xid \in Int
  BY <1>1 DEF VcMessage
<1> QED BY <1>2 DEF Queued

(* The invariant says what the run checks.                                 *)
LEMMA ConnectedSafe == Vc!VcAssumption /\ ConnectedInv => Vc!ConnectedCallOnce
<1> SUFFICES ASSUME Vc!VcAssumption, ConnectedInv PROVE Vc!ConnectedCallOnce
  OBVIOUS
<1>1. Vc!TypeOK
  <2>1. Queued(to_server, xid, vc_calls, executed)
    BY QueuedParts DEF ConnectedInv, VcTypes
  <2> QED BY <2>1 DEF ConnectedInv, VcTypes, Queued, Vc!TypeOK
<1>2. Vc!OwnReply
  BY DEF ConnectedInv, UnderWay, Vc!OwnReply
<1>3. Vc!ExecutedOnce
  <2>1. executed \in [1 .. MaxCalls -> 0 .. 1] /\ erred \in [1 .. MaxCalls -> 0 .. 1]
    BY DEF ConnectedInv, VcTypes
  <2> QED BY <2>1 DEF Vc!ExecutedOnce
<1> QED BY <1>1, <1>2, <1>3 DEF Vc!ConnectedCallOnce

LEMMA ConnectedInit == Vc!VcAssumption /\ Vc!Init => ConnectedInv
<1> SUFFICES ASSUME Vc!VcAssumption, Vc!Init PROVE ConnectedInv
  OBVIOUS
<1>1. outbuf = <<>> /\ to_server = <<>> /\ to_client = <<>> /\ vc_pc = "idle" /\ vc_calls = 0
  BY DEF Vc!Init
<1>2. /\ executed \in [1 .. MaxCalls -> 0 .. 1] /\ \A c \in 1 .. MaxCalls : executed[c] = 0
      /\ erred = executed
  BY DEF Vc!Init
<1>3. /\ xid \in Int /\ ct_wait \in Waits \cup {1} /\ refreshes \in -1 .. 2
      /\ ct_waitset \in BOOLEAN /\ cred \in {"full", "short"}
  <2>1. xid \in Int /\ ct_wait \in Waits \cup {1}
    BY DEF Vc!Init, Vc!VcAssumption
  <2>2. refreshes \in -1 .. 2
    BY DEF Vc!Init
  <2>3. ct_waitset \in BOOLEAN /\ cred \in {"full", "short"}
    BY DEF Vc!Init
  <2> QED BY <2>1, <2>2, <2>3
<1>4. VcTypes
  BY <1>1, <1>2, <1>3 DEF Vc!VcAssumption, VcTypes
<1>5. to_server \o outbuf = <<>>
  BY <1>1
<1>6. Queued(to_server \o outbuf, xid, vc_calls, executed) /\ Fresh(to_server \o outbuf, erred)
  BY <1>5 DEF Queued, Fresh
<1>7. UnderWay
  BY <1>1 DEF UnderWay
<1> QED BY <1>1, <1>4, <1>6, <1>7 DEF ConnectedInv

(* Steps that leave the queue, the xid, the calls and the executions as    *)
(* they are.                                                               *)
LEMMA QueueUntouched ==
  ASSUME Vc!VcAssumption, ConnectedInv,
         UNCHANGED <<xid, outbuf, to_server, call, x_id, vc_calls, executed, erred>>,
         to_client' = to_client \/ (to_client /= <<>> /\ to_client' = Tail(to_client))
  PROVE  /\ Queued(to_server \o outbuf, xid, vc_calls, executed)'
         /\ Fresh(to_server \o outbuf, erred)'
         /\ to_client' \in Seq(VcReply)
         /\ \A j \in 1 .. Len(to_client') : \E k \in 1 .. Len(to_client) : to_client'[j] = to_client[k]
         /\ \A j \in 1 .. Len(to_client') :
              to_client'[j].xid >= xid' /\ to_client'[j].id \in 1 .. vc_calls'
<1>1. Queued(to_server \o outbuf, xid, vc_calls, executed)' /\ Fresh(to_server \o outbuf, erred)'
  <2>1. Queued(to_server \o outbuf, xid, vc_calls, executed) /\ Fresh(to_server \o outbuf, erred)
    BY Zenon DEF ConnectedInv
  <2>2. (to_server \o outbuf)' = to_server \o outbuf
    OBVIOUS
  <2>3. xid' = xid /\ vc_calls' = vc_calls /\ executed' = executed /\ erred' = erred
    OBVIOUS
  <2>4. Queued(to_server \o outbuf, xid, vc_calls, executed)'
    BY ONLY <2>1, <2>2, <2>3, Zenon DEF Queued
  <2>5. Fresh(to_server \o outbuf, erred)'
    BY ONLY <2>1, <2>2, <2>3, Zenon DEF Fresh
  <2> QED BY <2>4, <2>5
<1>2. to_client \in Seq(VcReply)
  BY DEF ConnectedInv, VcTypes
<1>3. /\ to_client' \in Seq(VcReply)
      /\ \A j \in 1 .. Len(to_client') : \E k \in 1 .. Len(to_client) : to_client'[j] = to_client[k]
  <2>1. CASE to_client' = to_client
    BY <1>2, <2>1
  <2>2. CASE to_client /= <<>> /\ to_client' = Tail(to_client)
    <3>1. /\ to_client' \in Seq(VcReply) /\ Len(to_client') = Len(to_client) - 1
          /\ \A j \in 1 .. Len(to_client') : to_client'[j] = to_client[j + 1]
      BY <1>2, <2>2
    <3>2. \A j \in 1 .. Len(to_client') : j + 1 \in 1 .. Len(to_client)
      BY <1>2, <3>1
    <3> QED BY <3>1, <3>2
  <2> QED BY <2>1, <2>2
<1>4. \A k \in 1 .. Len(to_client) : to_client[k].xid >= xid /\ to_client[k].id \in 1 .. vc_calls
  BY DEF ConnectedInv
<1> QED BY <1>1, <1>3, <1>4

(* clnt_vc_call begins: a call nobody has seen.                            *)
LEMMA CallConnected ==
  ASSUME Vc!VcAssumption, ConnectedInv, NEW r \in BOOLEAN, NEW w \in Waits, Vc!Call(r, w)
  PROVE  ConnectedInv'
<1>1. /\ vc_calls \in Nat /\ vc_calls + 1 \in 1 .. MaxCalls /\ vc_calls' = vc_calls + 1
      /\ vc_pc' = "send" /\ call'.id = vc_calls + 1 /\ refreshes' = 2
      /\ UNCHANGED <<xid, ct_waitset, cred, outbuf, to_server, to_client, x_id, status, result, executed, erred>>
  BY DEF ConnectedInv, VcTypes, Vc!Call, Vc!conn, Vc!done, Vc!VcAssumption
<1>2. ct_wait' \in Waits \cup {1}
  BY DEF ConnectedInv, VcTypes, Vc!Call
<1>3. VcTypes'
  BY <1>1, <1>2 DEF ConnectedInv, VcTypes, Vc!VcAssumption
<1> DEFINE q == to_server \o outbuf
<1>4. q \in Seq(VcMessage) /\ q' = q
  BY <1>1 DEF ConnectedInv, VcTypes
<1>5. xid \in Int /\ Queued(q, xid, vc_calls, executed)
  BY DEF ConnectedInv, VcTypes
<1> HIDE DEF q
<1>6. Queued(q, xid, vc_calls + 1, executed)
  BY <1>1, <1>4, <1>5, QueuedLater
<1>7. Queued(q, xid, vc_calls, executed)'
  BY <1>1, <1>4, <1>6 DEF Queued
<1>8. Sendable(q, call.id, executed)' /\ (cred = "short" => erred[call.id] = 0)'
  <2>1. executed[vc_calls + 1] = 0 /\ erred[vc_calls + 1] = 0
    BY <1>1 DEF ConnectedInv, VcTypes, Vc!VcAssumption
  <2>2. \A j \in 1 .. Len(q) : q[j].id /= vc_calls + 1
    BY <1>1, <1>5 DEF Queued
  <2> QED BY <1>1, <1>4, <2>1, <2>2 DEF Sendable
<1>9. UnderWay'
  BY <1>1, <1>8 DEF UnderWay, q
<1>10. \A j \in 1 .. Len(to_client') : to_client'[j].xid >= xid' /\ to_client'[j].id \in 1 .. vc_calls'
  BY <1>1 DEF ConnectedInv
<1>11. Fresh(q, erred)'
  BY <1>1, <1>4 DEF ConnectedInv, Fresh, q
<1> QED BY <1>3, <1>7, <1>9, <1>10, <1>11 DEF ConnectedInv, q

(* The record is put with a new xid, and written or batched.               *)
LEMMA SendConnected ==
  ASSUME Vc!VcAssumption, ConnectedInv, Vc!Send PROVE ConnectedInv'
<1> DEFINE q == to_server \o outbuf
           m == Vc!Message
<1>1. /\ vc_pc = "send" /\ xid' = xid - 1 /\ x_id' = xid - 1 /\ xid \in Int
      /\ UNCHANGED <<ct_wait, ct_waitset, cred, call, refreshes, result, to_client, vc_calls, executed, erred>>
  BY DEF ConnectedInv, VcTypes, Vc!Send, Vc!conn, Vc!ct, Vc!done
<1>2. /\ call.id = vc_calls /\ vc_calls \in 1 .. MaxCalls /\ refreshes >= 0
      /\ Sendable(q, call.id, executed)
      /\ cred = "short" => erred[call.id] = 0
  BY <1>1 DEF ConnectedInv, UnderWay
<1>3. m \in VcMessage /\ m.xid = xid - 1 /\ m.id = vc_calls /\ m.cred = cred
  BY <1>1, <1>2 DEF ConnectedInv, VcTypes, Vc!Message, VcMessage
<1>4. q \in Seq(VcMessage) /\ Queued(q, xid, vc_calls, executed)
  BY DEF ConnectedInv, VcTypes
<1>5. to_server \in Seq(VcMessage) /\ outbuf \in Seq(VcMessage)
  BY DEF ConnectedInv, VcTypes
<1>6. /\ vc_pc' \in {"idle", "read"}
      /\ \/ outbuf' = Append(outbuf, m) /\ to_server' = to_server
         \/ outbuf' = <<>> /\ to_server' = Append(q, m)
  BY DEF Vc!Send, Vc!conn
<1> HIDE DEF m
<1>7. outbuf' \in Seq(VcMessage) /\ to_server' \in Seq(VcMessage) /\ q' = Append(q, m)
  <2>1. CASE outbuf' = Append(outbuf, m) /\ to_server' = to_server
    <3>1. to_server \o Append(outbuf, m) = Append(to_server \o outbuf, m)
      BY <1>3, <1>5
    <3> QED BY <1>3, <1>5, <2>1, <3>1
  <2>2. CASE outbuf' = <<>> /\ to_server' = Append(q, m)
    <3>1. Append(q, m) \in Seq(VcMessage) /\ Append(q, m) \o <<>> = Append(q, m)
      BY <1>3, <1>4
    <3> QED BY <2>2, <3>1
  <2> QED BY <1>6, <2>1, <2>2
<1> HIDE DEF q
<1>8. Queued(Append(q, m), xid - 1, vc_calls, executed)
  <2>1. vc_calls \in Nat /\ m.id \in 1 .. vc_calls /\ Sendable(q, m.id, executed)
    BY <1>2, <1>3 DEF Vc!VcAssumption
  <2> QED BY <1>1, <1>3, <1>4, <2>1, QueuedAppend
<1>9. Queued(q, xid, vc_calls, executed)'
  BY <1>1, <1>7, <1>8
<1>10. VcTypes'
  BY <1>1, <1>6, <1>7 DEF ConnectedInv, VcTypes
<1>11. \A j \in 1 .. Len(to_client) : to_client[j].xid > xid' /\ to_client[j].id \in 1 .. vc_calls
  <2>1. \A j \in 1 .. Len(to_client) : to_client[j] \in VcReply
    BY DEF ConnectedInv, VcTypes
  <2>2. \A j \in 1 .. Len(to_client) : to_client[j].xid \in Int
    BY <2>1 DEF VcReply
  <2> QED BY <1>1, <2>2 DEF ConnectedInv
<1>12. \A j \in 1 .. Len(to_client') : to_client'[j].xid >= xid' /\ to_client'[j].id \in 1 .. vc_calls'
  <2>1. \A j \in 1 .. Len(to_client) : to_client[j] \in VcReply
    BY DEF ConnectedInv, VcTypes
  <2>2. \A j \in 1 .. Len(to_client) : to_client[j].xid \in Int
    BY <2>1 DEF VcReply
  <2> QED BY <1>1, <1>11, <2>2
<1>13. \A j \in 1 .. Len(q') : q'[j].xid = x_id' => q'[j].id = call'.id /\ q'[j].cred = cred'
  <2> SUFFICES ASSUME NEW j \in 1 .. Len(q'), q'[j].xid = x_id'
               PROVE  q'[j].id = call'.id /\ q'[j].cred = cred'
    OBVIOUS
  <2>1. Len(q) \in Nat /\ Len(q') = Len(q) + 1 /\ q'[Len(q) + 1] = m
        /\ \A i \in 1 .. Len(q) : q'[i] = q[i]
    BY <1>3, <1>4, <1>7
  <2>2. \A i \in 1 .. Len(q) : q[i] \in VcMessage /\ q[i].xid >= xid
    BY <1>4 DEF Queued
  <2>3. \A i \in 1 .. Len(q) : q[i].xid /= xid - 1
    BY <1>1, <2>2 DEF VcMessage
  <2>4. j = Len(q) + 1
    BY <1>1, <2>1, <2>3
  <2> QED BY <1>1, <1>2, <1>3, <2>1, <2>4
<1>14. \A j \in 1 .. Len(to_client') : to_client'[j].xid /= x_id'
  <2>1. \A j \in 1 .. Len(to_client) : to_client[j] \in VcReply
    BY DEF ConnectedInv, VcTypes
  <2>2. \A j \in 1 .. Len(to_client) : to_client[j].xid \in Int
    BY <2>1 DEF VcReply
  <2> QED BY <1>1, <1>11, <2>2
<1>15. UnderWay'
  <2>1. vc_pc' /= "send" /\ vc_pc' /= "reply"
    BY <1>6
  <2>2. call'.id = vc_calls' /\ vc_calls' \in 1 .. MaxCalls /\ refreshes' >= 0 /\ x_id' = xid'
    BY <1>1, <1>2
  <2> QED BY <1>13, <1>14, <2>1, <2>2 DEF UnderWay, q
<1>16. Fresh(q, erred)'
  <2>1. Fresh(q, erred)
    BY DEF ConnectedInv, q
  <2>2. Fresh(Append(q, m), erred)
    BY <1>2, <1>3, <1>4, <2>1, FreshAppend
  <2> QED BY <1>1, <1>7, <2>2
<1> QED BY <1>9, <1>10, <1>12, <1>15, <1>16 DEF ConnectedInv, q

(* Encoding or writing fails: the records before are written or lost.      *)
LEMMA SendFailsConnected ==
  ASSUME Vc!VcAssumption, ConnectedInv, Vc!SendFails PROVE ConnectedInv'
<1> DEFINE q == to_server \o outbuf
<1>1. /\ vc_pc' = "idle" /\ xid' = xid - 1 /\ xid \in Int /\ outbuf' = <<>>
      /\ to_server' = q \/ to_server' = to_server
      /\ UNCHANGED <<ct_wait, ct_waitset, cred, to_client, refreshes, vc_calls, executed, erred>>
  BY DEF ConnectedInv, VcTypes, Vc!SendFails, Vc!ct, Vc!done
<1>2. q \in Seq(VcMessage) /\ to_server \in Seq(VcMessage) /\ outbuf \in Seq(VcMessage)
  BY DEF ConnectedInv, VcTypes
<1>3. Queued(q, xid, vc_calls, executed)
  BY DEF ConnectedInv
<1>4. Queued(to_server, xid, vc_calls, executed)
  BY <1>2, <1>3, QueuedParts
<1>5. q' = to_server' /\ q' \in Seq(VcMessage)
  <2>1. q \o <<>> = q /\ to_server \o <<>> = to_server
    BY <1>2
  <2> HIDE DEF q
  <2>2. to_server' \in Seq(VcMessage) /\ to_server' \o outbuf' = to_server'
    BY <1>1, <1>2, <2>1
  <2> QED BY <2>2 DEF q
<1> HIDE DEF q
<1>6. Queued(q', xid, vc_calls, executed)
  BY <1>1, <1>3, <1>4, <1>5
<1>7. vc_calls \in Nat /\ xid - 1 \in Int /\ xid - 1 <= xid
  BY <1>1 DEF ConnectedInv, VcTypes, Vc!VcAssumption
<1>8. Queued(q', xid - 1, vc_calls, executed)
  BY <1>1, <1>5, <1>6, <1>7, QueuedLater
<1>9. Queued(q, xid, vc_calls, executed)'
  BY <1>1, <1>8
<1>10. VcTypes'
  BY <1>1, <1>2, <1>5 DEF ConnectedInv, VcTypes
<1>11. \A j \in 1 .. Len(to_client') : to_client'[j].xid >= xid' /\ to_client'[j].id \in 1 .. vc_calls'
  <2>1. \A j \in 1 .. Len(to_client) : to_client[j] \in VcReply
    BY DEF ConnectedInv, VcTypes
  <2>2. \A j \in 1 .. Len(to_client) : to_client[j].xid \in Int
    BY <2>1 DEF VcReply
  <2> QED BY <1>1, <2>2 DEF ConnectedInv
<1>12. UnderWay'
  BY <1>1 DEF UnderWay
<1>13. Fresh(q, erred)'
  <2>1. Fresh(q, erred)
    BY DEF ConnectedInv, q
  <2>2. Fresh(to_server, erred)
    BY <1>2, <2>1, FreshParts DEF q
  <2> QED BY <1>1, <1>5, <2>1, <2>2
<1> QED BY <1>9, <1>10, <1>11, <1>12, <1>13 DEF ConnectedInv, q

(* Waiting, or giving up.                                                  *)
LEMMA WaitConnected ==
  ASSUME Vc!VcAssumption, ConnectedInv, Vc!Tick \/ Vc!ReadTimeout \/ Vc!ReadFails
  PROVE  ConnectedInv'
<1>1. /\ UNCHANGED <<xid, ct_wait, ct_waitset, cred, outbuf, to_server, to_client, call, x_id,
                     refreshes, result, vc_calls, executed, erred>>
      /\ vc_pc = "read"
      /\ (vc_pc' = vc_pc /\ status' = status) \/ vc_pc' = "idle"
  BY DEF Vc!Tick, Vc!ReadTimeout, Vc!ReadFails, Vc!conn, Vc!ct, Vc!done
<1>2. VcTypes'
  BY <1>1 DEF ConnectedInv, VcTypes
<1>3. /\ Queued(to_server \o outbuf, xid, vc_calls, executed)'
      /\ Fresh(to_server \o outbuf, erred)'
      /\ \A j \in 1 .. Len(to_client') : to_client'[j].xid >= xid' /\ to_client'[j].id \in 1 .. vc_calls'
  BY <1>1, QueueUntouched
<1>4. UnderWay'
  BY <1>1 DEF ConnectedInv, UnderWay, Sendable
<1> QED BY <1>2, <1>3, <1>4 DEF ConnectedInv

(* A reply is read: another's is dropped, ours is of this call.            *)
LEMMA ReadConnected ==
  ASSUME Vc!VcAssumption, ConnectedInv, Vc!ReadReply PROVE ConnectedInv'
<1> DEFINE m == Head(to_client)
<1>1. /\ UNCHANGED <<xid, ct_wait, ct_waitset, cred, outbuf, to_server, call, x_id,
                     refreshes, vc_calls, executed, erred>>
      /\ vc_pc = "read" /\ to_client /= <<>> /\ to_client' = Tail(to_client)
      /\ \/ vc_pc' = vc_pc
         \/ /\ m.kind /= "garbage" /\ m.xid = x_id
            /\ vc_pc' = "reply" /\ result' = m.id /\ status' = m.kind
  BY DEF Vc!ReadReply, Vc!ct, Vc!done
<1>2. m = to_client[1] /\ 1 \in 1 .. Len(to_client) /\ m \in VcReply
  BY <1>1 DEF ConnectedInv, VcTypes
<1> HIDE DEF m
<1>3. /\ Queued(to_server \o outbuf, xid, vc_calls, executed)'
      /\ Fresh(to_server \o outbuf, erred)'
      /\ to_client' \in Seq(VcReply)
      /\ \A j \in 1 .. Len(to_client') : \E k \in 1 .. Len(to_client) : to_client'[j] = to_client[k]
      /\ \A j \in 1 .. Len(to_client') : to_client'[j].xid >= xid' /\ to_client'[j].id \in 1 .. vc_calls'
  BY <1>1, QueueUntouched
<1>4. VcTypes'
  BY <1>1, <1>3 DEF ConnectedInv, VcTypes
<1>5. UnderWay
  BY DEF ConnectedInv
<1>6. UnderWay'
  <2>1. CASE vc_pc' = vc_pc
    BY <1>1, <1>3, <1>5, <2>1 DEF UnderWay, Sendable
  <2>2. CASE m.kind /= "garbage" /\ m.xid = x_id /\ vc_pc' = "reply" /\ result' = m.id /\ status' = m.kind
    <3>1. /\ m.id = call.id
          /\ m.kind \in {"AUTHERROR", "SYSTEMERROR"} /\ cred = "short" =>
               Sendable(to_server \o outbuf, call.id, executed)
      BY <1>1, <1>2, <1>5, <2>2 DEF UnderWay
    <3>2. m.kind \in {"SUCCESS", "AUTHERROR", "SYSTEMERROR"}
      BY <1>2, <2>2 DEF VcReply
    <3>3. status' /= "SUCCESS" /\ cred' = "short" => Sendable(to_server \o outbuf, call.id, executed)'
      BY <1>1, <2>2, <3>1, <3>2 DEF Sendable
    <3>4. call'.id = vc_calls' /\ vc_calls' \in 1 .. MaxCalls /\ refreshes' >= 0 /\ result' = call'.id
      BY <1>1, <1>5, <2>2, <3>1 DEF UnderWay
    <3> QED BY <2>2, <3>3, <3>4 DEF UnderWay
  <2> QED BY <1>1, <2>1, <2>2
<1> QED BY <1>3, <1>4, <1>6 DEF ConnectedInv

(* The call ends, or is repeated because it was turned away.               *)
LEMMA ReplyConnected ==
  ASSUME Vc!VcAssumption, ConnectedInv, Vc!ReplySuccess \/ Vc!ReplyError
  PROVE  ConnectedInv'
<1>1. /\ UNCHANGED <<xid, ct_wait, ct_waitset, outbuf, to_server, to_client, call, x_id,
                     result, vc_calls, executed, erred>>
      /\ vc_pc = "reply" /\ cred' \in {"full", "short"}
      /\ \/ vc_pc' = "idle" /\ refreshes' = refreshes
         \/ vc_pc' = "idle" /\ refreshes' = refreshes - 1
         \/ /\ vc_pc' = "send" /\ refreshes' = refreshes - 1 /\ refreshes /= 0
            /\ status /= "SUCCESS" /\ cred = "short" /\ cred' = "full"
  BY DEF ConnectedInv, VcTypes, Vc!ReplySuccess, Vc!ReplyError, Vc!Refreshable, Vc!conn, Vc!ct, Vc!done
<1>2. /\ call.id = vc_calls /\ vc_calls \in 1 .. MaxCalls /\ refreshes >= 0 /\ refreshes \in -1 .. 2
      /\ status /= "SUCCESS" /\ cred = "short" =>
           Sendable(to_server \o outbuf, call.id, executed)
  BY <1>1 DEF ConnectedInv, VcTypes, UnderWay
<1>3. refreshes' \in -1 .. 2 /\ (vc_pc' = "send" => refreshes' >= 0)
  BY <1>1, <1>2
<1>4. VcTypes'
  BY <1>1, <1>3 DEF ConnectedInv, VcTypes
<1>5. /\ Queued(to_server \o outbuf, xid, vc_calls, executed)'
      /\ Fresh(to_server \o outbuf, erred)'
      /\ \A j \in 1 .. Len(to_client') : to_client'[j].xid >= xid' /\ to_client'[j].id \in 1 .. vc_calls'
  BY <1>1, QueueUntouched
<1>6. vc_pc' = "send" => Sendable(to_server \o outbuf, call.id, executed)' /\ cred' = "full"
  BY <1>1, <1>2 DEF Sendable
<1>7. UnderWay'
  <2>1. CASE vc_pc' = "idle"
    BY <2>1 DEF UnderWay
  <2>2. CASE vc_pc' = "send"
    <3>1. call'.id = vc_calls' /\ vc_calls' \in 1 .. MaxCalls /\ refreshes' >= 0
      BY <1>1, <1>2, <1>3, <2>2
    <3>2. cred' /= "short"
      BY <1>6, <2>2
    <3> QED BY <1>6, <2>2, <3>1, <3>2 DEF UnderWay
  <2> QED BY <1>1, <2>1, <2>2
<1> QED BY <1>4, <1>5, <1>7 DEF ConnectedInv

(* clnt_vc_control sets a timeout or a lower xid.                          *)
LEMMA ControlConnected ==
  ASSUME Vc!VcAssumption, ConnectedInv, Vc!Control PROVE ConnectedInv'
<1> DEFINE q == to_server \o outbuf
<1>1. /\ vc_pc' = "idle" /\ UNCHANGED <<cred, outbuf, to_server, to_client, refreshes, vc_calls, executed, erred>>
  BY DEF Vc!Control, Vc!conn, Vc!done
<1>2. xid \in Int /\ xid' \in Int /\ xid' <= xid
  BY DEF ConnectedInv, VcTypes, Vc!Control, Vc!VcAssumption
<1>3. ct_wait' \in Waits \cup {1}
  BY DEF ConnectedInv, VcTypes, Vc!Control, Vc!ct
<1>4. ct_waitset' \in BOOLEAN
  BY DEF ConnectedInv, VcTypes, Vc!Control, Vc!ct
<1>5. VcTypes'
  BY <1>1, <1>2, <1>3, <1>4 DEF ConnectedInv, VcTypes
<1>6. q' = q /\ q \in Seq(VcMessage) /\ vc_calls \in Nat
  BY <1>1 DEF ConnectedInv, VcTypes, Vc!VcAssumption
<1>7. Queued(q, xid, vc_calls, executed)
  BY DEF ConnectedInv
<1> HIDE DEF q
<1>8. Queued(q, xid', vc_calls, executed)
  BY <1>2, <1>6, <1>7, QueuedLater
<1>9. Queued(q, xid, vc_calls, executed)'
  BY <1>1, <1>6, <1>8
<1>10. \A j \in 1 .. Len(to_client') : to_client'[j].xid >= xid' /\ to_client'[j].id \in 1 .. vc_calls'
  <2>1. \A j \in 1 .. Len(to_client) : to_client[j] \in VcReply
    BY DEF ConnectedInv, VcTypes
  <2>2. \A j \in 1 .. Len(to_client) : to_client[j].xid \in Int
    BY <2>1 DEF VcReply
  <2> QED BY <1>1, <1>2, <2>2 DEF ConnectedInv
<1>11. UnderWay'
  BY <1>1 DEF UnderWay
<1>12. Fresh(q, erred)'
  BY <1>1, <1>6 DEF ConnectedInv, q
<1> QED BY <1>5, <1>9, <1>10, <1>11, <1>12 DEF ConnectedInv, q

(* The server takes the first call: it turns it away, or executes it.      *)
LEMMA ServeConnected ==
  ASSUME Vc!VcAssumption, ConnectedInv, NEW o \in Outcomes, Vc!Serve(o) PROVE ConnectedInv'
<1> DEFINE q == to_server \o outbuf
           m == Head(to_server)
           r == [xid |-> m.xid, id |-> m.id, kind |-> o]
           error == o = "SYSTEMERROR" /\ m.cred = "short"
<1>1. /\ to_server /= <<>> /\ to_server' = Tail(to_server)
      /\ executed' = IF o = "AUTHERROR" \/ error THEN executed
                     ELSE [executed EXCEPT ![m.id] = @ + 1]
      /\ erred' = IF error THEN [erred EXCEPT ![m.id] = @ + 1] ELSE erred
      /\ to_client' = IF o = "silent" THEN to_client ELSE Append(to_client, r)
      /\ UNCHANGED <<xid, ct_wait, ct_waitset, cred, outbuf, vc_pc, call, x_id, refreshes, status,
                     result, vc_calls>>
  BY DEF Vc!Serve, Vc!ct
<1>2. to_server \in Seq(VcMessage) /\ outbuf \in Seq(VcMessage) /\ to_client \in Seq(VcReply)
  BY DEF ConnectedInv, VcTypes
<1>3. q \in Seq(VcMessage) /\ q /= <<>> /\ q[1] = m /\ m \in VcMessage
  <2>1. Len(to_server) \in Nat /\ Len(to_server) >= 1 /\ Len(outbuf) \in Nat
    BY <1>1, <1>2
  <2>2. q \in Seq(VcMessage) /\ Len(q) = Len(to_server) + Len(outbuf) /\ q[1] = to_server[1]
    BY <1>2, <2>1
  <2> HIDE DEF q
  <2>3. m = to_server[1] /\ m \in VcMessage
    BY <1>2, <2>1
  <2> QED BY <2>1, <2>2, <2>3
<1>4. q' = Tail(q)
  <2> DEFINE a == Tail(to_server) \o outbuf
             b == Tail(q)
  <2>1. Len(to_server) \in Nat /\ Len(to_server) >= 1 /\ Len(outbuf) \in Nat
    BY <1>1, <1>2
  <2>2. /\ Tail(to_server) \in Seq(VcMessage) /\ Len(Tail(to_server)) = Len(to_server) - 1
        /\ \A j \in 1 .. Len(to_server) - 1 : Tail(to_server)[j] = to_server[j + 1]
    BY <1>2, <2>1
  <2>3. /\ a \in Seq(VcMessage) /\ Len(a) = Len(to_server) - 1 + Len(outbuf)
        /\ \A j \in 1 .. Len(to_server) - 1 : a[j] = to_server[j + 1]
        /\ \A j \in Len(to_server) .. Len(a) : a[j] = outbuf[j - Len(to_server) + 1]
    BY <1>2, <2>1, <2>2
  <2>4. /\ Len(q) = Len(to_server) + Len(outbuf)
        /\ \A j \in 1 .. Len(to_server) : q[j] = to_server[j]
        /\ \A j \in Len(to_server) + 1 .. Len(q) : q[j] = outbuf[j - Len(to_server)]
    BY <1>2, <2>1
  <2> HIDE DEF q, a
  <2>5. b \in Seq(VcMessage) /\ Len(b) = Len(q) - 1 /\ \A j \in 1 .. Len(q) - 1 : b[j] = q[j + 1]
    BY <1>3, <2>1, <2>4
  <2> HIDE DEF b
  <2>6. ASSUME NEW j \in 1 .. Len(a) PROVE a[j] = b[j]
    <3>1. CASE j \in 1 .. Len(to_server) - 1
      <4>1. j + 1 \in 1 .. Len(to_server) /\ j \in 1 .. Len(q) - 1
        BY <2>1, <2>4, <3>1
      <4> QED BY <2>3, <2>4, <2>5, <3>1, <4>1
    <3>2. CASE j \in Len(to_server) .. Len(a)
      <4>1. j + 1 \in Len(to_server) + 1 .. Len(q) /\ j \in 1 .. Len(q) - 1
        BY <2>1, <2>3, <2>4, <3>2
      <4>2. b[j] = outbuf[(j + 1) - Len(to_server)]
        BY <2>4, <2>5, <4>1
      <4>3. (j + 1) - Len(to_server) = j - Len(to_server) + 1
        BY <2>1
      <4> QED BY <2>3, <3>2, <4>2, <4>3
    <3> QED BY <2>1, <2>3, <3>1, <3>2
  <2>7. a = b
    BY <2>1, <2>3, <2>4, <2>5, <2>6, SeqEqual
  <2> QED BY <1>1, <2>7 DEF a, b, q
<1>5. Queued(q, xid, vc_calls, executed)
  BY DEF ConnectedInv
<1>6. /\ xid \in Int /\ vc_calls \in Nat /\ vc_calls <= MaxCalls /\ MaxCalls \in Nat
      /\ executed \in [1 .. MaxCalls -> 0 .. 1] /\ erred \in [1 .. MaxCalls -> 0 .. 1]
  BY DEF ConnectedInv, VcTypes, Vc!VcAssumption
<1>7. r \in [xid : Int, id : Nat, kind : {o}] /\ r.xid = m.xid /\ r.id = m.id /\ r.kind = o
  BY <1>3 DEF VcMessage
<1> HIDE DEF q, m, r
<1>16. /\ erred' \in [1 .. MaxCalls -> 0 .. 1]
       /\ \A c \in 1 .. MaxCalls : c /= m.id => erred'[c] = erred[c]
       /\ Fresh(Tail(q), erred')
  <2>1. Fresh(q, erred)
    BY DEF ConnectedInv, q
  <2>2. 1 \in 1 .. Len(q) /\ m.id \in 1 .. vc_calls
    BY <1>3, <1>5 DEF Queued
  <2>3. error => erred[m.id] = 0
    BY <1>3, <2>1, <2>2 DEF Fresh
  <2>4. erred' = erred \/ (erred' = [erred EXCEPT ![m.id] = @ + 1] /\ erred[m.id] = 0)
    BY <1>1, <2>3
  <2>5. erred' \in [1 .. MaxCalls -> 0 .. 1] /\ \A c \in 1 .. MaxCalls : c /= m.id => erred'[c] = erred[c]
    BY <1>6, <2>2, <2>4
  <2>6. \A c \in 1 .. vc_calls : c /= q[1].id => erred'[c] = erred[c]
    BY <1>3, <1>6, <2>5
  <2> QED BY <1>3, <1>5, <2>1, <2>5, <2>6, FreshTail
<1>8. executed' = executed \/ executed' = [executed EXCEPT ![q[1].id] = @ + 1]
  BY <1>1, <1>3
<1>9. /\ m.id \in 1 .. vc_calls /\ m.xid >= xid /\ executed[m.id] = 0
      /\ executed' \in [1 .. MaxCalls -> 0 .. 1]
      /\ \A c \in 1 .. MaxCalls : c /= m.id => executed'[c] = executed[c]
      /\ Tail(q) \in Seq(VcMessage) /\ Queued(Tail(q), xid, vc_calls, executed')
      /\ Sendable(Tail(q), m.id, executed)
      /\ \A c \in 1 .. vc_calls : Sendable(q, c, executed) => Sendable(Tail(q), c, executed') /\ c /= m.id
  <2>1. 1 \in 1 .. Len(q) /\ m.id \in 1 .. vc_calls /\ executed[m.id] = 0
    BY <1>3, <1>5 DEF Queued
  <2>2. executed' \in [1 .. MaxCalls -> 0 .. 1]
    BY <1>3, <1>6, <1>8, <2>1
  <2>3. \A c \in 1 .. MaxCalls : c /= q[1].id => executed'[c] = executed[c]
    BY <1>3, <1>6, <1>8, <2>1
  <2>4. /\ q[1].id \in 1 .. vc_calls /\ q[1].xid >= xid /\ executed[q[1].id] = 0
        /\ Tail(q) \in Seq(VcMessage) /\ Queued(Tail(q), xid, vc_calls, executed')
        /\ Sendable(Tail(q), q[1].id, executed)
        /\ \A c \in 1 .. vc_calls :
             Sendable(q, c, executed) => Sendable(Tail(q), c, executed') /\ c /= q[1].id
    BY <1>3, <1>5, <1>6, <2>3, QueuedTail
  <2> QED BY <1>3, <2>2, <2>3, <2>4
<1>10. /\ to_client' \in Seq(VcReply)
       /\ \A j \in 1 .. Len(to_client') :
            \/ j \in 1 .. Len(to_client) /\ to_client'[j] = to_client[j]
            \/ to_client'[j] = r
  <2>1. CASE o = "silent"
    BY <1>1, <1>2, <2>1
  <2>2. CASE o /= "silent"
    <3>1. o \in {"SUCCESS", "AUTHERROR", "SYSTEMERROR", "garbage"}
      BY <2>2 DEF Vc!VcAssumption
    <3>2. r \in VcReply
      BY <1>7, <3>1 DEF VcReply
    <3>3. to_client' = Append(to_client, r)
      BY <1>1, <2>2
    <3> QED BY <1>2, <3>2, <3>3
  <2> QED BY <2>1, <2>2
<1>11. Queued(q, xid, vc_calls, executed)' /\ Fresh(q, erred)'
  BY <1>1, <1>4, <1>9, <1>16
<1>12. VcTypes'
  <2>1. \A c \in 1 .. MaxCalls : c > vc_calls => executed'[c] = 0 /\ erred'[c] = 0
    BY <1>6, <1>9, <1>16 DEF ConnectedInv, VcTypes
  <2>2. to_server' \in Seq(VcMessage)
    BY <1>1, <1>2
  <2> QED BY <1>1, <1>2, <1>9, <1>10, <1>16, <2>1, <2>2 DEF ConnectedInv, VcTypes
<1>13. \A j \in 1 .. Len(to_client') : to_client'[j].xid >= xid' /\ to_client'[j].id \in 1 .. vc_calls'
  BY <1>1, <1>7, <1>9, <1>10 DEF ConnectedInv
<1>14. UnderWay
  BY DEF ConnectedInv
<1>15. UnderWay'
  <2>1. vc_pc' /= "idle" => call'.id = vc_calls' /\ vc_calls' \in 1 .. MaxCalls /\ refreshes' >= 0
    BY <1>1, <1>14 DEF UnderWay
  <2>2. vc_pc /= "idle" => call.id \in 1 .. vc_calls
    BY <1>6, <1>14 DEF UnderWay
  <2>3. vc_pc /= "idle" /\ Sendable(q, call.id, executed)
          => Sendable(q, call.id, executed)' /\ call.id /= m.id
    <3>1. vc_pc /= "idle" /\ Sendable(q, call.id, executed)
            => Sendable(Tail(q), call.id, executed') /\ call.id /= m.id
      BY <1>9, <2>2
    <3> QED BY <1>1, <1>4, <3>1
  <2>4. vc_pc' = "send" => Sendable(q, call.id, executed)' /\ (cred' = "short" => erred'[call'.id] = 0)
    <3>1. vc_pc = "send" => Sendable(q, call.id, executed) /\ (cred = "short" => erred[call.id] = 0)
      BY <1>14 DEF UnderWay, q
    <3> QED BY <1>1, <1>6, <1>16, <2>2, <2>3, <3>1
  <2>5. /\ vc_pc' = "reply" => result' = call'.id
        /\ vc_pc' = "reply" /\ status' /= "SUCCESS" /\ cred' = "short" => Sendable(q, call.id, executed)'
    BY <1>1, <1>14, <2>3 DEF UnderWay, q
  <2>6. ASSUME vc_pc' = "read"
        PROVE  /\ x_id' = xid'
               /\ \A j \in 1 .. Len(q') :
                    q'[j].xid = x_id' => q'[j].id = call'.id /\ q'[j].cred = cred'
               /\ \A j \in 1 .. Len(to_client') : to_client'[j].xid = x_id' =>
                    /\ to_client'[j].id = call'.id
                    /\ to_client'[j].kind \in {"AUTHERROR", "SYSTEMERROR"} /\ cred' = "short" =>
                         Sendable(q, call.id, executed)'
    <3>1. /\ vc_pc = "read" /\ x_id = xid
          /\ \A j \in 1 .. Len(q) : q[j].xid = x_id => q[j].id = call.id /\ q[j].cred = cred
          /\ \A j \in 1 .. Len(to_client) : to_client[j].xid = x_id =>
               /\ to_client[j].id = call.id
               /\ to_client[j].kind \in {"AUTHERROR", "SYSTEMERROR"} /\ cred = "short" =>
                    Sendable(q, call.id, executed)
      BY <1>1, <1>14, <2>6 DEF UnderWay, q
    <3>2. \A j \in 1 .. Len(q') : j + 1 \in 1 .. Len(q) /\ q'[j] = q[j + 1]
      BY <1>3, <1>4
    <3>3. \A j \in 1 .. Len(q') : q'[j].xid = x_id' => q'[j].id = call'.id /\ q'[j].cred = cred'
      BY <1>1, <3>1, <3>2
    <3>4. m.xid = x_id => m.id = call.id /\ m.cred = cred
      <4>1. 1 \in 1 .. Len(q)
        BY <1>3
      <4> QED BY <1>3, <3>1, <4>1
    <3>5. ASSUME NEW j \in 1 .. Len(to_client'), to_client'[j].xid = x_id'
          PROVE  /\ to_client'[j].id = call'.id
                 /\ to_client'[j].kind \in {"AUTHERROR", "SYSTEMERROR"} /\ cred' = "short" =>
                      Sendable(q, call.id, executed)'
      <4>1. CASE j \in 1 .. Len(to_client) /\ to_client'[j] = to_client[j]
        BY <1>1, <2>3, <3>1, <3>5, <4>1
      <4>2. CASE to_client'[j] = r
        <5>1. m.xid = x_id /\ to_client'[j].id = m.id /\ to_client'[j].kind = o
          BY <1>1, <1>7, <3>5, <4>2
        <5>2. m.id = call.id /\ m.cred = cred
          BY <3>4, <5>1
        <5>3. o \in {"AUTHERROR", "SYSTEMERROR"} /\ cred = "short" => executed' = executed
          BY <1>1, <5>2
        <5>4. o \in {"AUTHERROR", "SYSTEMERROR"} /\ cred = "short" => Sendable(Tail(q), call.id, executed')
          BY <1>9, <5>2, <5>3
        <5> QED BY <1>1, <1>4, <5>1, <5>2, <5>4
      <4> QED BY <1>10, <4>1, <4>2
    <3> QED BY <1>1, <3>1, <3>3, <3>5
  <2> QED BY <2>1, <2>4, <2>5, <2>6 DEF UnderWay, q
<1> QED BY <1>11, <1>12, <1>13, <1>15 DEF ConnectedInv, q

(* However many calls are made over a connection, in whatever order        *)
(* timeouts, batching, control requests, shorthands, refreshed credentials *)
(* and late answers come: a call returns its own reply, and the server     *)
(* executes it once at most, or once more when it had answered an          *)
(* execution for the shorthand by an error (clnt_vc_call).                 *)
THEOREM ConnectedCalls == Vc!Spec => []ConnectedCallOnce
<1>1. ConnectedInv /\ [Vc!Next]_Vc!vars => ConnectedInv'
  <2> SUFFICES ASSUME ConnectedInv, [Vc!Next]_Vc!vars PROVE ConnectedInv'
    OBVIOUS
  <2>1. CASE UNCHANGED Vc!vars
    <3>1. UNCHANGED <<xid, ct_wait, ct_waitset, cred, outbuf, to_server, to_client, vc_pc, call,
                      x_id, refreshes, status, result, vc_calls, executed, erred>>
      BY <2>1 DEF Vc!vars, Vc!conn, Vc!ct, Vc!done
    <3>2. VcTypes'
      BY <3>1 DEF ConnectedInv, VcTypes
    <3>3. UnderWay'
      BY <3>1 DEF ConnectedInv, UnderWay, Sendable
    <3> QED BY <3>1, <3>2, <3>3 DEF ConnectedInv, Queued, Fresh
  <2>2. CASE Vc!Client
    BY <2>2, ClientAssumption, SendConnected, WaitConnected, ReadConnected, ReplyConnected DEF Vc!Client
  <2>3. CASE Vc!SendFails \/ Vc!ReadFails \/ Vc!Control
    BY <2>3, ClientAssumption, SendFailsConnected, WaitConnected, ControlConnected
  <2>4. CASE \E o \in Outcomes : Vc!Serve(o)
    BY <2>4, ClientAssumption, ServeConnected
  <2>5. CASE \E r \in BOOLEAN, w \in Waits : Vc!Call(r, w)
    BY <2>5, ClientAssumption, CallConnected
  <2> QED BY <2>1, <2>2, <2>3, <2>4, <2>5 DEF Vc!Next
<1> QED BY <1>1, ClientAssumption, ConnectedInit, ConnectedSafe, PTL DEF Vc!Spec, ConnectedCallOnce

-----------------------------------------------------------------------------
(* Binding a socket to a port.                                             *)
(* The n ports before p, in the cycle of the ports s .. e, are in C.       *)
Behind(p, n, s, e, C) ==
  \A k \in 1 .. n : (IF p - k >= s THEN p - k ELSE p - k + (e - s + 1)) \in C

LEMMA BehindNext ==
  ASSUME NEW s \in Nat, NEW e \in Nat, NEW p \in s .. e, NEW n \in Nat, n < e - s + 1,
         NEW C, NEW D, C \subseteq D, p \in D, Behind(p, n, s, e, C)
  PROVE  Behind(IF p + 1 > e THEN s ELSE p + 1, n + 1, s, e, D)
<1> DEFINE q == IF p + 1 > e THEN s ELSE p + 1
<1> SUFFICES ASSUME NEW k \in 1 .. n + 1
             PROVE  (IF q - k >= s THEN q - k ELSE q - k + (e - s + 1)) \in D
  BY DEF Behind
<1>1. CASE k = 1
  <2>1. (IF q - k >= s THEN q - k ELSE q - k + (e - s + 1)) = p
    BY <1>1
  <2> QED BY <2>1
<1>2. CASE k > 1
  <2>1. k - 1 \in 1 .. n
    BY <1>2
  <2>2. (IF p - (k - 1) >= s THEN p - (k - 1) ELSE p - (k - 1) + (e - s + 1)) \in C
    BY <2>1 DEF Behind
  <2>3. (IF q - k >= s THEN q - k ELSE q - k + (e - s + 1))
          = (IF p - (k - 1) >= s THEN p - (k - 1) ELSE p - (k - 1) + (e - s + 1))
    BY <1>2
  <2> QED BY <2>2, <2>3
<1> QED BY <1>1, <1>2

(* All of them once round: the whole cycle.                                *)
LEMMA BehindAll ==
  ASSUME NEW s \in Nat, NEW e \in Nat, NEW p \in s .. e, NEW C, Behind(p, e - s + 1, s, e, C)
  PROVE  s .. e \subseteq C
<1> SUFFICES ASSUME NEW x \in s .. e PROVE x \in C
  OBVIOUS
<1> DEFINE k == IF x < p THEN p - x ELSE p - x + (e - s + 1)
<1>1. k \in 1 .. e - s + 1
  OBVIOUS
<1>2. (IF p - k >= s THEN p - k ELSE p - k + (e - s + 1)) = x
  OBVIOUS
<1> HIDE DEF k
<1> QED BY <1>1, <1>2 DEF Behind

LEMMA BehindNone == \A p, s, e, C : Behind(p, 0, s, e, C)
  BY DEF Behind

PortCall == [pc : {"idle", "load", "read", "lock", "try", "dyn"}, want : 0 .. PortMod - 1,
             af : Families \cup {"none"}, port : Nat, i : Nat, nports : Nat, endport : Nat,
             tried : SUBSET Nat]

PortTypes == Ports!TypeOK /\ list \subseteq Ports!blacklisted /\ th \in [Binders -> PortCall]

(* A thread in bindresvport_sa has the lock, and the ports it has passed   *)
(* were taken or blacklisted: those it searches, in the cycle it goes      *)
(* through, and first those above STARTPORT; or the port it was asked for. *)
Trying(t) ==
  /\ port_lock = t /\ th[t].af \in {"inet", "inet6"}
  /\ th[t].endport \in {ENDPORT, STARTPORT - 1}
  /\ th[t].nports = th[t].endport - startport + 1
  /\ th[t].i <= th[t].nports
  /\ th[t].endport = STARTPORT - 1 => startport = LOWPORT
  /\ th[t].want = 0 =>
       /\ port \in startport .. th[t].endport
       /\ Behind(port, th[t].i, startport, th[t].endport, th[t].tried \cup Blacklist)
       /\ th[t].endport = STARTPORT - 1 => STARTPORT .. ENDPORT \subseteq th[t].tried \cup Blacklist
  /\ th[t].want /= 0 =>
       (th[t].i = 0 /\ port = th[t].want) \/ th[t].want \in th[t].tried \cup Blacklist

(* The same for __binddynport, which keeps its port to itself.             *)
Dynamic(t) ==
  /\ port_lock = t /\ th[t].nports = Ports!DYNPORTS /\ th[t].i <= th[t].nports
  /\ th[t].port \in DYNLOW .. DYNEND /\ th[t].tried \subseteq DYNLOW .. DYNEND
  /\ Behind(th[t].port, th[t].i, DYNLOW, DYNEND, th[t].tried)

(* The blacklist was read before a thread searches, or is still being read *)
(* by another.                                                             *)
ListRead ==
  /\ \A t \in Binders : th[t].pc \in {"read", "lock", "try"} => blacklist_read
  /\ blacklist_read => list = Ports!blacklisted \/ \E t \in Binders : th[t].pc = "read"
ReadBeside(t) == \E u \in Binders \ {t} : th[u].pc = "read"

PortsInv ==
  /\ PortTypes
  /\ \A t \in Binders : th[t].pc = "try" => Trying(t)
  /\ \A t \in Binders : th[t].pc = "dyn" => Dynamic(t)
  /\ ListRead
  /\ Ports!OwnRange /\ Ports!TriesAll /\ Ports!NotBlacklisted

LEMMA PortsSafe == PortsInv => Ports!PortsInRange
  BY DEF PortsInv, PortTypes, Ports!PortsInRange

(* No call returns in a step: nothing is said of one.                      *)
LEMMA NothingReturned ==
  ASSUME bp_last' = Ports!NoResult PROVE Ports!OwnRange' /\ Ports!TriesAll' /\ Ports!NotBlacklisted'
<1>1. bp_last'.res = "none" /\ bp_last'.proc = "none"
  BY DEF Ports!NoResult
<1> QED BY <1>1 DEF Ports!OwnRange, Ports!TriesAll, Ports!NotBlacklisted

LEMMA IdlePort == Ports!BindAssumption => /\ Ports!Idle \in PortCall /\ Ports!Idle.pc = "idle" /\ Ports!Idle.want = 0
                                       /\ Ports!Idle.i = 0 /\ Ports!Idle.tried = {} /\ Ports!Idle.af = "none"
  BY DEF Ports!Idle, PortCall, Ports!BindAssumption

LEMMA PortsInit == Ports!BindAssumption /\ Ports!Init => PortsInv
<1> SUFFICES ASSUME Ports!BindAssumption, Ports!Init PROVE PortsInv
  OBVIOUS
<1>1. th \in [Binders -> PortCall] /\ \A t \in Binders : th[t].pc = "idle"
  BY IdlePort DEF Ports!Init
<1>2. blacklist_read \in BOOLEAN /\ list \subseteq Nat /\ startport \in {STARTPORT, LOWPORT}
      /\ port_lock \in Binders \cup {Ports!NoThread}
  BY DEF Ports!Init
<1>3. port \in 0 .. PortMod - 1 /\ used \subseteq Ports!Ports
  BY DEF Ports!Init, Ports!Ports, Ports!BindAssumption
<1>4. PortTypes
  BY <1>1, <1>2, <1>3 DEF PortTypes, Ports!TypeOK, Ports!Init
<1>5. ListRead
  BY <1>1 DEF ListRead, Ports!Init
<1>6. bp_last.res = "none" /\ bp_last.proc = "none"
  BY DEF Ports!Init, Ports!NoResult
<1>7. Ports!OwnRange /\ Ports!TriesAll /\ Ports!NotBlacklisted
  BY <1>6 DEF Ports!OwnRange, Ports!TriesAll, Ports!NotBlacklisted
<1> QED BY <1>1, <1>4, <1>5, <1>7 DEF PortsInv

(* A step of one thread: the others are in no search, or nothing they      *)
(* search with changes.                                                    *)
LEMMA ThreadStep ==
  ASSUME Ports!BindAssumption, PortsInv, NEW t \in Binders, NEW r \in PortCall,
         th' = [th EXCEPT ![t] = r], Ports!TypeOK', list' \subseteq Ports!blacklisted,
         port_lock \in {t, Ports!NoThread} \/ UNCHANGED <<port, startport, port_lock>>,
         r.pc = "try" => Trying(t)', r.pc = "dyn" => Dynamic(t)',
         blacklist_read => blacklist_read', r.pc \in {"read", "lock", "try"} => blacklist_read',
         blacklist_read' /\ r.pc /= "read" => list' = Ports!blacklisted \/ ReadBeside(t),
         Ports!OwnRange', Ports!TriesAll', Ports!NotBlacklisted'
  PROVE  PortsInv'
<1>1. th \in [Binders -> PortCall]
  BY DEF PortsInv, PortTypes
<1>2. th' \in [Binders -> PortCall] /\ th'[t] = r /\ \A u \in Binders \ {t} : th'[u] = th[u]
  BY <1>1
<1>3. PortTypes'
  BY <1>2 DEF PortTypes, Ports!blacklisted
<1>4. Ports!NoThread \notin Binders
  BY DEF Ports!BindAssumption, Ports!NoThread
<1>5. ASSUME NEW u \in Binders, th'[u].pc = "try" PROVE Trying(u)'
  <2>1. CASE u = t
    BY <1>2, <1>5, <2>1
  <2>2. CASE u /= t
    <3>1. th'[u] = th[u] /\ Trying(u)
      BY <1>2, <1>5, <2>2 DEF PortsInv
    <3>2. UNCHANGED <<port, startport, port_lock>>
      BY <1>4, <2>2, <3>1 DEF Trying
    <3> QED BY <3>1, <3>2 DEF Trying, Behind
  <2> QED BY <2>1, <2>2
<1>6. ASSUME NEW u \in Binders, th'[u].pc = "dyn" PROVE Dynamic(u)'
  <2>1. CASE u = t
    BY <1>2, <1>6, <2>1
  <2>2. CASE u /= t
    <3>1. th'[u] = th[u] /\ Dynamic(u)
      BY <1>2, <1>6, <2>2 DEF PortsInv
    <3>2. UNCHANGED <<port, startport, port_lock>>
      BY <1>4, <2>2, <3>1 DEF Dynamic
    <3> QED BY <3>1, <3>2 DEF Dynamic, Behind, Ports!DYNPORTS
  <2> QED BY <2>1, <2>2
<1>7. ListRead'
  <2>1. \A u \in Binders : th'[u].pc \in {"read", "lock", "try"} => blacklist_read'
    BY <1>2 DEF PortsInv, ListRead, ReadBeside
  <2>2. ReadBeside(t) => \E u \in Binders : th'[u].pc = "read"
    BY <1>2 DEF ReadBeside
  <2> QED BY <1>2, <2>1, <2>2 DEF ListRead, Ports!blacklisted
<1> QED BY <1>3, <1>5, <1>6, <1>7 DEF PortsInv

(* A call begins, or the blacklist is read.                                *)
LEMMA BeginPort ==
  ASSUME Ports!BindAssumption, PortsInv, NEW t \in Binders, NEW want \in Wanted, NEW af \in Families,
         Ports!bindresvport_sa(t, want, af)
  PROVE  PortsInv'
<1> DEFINE r == [Ports!Idle EXCEPT !.pc = IF blacklist_read THEN "lock" ELSE "load", !.want = want, !.af = af]
<1>1. /\ th[t].pc = "idle" /\ th' = [th EXCEPT ![t] = r] /\ bp_last' = Ports!NoResult
      /\ UNCHANGED <<blacklist_read, list, port, startport, port_lock, used>>
  BY DEF Ports!bindresvport_sa, Ports!at, Ports!becomes
<1>2. r \in PortCall
  BY IdlePort DEF PortCall, Ports!BindAssumption, Ports!Idle
<1>3. r.pc \in {"lock", "load"} /\ (r.pc = "lock" => blacklist_read)
  BY DEF Ports!Idle
<1> HIDE DEF r
<1>4. Ports!OwnRange' /\ Ports!TriesAll' /\ Ports!NotBlacklisted'
  BY <1>1, NothingReturned
<1>5. Ports!TypeOK'
  BY <1>1 DEF PortsInv, PortTypes, Ports!TypeOK
<1>6. list' \subseteq Ports!blacklisted
  BY <1>1 DEF PortsInv, PortTypes
<1>7. r.pc \in {"read", "lock", "try"} => blacklist_read'
  BY <1>1, <1>3
<1>8. blacklist_read' => list' = Ports!blacklisted \/ ReadBeside(t)
  BY <1>1 DEF PortsInv, ListRead, ReadBeside
<1>9. (r.pc = "try" => Trying(t)') /\ (r.pc = "dyn" => Dynamic(t)')
  BY <1>3
<1> QED BY <1>1, <1>2, <1>4, <1>5, <1>6, <1>7, <1>8, <1>9, ThreadStep

LEMMA LoadPort ==
  ASSUME Ports!BindAssumption, PortsInv, NEW t \in Binders, Ports!Load(t)
  PROVE  PortsInv'
<1>1. th[t] \in PortCall
  BY DEF PortsInv, PortTypes
<1>2. Ports!blacklisted \subseteq Nat
  BY DEF Ports!blacklisted, Ports!BindAssumption
<1>3. CASE Ports!load_blacklist(t)
  <2> DEFINE r == [th[t] EXCEPT !.pc = "read"]
  <2>1. /\ th' = [th EXCEPT ![t] = r] /\ bp_last' = Ports!NoResult /\ blacklist_read' = TRUE
        /\ UNCHANGED <<list, port, startport, port_lock, used>>
    BY <1>3 DEF Ports!load_blacklist, Ports!becomes
  <2>2. r \in PortCall /\ r.pc = "read"
    BY <1>1 DEF PortCall
  <2> HIDE DEF r
  <2>3. Ports!OwnRange' /\ Ports!TriesAll' /\ Ports!NotBlacklisted'
    BY <2>1, NothingReturned
  <2>4. Ports!TypeOK'
    BY <2>1 DEF PortsInv, PortTypes, Ports!TypeOK
  <2>5. list' \subseteq Ports!blacklisted
    BY <2>1 DEF PortsInv, PortTypes
  <2> QED BY <2>1, <2>2, <2>3, <2>4, <2>5, ThreadStep
<1>4. CASE Ports!load_list(t)
  <2> DEFINE r == [th[t] EXCEPT !.pc = "lock"]
  <2>1. /\ th[t].pc = "read" /\ th' = [th EXCEPT ![t] = r] /\ bp_last' = Ports!NoResult
        /\ list' = Ports!blacklisted
        /\ UNCHANGED <<blacklist_read, port, startport, port_lock, used>>
    BY <1>4 DEF Ports!load_list, Ports!becomes, Ports!at
  <2>2. r \in PortCall /\ r.pc = "lock"
    BY <1>1 DEF PortCall
  <2> HIDE DEF r
  <2>3. Ports!OwnRange' /\ Ports!TriesAll' /\ Ports!NotBlacklisted'
    BY <2>1, NothingReturned
  <2>4. Ports!TypeOK'
    BY <1>2, <2>1 DEF PortsInv, PortTypes, Ports!TypeOK
  <2>5. blacklist_read'
    BY <2>1 DEF PortsInv, ListRead, ReadBeside
  <2> QED BY <2>1, <2>2, <2>3, <2>4, <2>5, ThreadStep
<1> QED BY <1>3, <1>4 DEF Ports!Load

(* What a call that returns leaves: the thread is idle, the lock free.     *)
LEMMA ReturnFields ==
  ASSUME NEW t \in Binders, NEW proc, NEW res, NEW p, Ports!returned(t, proc, res, p)
  PROVE  /\ th' = [th EXCEPT ![t] = Ports!Idle]
         /\ bp_last'.proc = proc /\ bp_last'.want = th[t].want /\ bp_last'.af = th[t].af
         /\ bp_last'.res = res /\ bp_last'.port = p /\ bp_last'.tried = th[t].tried
  BY DEF Ports!returned, Ports!becomes

LEMMA ReturnPort ==
  ASSUME Ports!BindAssumption, PortsInv, NEW t \in Binders, th' = [th EXCEPT ![t] = Ports!Idle],
         th[t].pc /= "read", port_lock \in {t, Ports!NoThread}, port_lock' = Ports!NoThread,
         UNCHANGED <<blacklist_read, list, startport, port>>, used' \subseteq Ports!Ports,
         Ports!OwnRange', Ports!TriesAll', Ports!NotBlacklisted'
  PROVE  PortsInv'
<1>1. Ports!TypeOK'
  BY DEF PortsInv, PortTypes, Ports!TypeOK
<1>2. list' \subseteq Ports!blacklisted
  BY DEF PortsInv, PortTypes
<1>3. blacklist_read' => list' = Ports!blacklisted \/ ReadBeside(t)
  BY DEF PortsInv, ListRead, ReadBeside
<1>4. Ports!Idle \in PortCall /\ Ports!Idle.pc = "idle"
  BY IdlePort
<1> QED BY <1>1, <1>2, <1>3, <1>4, ThreadStep

(* With the lock, the first port to try is chosen.                         *)
LEMMA EnterPort ==
  ASSUME Ports!BindAssumption, PortsInv, NEW t \in Binders, Ports!enter(t)
  PROVE  PortsInv'
<1>1. /\ th[t].pc = "lock" /\ port_lock = Ports!NoThread
      /\ UNCHANGED <<blacklist_read, list, startport, used>>
  BY DEF Ports!enter, Ports!at, Ports!locked
<1>2. th[t] \in PortCall
  BY DEF PortsInv, PortTypes
<1>3. list \subseteq Ports!blacklisted /\ (th[t].pc = "lock" => blacklist_read /\ (list = Ports!blacklisted \/ ReadBeside(t)))
  BY DEF PortsInv, PortTypes, ListRead, ReadBeside
<1>4. CASE \E e \in {"EBADF", "EPFNOSUPPORT"} :
             Ports!refused(t) /\ Ports!returned(t, "resv", e, 0) /\ port' = port
  <2>1. /\ th' = [th EXCEPT ![t] = Ports!Idle] /\ bp_last'.proc = "resv"
        /\ bp_last'.res \in {"EBADF", "EPFNOSUPPORT"}
    BY <1>4, ReturnFields
  <2>2. Ports!OwnRange' /\ Ports!TriesAll' /\ Ports!NotBlacklisted'
    BY <2>1 DEF Ports!OwnRange, Ports!TriesAll, Ports!NotBlacklisted
  <2>3. used' \subseteq Ports!Ports
    BY <1>1 DEF PortsInv, PortTypes, Ports!TypeOK
  <2> QED BY <1>1, <1>4, <2>1, <2>2, <2>3, ReturnPort DEF Ports!refused
<1>5. CASE /\ th[t].af \in {"inet", "inet6"} /\ port_lock' = t
           /\ port' = IF th[t].want = 0 THEN (Pid % Ports!NPORTS) + STARTPORT ELSE th[t].want
           /\ Ports!becomes(t, [th[t] EXCEPT !.pc = "try", !.i = 0, !.nports = ENDPORT - startport + 1, !.endport = ENDPORT])
           /\ bp_last' = Ports!NoResult
  <2> DEFINE r == [th[t] EXCEPT !.pc = "try", !.i = 0, !.nports = ENDPORT - startport + 1, !.endport = ENDPORT]
  <2>1. startport \in {STARTPORT, LOWPORT}
    BY DEF PortsInv, PortTypes, Ports!TypeOK
  <2>2. ENDPORT - startport + 1 \in Nat /\ ENDPORT - startport + 1 >= 1 /\ ENDPORT \in Nat
    BY <2>1 DEF Ports!BindAssumption
  <2>3. th' = [th EXCEPT ![t] = r]
    BY <1>5 DEF Ports!becomes
  <2>4. /\ r \in PortCall /\ r.pc = "try" /\ r.i = 0 /\ r.nports = ENDPORT - startport + 1
        /\ r.endport = ENDPORT /\ r.want = th[t].want /\ r.af = th[t].af /\ r.tried = th[t].tried
    BY <1>2, <2>2 DEF PortCall
  <2> HIDE DEF r
  <2>5. th'[t] = r
    BY <2>3 DEF PortsInv, PortTypes
  <2>6. th[t].want \in 0 .. PortMod - 1
    BY <1>2 DEF PortCall
  <2>7. Pid % Ports!NPORTS \in 0 .. ENDPORT - STARTPORT
    <3>1. Ports!NPORTS = ENDPORT - STARTPORT + 1 /\ Ports!NPORTS \in Nat /\ Ports!NPORTS > 0 /\ Pid \in Nat
      BY DEF Ports!NPORTS, Ports!BindAssumption
    <3>2. Pid % Ports!NPORTS \in 0 .. Ports!NPORTS - 1
      BY <3>1
    <3> QED BY <3>1, <3>2 DEF Ports!BindAssumption
  <2>8. /\ th[t].want = 0 => port' \in STARTPORT .. ENDPORT
        /\ th[t].want /= 0 => port' = th[t].want
        /\ port' \in 0 .. PortMod - 1
    <3>1. CASE th[t].want = 0
      BY <1>5, <2>7, <3>1 DEF Ports!BindAssumption
    <3>2. CASE th[t].want /= 0
      BY <1>5, <2>6, <3>2
    <3> QED BY <3>1, <3>2
  <2>9. Trying(t)'
    <3>1. th'[t].want = 0 => port' \in startport' .. th'[t].endport
      BY <1>1, <2>1, <2>4, <2>5, <2>8 DEF Ports!BindAssumption
    <3>2. Behind(port', th'[t].i, startport', th'[t].endport, th'[t].tried \cup Blacklist)
      BY <2>4, <2>5, BehindNone
    <3>3. /\ port_lock' = t /\ th'[t].af \in {"inet", "inet6"} /\ th'[t].endport = ENDPORT
          /\ th'[t].nports = th'[t].endport - startport' + 1 /\ th'[t].i <= th'[t].nports
      BY <1>1, <1>5, <2>2, <2>4, <2>5
    <3>4. ENDPORT /= STARTPORT - 1
      BY DEF Ports!BindAssumption
    <3>5. th'[t].want /= 0 => th'[t].i = 0 /\ port' = th'[t].want
      BY <2>4, <2>5, <2>8
    <3> QED BY <3>1, <3>2, <3>3, <3>4, <3>5 DEF Trying
  <2>10. Ports!TypeOK'
    BY <1>1, <1>5, <2>8 DEF PortsInv, PortTypes, Ports!TypeOK
  <2>11. Ports!OwnRange' /\ Ports!TriesAll' /\ Ports!NotBlacklisted'
    BY <1>5, NothingReturned
  <2>12. blacklist_read' /\ (list' = Ports!blacklisted \/ ReadBeside(t))
    BY <1>1, <1>3
  <2>13. r.pc /= "dyn" /\ list' \subseteq Ports!blacklisted
    BY <1>1, <1>3, <2>4
  <2> QED BY <1>1, <2>3, <2>4, <2>9, <2>10, <2>11, <2>12, <2>13, ThreadStep
<1> QED BY <1>4, <1>5 DEF Ports!enter

(* The next port, in 16 bits.                                              *)
LEMMA NextPort ==
  ASSUME Ports!BindAssumption, NEW p \in 0 .. PortMod - 1, NEW e \in Nat, NEW s \in 0 .. PortMod - 1
  PROVE  /\ Ports!next_port(p, e, s) \in 0 .. PortMod - 1
         /\ p <= e /\ e <= ENDPORT => Ports!next_port(p, e, s) = IF p + 1 > e THEN s ELSE p + 1
<1>1. PortMod \in Nat /\ PortMod > 0
  BY DEF Ports!BindAssumption
<1>2. (p + 1) % PortMod \in 0 .. PortMod - 1
  BY <1>1
<1>3. p + 1 < PortMod => (p + 1) % PortMod = p + 1
  BY <1>1
<1>4. p <= ENDPORT => p + 1 < PortMod
  BY DEF Ports!BindAssumption
<1>5. ENDPORT \in Nat
  BY DEF Ports!BindAssumption
<1> QED BY <1>1, <1>2, <1>3, <1>4, <1>5 DEF Ports!next_port

(* A port is passed: it is blacklisted, or taken.                          *)
LEMMA PassPort ==
  ASSUME Ports!BindAssumption, PortsInv, NEW t \in Binders, Ports!more(t),
         port' = Ports!next_port(port, th[t].endport, startport),
         NEW r \in PortCall, th' = [th EXCEPT ![t] = r],
         r.pc = "try", r.i = th[t].i + 1, r.want = th[t].want, r.af = th[t].af,
         r.nports = th[t].nports, r.endport = th[t].endport, th[t].tried \subseteq r.tried,
         port \in r.tried \cup Blacklist, bp_last' = Ports!NoResult,
         UNCHANGED <<blacklist_read, list, startport, port_lock, used>>
  PROVE  PortsInv'
<1>1. th[t].pc = "try" /\ th[t].i < th[t].nports /\ Trying(t)
  BY DEF Ports!more, Ports!at, PortsInv
<1>2. th[t] \in PortCall /\ th'[t] = r
  BY DEF PortsInv, PortTypes
<1>3. th[t].i \in Nat /\ th[t].nports \in Nat /\ th[t].endport \in Nat
  BY <1>2 DEF PortCall
<1>4. startport \in {STARTPORT, LOWPORT} /\ port \in 0 .. PortMod - 1
  BY DEF PortsInv, PortTypes, Ports!TypeOK
<1>5. startport \in 0 .. PortMod - 1 /\ startport \in Nat
  BY <1>4 DEF Ports!BindAssumption
<1>6. th[t].endport \in {ENDPORT, STARTPORT - 1} /\ th[t].nports = th[t].endport - startport + 1
  BY <1>1 DEF Trying
<1>7. th[t].endport <= ENDPORT
  BY <1>6 DEF Ports!BindAssumption
<1>8. /\ port' \in 0 .. PortMod - 1
      /\ port <= th[t].endport =>
           port' = IF port + 1 > th[t].endport THEN startport ELSE port + 1
  BY <1>3, <1>4, <1>5, <1>7, NextPort
<1>9. Trying(t)'
  <2>1. /\ port_lock' = t /\ th'[t].af \in {"inet", "inet6"}
        /\ th'[t].endport \in {ENDPORT, STARTPORT - 1}
        /\ th'[t].nports = th'[t].endport - startport' + 1
        /\ th'[t].endport = STARTPORT - 1 => startport' = LOWPORT
    BY <1>1, <1>2 DEF Trying
  <2>2. th'[t].i <= th'[t].nports
    BY <1>1, <1>2, <1>3
  <2>3. ASSUME th'[t].want = 0
        PROVE  /\ port' \in startport' .. th'[t].endport
               /\ Behind(port', th'[t].i, startport', th'[t].endport, th'[t].tried \cup Blacklist)
               /\ th'[t].endport = STARTPORT - 1 => STARTPORT .. ENDPORT \subseteq th'[t].tried \cup Blacklist
    <3>1. /\ port \in startport .. th[t].endport
          /\ Behind(port, th[t].i, startport, th[t].endport, th[t].tried \cup Blacklist)
          /\ th[t].endport = STARTPORT - 1 => STARTPORT .. ENDPORT \subseteq th[t].tried \cup Blacklist
      BY <1>1, <1>2, <2>3 DEF Trying
    <3> DEFINE C == th[t].tried \cup Blacklist
               D == r.tried \cup Blacklist
    <3>2. C \subseteq D /\ port \in D
      OBVIOUS
    <3>3. Behind(port, th[t].i, startport, th[t].endport, C)
      BY <3>1
    <3>4. th[t].i < th[t].endport - startport + 1
      BY <1>1, <1>6
    <3> HIDE DEF C, D
    <3>5. Behind(IF port + 1 > th[t].endport THEN startport ELSE port + 1, th[t].i + 1, startport, th[t].endport, D)
      BY <1>3, <1>5, <3>1, <3>2, <3>3, <3>4, BehindNext
    <3>6. port' = IF port + 1 > th[t].endport THEN startport ELSE port + 1
      BY <1>3, <1>5, <1>8, <3>1
    <3>7. port' \in startport .. th[t].endport
      BY <1>3, <1>5, <3>1, <3>6
    <3>8. Behind(port', th[t].i + 1, startport, th[t].endport, D)
      BY <3>5, <3>6
    <3>9. Behind(port', th'[t].i, startport', th'[t].endport, th'[t].tried \cup Blacklist)
      BY <1>2, <3>8 DEF D
    <3> QED BY <1>2, <3>1, <3>7, <3>9
  <2>4. th'[t].want /= 0 => th'[t].want \in th'[t].tried \cup Blacklist
    BY <1>1, <1>2 DEF Trying
  <2> QED BY <2>1, <2>2, <2>3, <2>4 DEF Trying
<1>10. Ports!TypeOK'
  BY <1>8 DEF PortsInv, PortTypes, Ports!TypeOK
<1>11. Ports!OwnRange' /\ Ports!TriesAll' /\ Ports!NotBlacklisted'
  BY NothingReturned
<1>12. blacklist_read' /\ (list' = Ports!blacklisted \/ ReadBeside(t))
  BY <1>1 DEF PortsInv, ListRead, ReadBeside
<1>13. list' \subseteq Ports!blacklisted /\ r.pc /= "dyn" /\ port_lock = t
  BY <1>1 DEF PortsInv, PortTypes, Trying
<1> QED BY <1>9, <1>10, <1>11, <1>12, <1>13, ThreadStep

LEMMA SkipPort ==
  ASSUME Ports!BindAssumption, PortsInv, NEW t \in Binders, Ports!skip(t) \/ Ports!try(t)
  PROVE  PortsInv'
<1>1. th[t] \in PortCall /\ th[t].pc = "try"
  BY DEF PortsInv, PortTypes, Ports!skip, Ports!try, Ports!more, Ports!at
<1>2. list \subseteq Blacklist /\ port \in Nat
  BY DEF PortsInv, PortTypes, Ports!TypeOK, Ports!blacklisted, Ports!BindAssumption
<1>3. CASE Ports!skip(t)
  <2> DEFINE r == [th[t] EXCEPT !.i = @ + 1]
  <2>1. /\ Ports!more(t) /\ port \in list /\ port' = Ports!next_port(port, th[t].endport, startport)
        /\ th' = [th EXCEPT ![t] = r] /\ bp_last' = Ports!NoResult
        /\ UNCHANGED <<blacklist_read, list, startport, port_lock, used>>
    BY <1>3 DEF Ports!skip, Ports!becomes
  <2>2. /\ r \in PortCall /\ r.pc = "try" /\ r.i = th[t].i + 1 /\ r.want = th[t].want
        /\ r.af = th[t].af /\ r.nports = th[t].nports /\ r.endport = th[t].endport
        /\ r.tried = th[t].tried
    BY <1>1 DEF PortCall
  <2> HIDE DEF r
  <2>3. port \in r.tried \cup Blacklist
    BY <1>2, <2>1
  <2>4. th[t].tried \subseteq r.tried
    BY <2>2
  <2> QED BY <2>1, <2>2, <2>3, <2>4, PassPort
<1>4. CASE Ports!try(t)
  <2> DEFINE r == [th[t] EXCEPT !.i = @ + 1, !.tried = @ \cup {port}]
  <2>1. /\ Ports!more(t) /\ port' = Ports!next_port(port, th[t].endport, startport)
        /\ th' = [th EXCEPT ![t] = r] /\ bp_last' = Ports!NoResult
        /\ UNCHANGED <<blacklist_read, list, startport, port_lock, used>>
    BY <1>4 DEF Ports!try, Ports!becomes
  <2>2. /\ r \in PortCall /\ r.pc = "try" /\ r.i = th[t].i + 1 /\ r.want = th[t].want
        /\ r.af = th[t].af /\ r.nports = th[t].nports /\ r.endport = th[t].endport
        /\ r.tried = th[t].tried \cup {port}
    <3> DEFINE T == th[t].tried \cup {port}
               n == th[t].i + 1
    <3>1. T \in SUBSET Nat /\ n \in Nat /\ r = [th[t] EXCEPT !.i = n, !.tried = T]
      BY <1>1, <1>2 DEF PortCall
    <3> HIDE DEF T, n, r
    <3>2. /\ r \in PortCall /\ r.pc = "try" /\ r.i = n /\ r.want = th[t].want
          /\ r.af = th[t].af /\ r.nports = th[t].nports /\ r.endport = th[t].endport
          /\ r.tried = T
      BY <1>1, <3>1 DEF PortCall
    <3> QED BY <3>2 DEF T, n
  <2> HIDE DEF r
  <2>3. port \in r.tried \cup Blacklist
    BY <2>2
  <2>4. th[t].tried \subseteq r.tried
    BY <2>2
  <2> QED BY <2>1, <2>2, <2>3, <2>4, PassPort
<1> QED BY <1>3, <1>4

(* A port is bound: the one asked for or, where none was, a reserved one.  *)
LEMMA BoundPort ==
  ASSUME Ports!BindAssumption, PortsInv, NEW t \in Binders, Ports!bound(t)
  PROVE  PortsInv'
<1>1. PICK p \in Ports!bind(port) : used' = used \cup {p} /\ Ports!returned(t, "resv", "0", p)
  BY DEF Ports!bound
<1>2. /\ th[t].pc = "try" /\ port \notin list /\ port_lock' = Ports!NoThread
      /\ UNCHANGED <<blacklist_read, list, port, startport>>
  BY DEF Ports!bound, Ports!more, Ports!at
<1>3. Trying(t) /\ port_lock = t
  BY <1>2 DEF PortsInv, Trying
<1>4. port \in 0 .. PortMod - 1 /\ used \subseteq Ports!Ports /\ startport \in {STARTPORT, LOWPORT}
  BY DEF PortsInv, PortTypes, Ports!TypeOK
<1>5. /\ port = 0 => p \in ENDPORT + 1 .. PortMod - 1
      /\ port /= 0 => p = port
  BY DEF Ports!bind
<1>6. p \in 1 .. PortMod - 1
  BY <1>4, <1>5 DEF Ports!BindAssumption
<1>7. /\ th' = [th EXCEPT ![t] = Ports!Idle] /\ bp_last'.proc = "resv" /\ bp_last'.want = th[t].want
      /\ bp_last'.res = "0" /\ bp_last'.port = p /\ bp_last'.tried = th[t].tried
  BY <1>1, ReturnFields
<1>8. th[t].want = 0 => p \in LOWPORT .. ENDPORT
  <2> SUFFICES ASSUME th[t].want = 0 PROVE p \in LOWPORT .. ENDPORT
    OBVIOUS
  <2>1. port \in startport .. th[t].endport /\ th[t].endport \in {ENDPORT, STARTPORT - 1}
    BY <1>3 DEF Trying
  <2>2. port \in LOWPORT .. ENDPORT
    BY <1>4, <2>1 DEF Ports!BindAssumption
  <2> QED BY <1>5, <2>2 DEF Ports!BindAssumption
<1>9. th[t].want /= 0 => p = th[t].want \/ th[t].want \in th[t].tried \cup Blacklist
  BY <1>3, <1>5 DEF Trying
<1>10. Ports!OwnRange'
  BY <1>7, <1>8, <1>9 DEF Ports!OwnRange
<1>11. Ports!TriesAll'
  BY <1>7 DEF Ports!TriesAll
<1>12. Ports!NotBlacklisted'
  <2> SUFFICES ASSUME p \in LOWPORT .. ENDPORT, ~ReadBeside(t) PROVE p \notin Blacklist
    <3>1. ReadBeside(t) => \E u \in Binders : th'[u].pc = "read"
      BY <1>7 DEF ReadBeside
    <3> QED BY <1>7, <3>1 DEF Ports!NotBlacklisted, Ports!at
  <2>1. list = Ports!blacklisted
    BY <1>2 DEF PortsInv, ListRead, ReadBeside
  <2>2. p = port
    BY <1>5 DEF Ports!BindAssumption
  <2> QED BY <1>2, <2>1, <2>2 DEF Ports!blacklisted, Ports!BindAssumption
<1>13. used' \subseteq Ports!Ports
  BY <1>1, <1>4, <1>6 DEF Ports!Ports
<1> QED BY <1>2, <1>3, <1>7, <1>10, <1>11, <1>12, <1>13, ReturnPort

(* bind fails for good, or every port was tried.                           *)
LEMMA GiveUpPort ==
  ASSUME Ports!BindAssumption, PortsInv, NEW t \in Binders, Ports!denied(t) \/ Ports!in_use(t)
  PROVE  PortsInv'
<1>1. /\ th[t].pc = "try" /\ port_lock' = Ports!NoThread
      /\ UNCHANGED <<blacklist_read, list, port, startport, used>>
  BY DEF Ports!denied, Ports!in_use, Ports!more, Ports!at
<1>2. Trying(t) /\ port_lock = t
  BY <1>1 DEF PortsInv, Trying
<1>3. used' \subseteq Ports!Ports
  BY <1>1 DEF PortsInv, PortTypes, Ports!TypeOK
<1>4. CASE Ports!denied(t)
  <2>1. th' = [th EXCEPT ![t] = Ports!Idle] /\ bp_last'.proc = "resv" /\ bp_last'.res = "EACCES"
    BY <1>4, ReturnFields DEF Ports!denied
  <2>2. Ports!OwnRange' /\ Ports!TriesAll' /\ Ports!NotBlacklisted'
    BY <2>1 DEF Ports!OwnRange, Ports!TriesAll, Ports!NotBlacklisted
  <2> QED BY <1>1, <1>2, <1>3, <2>1, <2>2, ReturnPort
<1>5. CASE Ports!in_use(t)
  <2>1. /\ th' = [th EXCEPT ![t] = Ports!Idle] /\ bp_last'.proc = "resv" /\ bp_last'.res = "EADDRINUSE"
        /\ bp_last'.want = th[t].want /\ bp_last'.tried = th[t].tried
    BY <1>5, ReturnFields DEF Ports!in_use
  <2>2. th[t].i = th[t].nports /\ startport = LOWPORT
    BY <1>5 DEF Ports!in_use
  <2>3. th[t].want = 0 => LOWPORT .. ENDPORT \subseteq th[t].tried \cup Blacklist
    <3> SUFFICES ASSUME th[t].want = 0 PROVE LOWPORT .. ENDPORT \subseteq th[t].tried \cup Blacklist
      OBVIOUS
    <3> DEFINE C == th[t].tried \cup Blacklist
               e == th[t].endport
    <3>1. /\ e \in {ENDPORT, STARTPORT - 1} /\ th[t].i = e - startport + 1
          /\ port \in startport .. e /\ Behind(port, th[t].i, startport, e, C)
          /\ e = STARTPORT - 1 => STARTPORT .. ENDPORT \subseteq C
      BY <1>2, <2>2 DEF Trying
    <3> HIDE DEF C, e
    <3>2. e \in Nat /\ LOWPORT \in Nat
      BY <3>1 DEF Ports!BindAssumption
    <3>3. LOWPORT .. e \subseteq C
      BY <2>2, <3>1, <3>2, BehindAll
    <3>4. LOWPORT .. ENDPORT \subseteq C
      <4>1. CASE e = ENDPORT
        BY <3>3, <4>1
      <4>2. CASE e = STARTPORT - 1
        <5>1. \A x \in LOWPORT .. ENDPORT : x \in LOWPORT .. e \/ x \in STARTPORT .. ENDPORT
          BY <4>2 DEF Ports!BindAssumption
        <5> QED BY <3>1, <3>3, <4>2, <5>1
      <4> QED BY <3>1, <4>1, <4>2
    <3> QED BY <3>4 DEF C
  <2>4. Ports!OwnRange' /\ Ports!NotBlacklisted'
    BY <2>1 DEF Ports!OwnRange, Ports!NotBlacklisted
  <2>5. Ports!TriesAll'
    BY <2>1, <2>3 DEF Ports!TriesAll
  <2> QED BY <1>1, <1>2, <1>3, <2>1, <2>4, <2>5, ReturnPort
<1> QED BY <1>4, <1>5

(* The ports below STARTPORT are added.                                    *)
LEMMA AgainPort ==
  ASSUME Ports!BindAssumption, PortsInv, NEW t \in Binders, Ports!again(t)
  PROVE  PortsInv'
<1> DEFINE r == [th[t] EXCEPT !.i = 0, !.endport = STARTPORT - 1, !.nports = STARTPORT - LOWPORT]
<1>1. /\ th[t].pc = "try" /\ th[t].i = th[t].nports /\ startport /= LOWPORT /\ startport' = LOWPORT
      /\ port' = LOWPORT + (port % (STARTPORT - LOWPORT)) /\ th' = [th EXCEPT ![t] = r]
      /\ bp_last' = Ports!NoResult /\ UNCHANGED <<blacklist_read, list, port_lock, used>>
  BY DEF Ports!again, Ports!at, Ports!becomes, Ports!low_ports
<1>2. th[t] \in PortCall
  BY DEF PortsInv, PortTypes
<1>3. Trying(t) /\ port_lock = t
  BY <1>1 DEF PortsInv, Trying
<1>4. STARTPORT - 1 \in Nat /\ STARTPORT - LOWPORT \in Nat /\ STARTPORT - LOWPORT > 0
  BY DEF Ports!BindAssumption
<1>5. /\ r \in PortCall /\ r.pc = "try" /\ r.i = 0 /\ r.endport = STARTPORT - 1
      /\ r.nports = STARTPORT - LOWPORT /\ r.want = th[t].want /\ r.af = th[t].af
      /\ r.tried = th[t].tried
  BY <1>1, <1>2, <1>4 DEF PortCall
<1> HIDE DEF r
<1>6. th'[t] = r
  BY <1>1 DEF PortsInv, PortTypes
<1>7. startport = STARTPORT /\ port \in 0 .. PortMod - 1 /\ port \in Nat
  BY <1>1 DEF PortsInv, PortTypes, Ports!TypeOK, Ports!BindAssumption
<1>8. port % (STARTPORT - LOWPORT) \in 0 .. STARTPORT - LOWPORT - 1
  <2> DEFINE d == STARTPORT - LOWPORT
  <2>1. d \in Nat /\ d > 0
    BY <1>4
  <2> HIDE DEF d
  <2>2. port % d \in 0 .. d - 1
    BY <1>7, <2>1
  <2> QED BY <2>2 DEF d
<1>9. port' \in LOWPORT .. STARTPORT - 1
  BY <1>1, <1>8 DEF Ports!BindAssumption
<1>10. th[t].endport = ENDPORT
  <2>1. th[t].endport = STARTPORT - 1 => startport = LOWPORT
    BY <1>3 DEF Trying
  <2> QED BY <1>1, <1>3, <2>1 DEF Trying
<1>11. th[t].want = 0 => STARTPORT .. ENDPORT \subseteq th[t].tried \cup Blacklist
  <2> SUFFICES ASSUME th[t].want = 0 PROVE STARTPORT .. ENDPORT \subseteq th[t].tried \cup Blacklist
    OBVIOUS
  <2> DEFINE C == th[t].tried \cup Blacklist
  <2>1. /\ th[t].i = ENDPORT - STARTPORT + 1 /\ port \in STARTPORT .. ENDPORT
        /\ Behind(port, th[t].i, STARTPORT, ENDPORT, C)
    BY <1>1, <1>3, <1>7, <1>10 DEF Trying
  <2> HIDE DEF C
  <2>2. STARTPORT \in Nat /\ ENDPORT \in Nat
    BY DEF Ports!BindAssumption
  <2>3. STARTPORT .. ENDPORT \subseteq C
    BY <2>1, <2>2, BehindAll
  <2> QED BY <2>3 DEF C
<1>12. th[t].want /= 0 => th[t].want \in th[t].tried \cup Blacklist
  <2>1. th[t].i /= 0
    BY <1>1, <1>3, <1>7, <1>10 DEF Trying, Ports!BindAssumption
  <2> QED BY <1>3, <2>1 DEF Trying
<1>13. Trying(t)'
  <2>1. Behind(port', th'[t].i, startport', th'[t].endport, th'[t].tried \cup Blacklist)
    BY <1>5, <1>6, BehindNone
  <2>2. /\ th'[t].endport = STARTPORT - 1 /\ th'[t].i = 0 /\ startport' = LOWPORT /\ port_lock' = t
        /\ th'[t].want = th[t].want /\ th'[t].tried = th[t].tried
        /\ port' \in startport' .. th'[t].endport
    BY <1>1, <1>3, <1>5, <1>6, <1>9
  <2>3. th'[t].nports = th'[t].endport - startport' + 1 /\ th'[t].i <= th'[t].nports
    BY <1>1, <1>5, <1>6 DEF Ports!BindAssumption
  <2>4. th'[t].af \in {"inet", "inet6"}
    BY <1>3, <1>5, <1>6 DEF Trying
  <2> QED BY <1>11, <1>12, <2>1, <2>2, <2>3, <2>4 DEF Trying
<1>14. Ports!TypeOK'
  <2>1. port' \in 0 .. PortMod - 1
    BY <1>9 DEF Ports!BindAssumption
  <2> QED BY <1>1, <2>1 DEF PortsInv, PortTypes, Ports!TypeOK
<1>15. Ports!OwnRange' /\ Ports!TriesAll' /\ Ports!NotBlacklisted'
  BY <1>1, NothingReturned
<1>16. blacklist_read' /\ (list' = Ports!blacklisted \/ ReadBeside(t))
  BY <1>1 DEF PortsInv, ListRead, ReadBeside
<1>17. list' \subseteq Ports!blacklisted /\ r.pc /= "dyn"
  BY <1>1, <1>5 DEF PortsInv, PortTypes
<1> QED BY <1>1, <1>3, <1>5, <1>13, <1>14, <1>15, <1>16, <1>17, ThreadStep

(* __binddynport begins at a random port of its range.                     *)
LEMMA DynBegin ==
  ASSUME Ports!BindAssumption, PortsInv, NEW t \in Binders, NEW af \in Families, Ports!binddynport(t, af)
  PROVE  PortsInv'
<1>1. th[t].pc = "idle" /\ UNCHANGED <<blacklist_read, list, port, startport, used>>
  BY DEF Ports!binddynport, Ports!at
<1>2. list' \subseteq Ports!blacklisted
  BY <1>1 DEF PortsInv, PortTypes
<1>3. blacklist_read' => list' = Ports!blacklisted \/ ReadBeside(t)
  BY <1>1 DEF PortsInv, ListRead, ReadBeside
<1>4. CASE \E e \in {"bound", "EBADF", "-1"} : Ports!dyn_ended(af, e)
  <2>1. bp_last'.proc = "dyn" /\ bp_last'.af = af /\ bp_last'.res \in {"bound", "EBADF", "-1"}
    BY <1>4 DEF Ports!dyn_ended, Ports!NoResult
  <2>2. Ports!OwnRange' /\ Ports!TriesAll' /\ Ports!NotBlacklisted'
    BY <2>1 DEF Ports!OwnRange, Ports!TriesAll, Ports!NotBlacklisted
  <2>3. th \in [Binders -> PortCall]
    BY DEF PortsInv, PortTypes
  <2>4. th' = [th EXCEPT ![t] = th[t]] /\ th[t] \in PortCall
    BY <1>4, <2>3 DEF Ports!dyn_ended
  <2>5. Ports!TypeOK'
    BY <1>1, <1>4 DEF PortsInv, PortTypes, Ports!TypeOK, Ports!dyn_ended
  <2>6. UNCHANGED <<port, startport, port_lock>>
    BY <1>1, <1>4 DEF Ports!dyn_ended
  <2>7. th[t].pc \notin {"read", "lock", "try", "dyn"}
    BY <1>1
  <2> QED BY <1>1, <1>2, <1>3, <2>2, <2>4, <2>5, <2>6, <2>7, ThreadStep
<1>5. CASE \E x \in 0 .. Ports!DYNPORTS - 1 :
             /\ port_lock = Ports!NoThread /\ port_lock' = t /\ bp_last' = Ports!NoResult
             /\ Ports!becomes(t, [Ports!Idle EXCEPT !.pc = "dyn", !.af = af, !.port = x + DYNLOW, !.nports = Ports!DYNPORTS])
  <2>1. PICK x \in 0 .. Ports!DYNPORTS - 1 :
             /\ port_lock = Ports!NoThread /\ port_lock' = t /\ bp_last' = Ports!NoResult
             /\ Ports!becomes(t, [Ports!Idle EXCEPT !.pc = "dyn", !.af = af, !.port = x + DYNLOW, !.nports = Ports!DYNPORTS])
    BY <1>5
  <2> DEFINE r == [Ports!Idle EXCEPT !.pc = "dyn", !.af = af, !.port = x + DYNLOW, !.nports = Ports!DYNPORTS]
  <2>2. th' = [th EXCEPT ![t] = r]
    BY <2>1 DEF Ports!becomes
  <2>3. Ports!DYNPORTS \in Nat /\ x + DYNLOW \in DYNLOW .. DYNEND /\ x + DYNLOW \in Nat
    BY DEF Ports!DYNPORTS, Ports!BindAssumption
  <2>4. /\ r \in PortCall /\ r.pc = "dyn" /\ r.port = x + DYNLOW /\ r.nports = Ports!DYNPORTS
        /\ r.i = 0 /\ r.tried = {}
    <3> DEFINE q == x + DYNLOW
    <3>1. q \in Nat /\ r = [Ports!Idle EXCEPT !.pc = "dyn", !.af = af, !.port = q, !.nports = Ports!DYNPORTS]
      BY <2>3
    <3> HIDE DEF q, r
    <3>2. Ports!Idle \in PortCall /\ Ports!Idle.i = 0 /\ Ports!Idle.tried = {}
      BY IdlePort
    <3>3. /\ r \in PortCall /\ r.pc = "dyn" /\ r.port = q /\ r.nports = Ports!DYNPORTS
          /\ r.i = 0 /\ r.tried = {}
      BY <2>3, <3>1, <3>2 DEF PortCall
    <3> QED BY <3>3 DEF q
  <2> HIDE DEF r
  <2>5. th'[t] = r
    BY <2>2 DEF PortsInv, PortTypes
  <2>6. Behind(th'[t].port, th'[t].i, DYNLOW, DYNEND, th'[t].tried)
    BY <2>4, <2>5, BehindNone
  <2>7. /\ th'[t].i <= th'[t].nports /\ th'[t].port \in DYNLOW .. DYNEND
        /\ th'[t].tried \subseteq DYNLOW .. DYNEND
    BY <2>3, <2>4, <2>5
  <2>8. Dynamic(t)'
    BY <2>1, <2>4, <2>5, <2>6, <2>7 DEF Dynamic, Ports!DYNPORTS
  <2>9. Ports!OwnRange' /\ Ports!TriesAll' /\ Ports!NotBlacklisted'
    BY <2>1, NothingReturned
  <2>10. Ports!TypeOK'
    BY <1>1, <2>1 DEF PortsInv, PortTypes, Ports!TypeOK
  <2>11. r.pc \notin {"read", "lock", "try"}
    BY <2>4
  <2> QED BY <1>1, <1>2, <1>3, <2>1, <2>2, <2>4, <2>8, <2>9, <2>10, <2>11, ThreadStep
<1> QED BY <1>4, <1>5 DEF Ports!binddynport

LEMMA DynStep ==
  ASSUME Ports!BindAssumption, PortsInv, NEW t \in Binders,
         Ports!dyn_try(t) \/ Ports!dyn_bound(t) \/ Ports!dyn_in_use(t) \/ Ports!dyn_denied(t)
  PROVE  PortsInv'
<1>1. /\ th[t].pc = "dyn" /\ UNCHANGED <<blacklist_read, list, port, startport>>
  BY DEF Ports!dyn_try, Ports!dyn_bound, Ports!dyn_in_use, Ports!dyn_denied, Ports!at
<1>2. Dynamic(t) /\ port_lock = t
  BY <1>1 DEF PortsInv, Dynamic
<1>3. th[t] \in PortCall
  BY DEF PortsInv, PortTypes
<1>4. /\ th[t].i \in Nat /\ th[t].nports = DYNEND - DYNLOW + 1 /\ DYNLOW \in Nat /\ DYNEND \in Nat
      /\ th[t].port \in DYNLOW .. DYNEND
  BY <1>2, <1>3 DEF PortCall, Dynamic, Ports!DYNPORTS, Ports!BindAssumption
<1>5. CASE Ports!dyn_try(t)
  <2> DEFINE q == Ports!dyn_next(th[t].port)
             T == th[t].tried \cup {th[t].port}
             r == [th[t] EXCEPT !.i = @ + 1, !.port = q, !.tried = T]
  <2>1. /\ th[t].i < th[t].nports /\ th' = [th EXCEPT ![t] = r] /\ bp_last' = Ports!NoResult
        /\ UNCHANGED <<port_lock, used>>
    BY <1>5 DEF Ports!dyn_try, Ports!becomes
  <2>2. q = IF th[t].port + 1 > DYNEND THEN DYNLOW ELSE th[t].port + 1
    BY DEF Ports!dyn_next
  <2>3. T \subseteq DYNLOW .. DYNEND /\ th[t].tried \subseteq T /\ th[t].port \in T
    BY <1>2 DEF Dynamic
  <2> HIDE DEF q, T
  <2>4. q \in DYNLOW .. DYNEND /\ q \in Nat
    BY <1>4, <2>2
  <2>5. T \in SUBSET Nat
    BY <1>4, <2>3
  <2>6. /\ r \in PortCall /\ r.pc = "dyn" /\ r.i = th[t].i + 1 /\ r.port = q /\ r.tried = T
        /\ r.nports = th[t].nports
    <3> DEFINE n == th[t].i + 1
    <3>1. n \in Nat /\ r = [th[t] EXCEPT !.i = n, !.port = q, !.tried = T]
      BY <1>4
    <3> HIDE DEF n, r
    <3>2. /\ r \in PortCall /\ r.pc = "dyn" /\ r.i = n /\ r.port = q /\ r.tried = T
          /\ r.nports = th[t].nports
      BY <1>1, <1>3, <2>4, <2>5, <3>1 DEF PortCall
    <3> QED BY <3>2 DEF n
  <2> HIDE DEF r
  <2>7. th'[t] = r
    BY <2>1 DEF PortsInv, PortTypes
  <2>8. Behind(q, th[t].i + 1, DYNLOW, DYNEND, T)
    <3>1. Behind(th[t].port, th[t].i, DYNLOW, DYNEND, th[t].tried)
      BY <1>2 DEF Dynamic
    <3>2. th[t].i < DYNEND - DYNLOW + 1
      BY <1>4, <2>1
    <3>3. Behind(IF th[t].port + 1 > DYNEND THEN DYNLOW ELSE th[t].port + 1, th[t].i + 1, DYNLOW, DYNEND, T)
      BY <1>4, <2>3, <3>1, <3>2, BehindNext
    <3> QED BY <2>2, <3>3
  <2>9. Dynamic(t)'
    <3>1. Behind(th'[t].port, th'[t].i, DYNLOW, DYNEND, th'[t].tried)
      BY <2>6, <2>7, <2>8
    <3>2. th'[t].i <= th'[t].nports
      BY <1>4, <2>1, <2>6, <2>7
    <3>3. /\ port_lock' = t /\ th'[t].nports = Ports!DYNPORTS' /\ th'[t].port \in DYNLOW .. DYNEND
          /\ th'[t].tried \subseteq DYNLOW .. DYNEND
      BY <1>2, <1>4, <2>1, <2>3, <2>4, <2>6, <2>7 DEF Ports!DYNPORTS
    <3> QED BY <3>1, <3>2, <3>3 DEF Dynamic, Ports!DYNPORTS
  <2>10. Ports!OwnRange' /\ Ports!TriesAll' /\ Ports!NotBlacklisted'
    BY <2>1, NothingReturned
  <2>11. Ports!TypeOK'
    BY <1>1, <2>1 DEF PortsInv, PortTypes, Ports!TypeOK
  <2>12. list' \subseteq Ports!blacklisted /\ (blacklist_read' => list' = Ports!blacklisted \/ ReadBeside(t))
    BY <1>1 DEF PortsInv, PortTypes, ListRead, ReadBeside
  <2>13. r.pc \notin {"read", "lock", "try"}
    BY <2>6
  <2> QED BY <1>1, <1>2, <2>1, <2>6, <2>9, <2>10, <2>11, <2>12, <2>13, ThreadStep
<1>6. CASE Ports!dyn_bound(t)
  <2>1. /\ th' = [th EXCEPT ![t] = Ports!Idle] /\ bp_last'.proc = "dyn" /\ bp_last'.res = "0"
        /\ bp_last'.port = th[t].port
    BY <1>6, ReturnFields DEF Ports!dyn_bound
  <2>2. port_lock' = Ports!NoThread /\ used' = used \cup {th[t].port}
    BY <1>6 DEF Ports!dyn_bound
  <2>3. Ports!OwnRange' /\ Ports!TriesAll' /\ Ports!NotBlacklisted'
    BY <1>4, <2>1 DEF Ports!OwnRange, Ports!TriesAll, Ports!NotBlacklisted
  <2>4. used' \subseteq Ports!Ports
    <3>1. th[t].port \in Ports!Ports
      BY <1>4 DEF Ports!Ports, Ports!BindAssumption
    <3> QED BY <2>2, <3>1 DEF PortsInv, PortTypes, Ports!TypeOK
  <2> QED BY <1>1, <1>2, <2>1, <2>2, <2>3, <2>4, ReturnPort
<1>7. CASE Ports!dyn_in_use(t)
  <2>1. /\ th' = [th EXCEPT ![t] = Ports!Idle] /\ bp_last'.proc = "dyn" /\ bp_last'.res = "EADDRINUSE"
        /\ bp_last'.tried = th[t].tried
    BY <1>7, ReturnFields DEF Ports!dyn_in_use
  <2>2. port_lock' = Ports!NoThread /\ used' = used /\ th[t].i = th[t].nports
    BY <1>7 DEF Ports!dyn_in_use
  <2>3. th[t].tried = DYNLOW .. DYNEND
    <3>1. /\ Behind(th[t].port, DYNEND - DYNLOW + 1, DYNLOW, DYNEND, th[t].tried)
          /\ th[t].tried \subseteq DYNLOW .. DYNEND
      BY <1>2, <1>4, <2>2 DEF Dynamic
    <3>2. DYNLOW .. DYNEND \subseteq th[t].tried
      BY <1>4, <3>1, BehindAll
    <3> QED BY <3>1, <3>2
  <2>4. Ports!OwnRange' /\ Ports!TriesAll' /\ Ports!NotBlacklisted'
    BY <2>1, <2>3 DEF Ports!OwnRange, Ports!TriesAll, Ports!NotBlacklisted
  <2>5. used' \subseteq Ports!Ports
    BY <2>2 DEF PortsInv, PortTypes, Ports!TypeOK
  <2> QED BY <1>1, <1>2, <2>1, <2>2, <2>4, <2>5, ReturnPort
<1>8. CASE Ports!dyn_denied(t)
  <2>1. /\ th' = [th EXCEPT ![t] = Ports!Idle] /\ bp_last'.proc = "dyn" /\ bp_last'.res = "EACCES"
    BY <1>8, ReturnFields DEF Ports!dyn_denied
  <2>2. port_lock' = Ports!NoThread /\ used' = used
    BY <1>8 DEF Ports!dyn_denied
  <2>3. Ports!OwnRange' /\ Ports!TriesAll' /\ Ports!NotBlacklisted'
    BY <2>1 DEF Ports!OwnRange, Ports!TriesAll, Ports!NotBlacklisted
  <2>4. used' \subseteq Ports!Ports
    BY <2>2 DEF PortsInv, PortTypes, Ports!TypeOK
  <2> QED BY <1>1, <1>2, <2>1, <2>2, <2>3, <2>4, ReturnPort
<1> QED BY <1>5, <1>6, <1>7, <1>8

(* Whatever ports other threads ask for and other processes take, for any  *)
(* ranges and any blacklist: a socket gets a port of the range its caller  *)
(* may have or the port it was asked for, a search finds every port taken  *)
(* only when all of its range was tried, and no blacklisted port is bound  *)
(* once the list has been read (bindresvport_sa, __binddynport).           *)
THEOREM PortSearch == Ports!Spec => []PortsInRange
<1>1. PortsInv /\ [Ports!Next]_Ports!vars => PortsInv'
  <2> SUFFICES ASSUME PortsInv, [Ports!Next]_Ports!vars PROVE PortsInv'
    OBVIOUS
  <2>1. CASE UNCHANGED Ports!vars
    <3>1. UNCHANGED <<blacklist_read, list, port, startport, port_lock, used, th, bp_last>>
      BY <2>1 DEF Ports!vars
    <3>2. PortTypes'
      BY <3>1 DEF PortsInv, PortTypes, Ports!TypeOK, Ports!blacklisted
    <3>3. \A t \in Binders : (Trying(t) => Trying(t)') /\ (Dynamic(t) => Dynamic(t)')
      BY <3>1 DEF Trying, Dynamic, Behind, Ports!DYNPORTS
    <3>4. ListRead'
      BY <3>1 DEF PortsInv, ListRead, Ports!blacklisted
    <3>5. Ports!OwnRange' /\ Ports!TriesAll' /\ Ports!NotBlacklisted'
      BY <3>1 DEF PortsInv, Ports!OwnRange, Ports!TriesAll, Ports!NotBlacklisted, Ports!at
    <3> QED BY <3>1, <3>2, <3>3, <3>4, <3>5 DEF PortsInv
  <2>2. CASE \E t \in Binders : Ports!Begin(t)
    BY <2>2, ClientAssumption, BeginPort, DynBegin DEF Ports!Begin
  <2>3. CASE \E t \in Binders : Ports!Load(t)
    BY <2>3, ClientAssumption, LoadPort
  <2>4. CASE \E t \in Binders : Ports!Step(t)
    BY <2>4, ClientAssumption, EnterPort, SkipPort, BoundPort, GiveUpPort, AgainPort, DynStep DEF Ports!Step
  <2>5. CASE Ports!Others
    <3>1. /\ UNCHANGED <<blacklist_read, list, port, startport, port_lock, th>>
          /\ bp_last' = Ports!NoResult
      BY <2>5 DEF Ports!Others
    <3>2. used' \subseteq Ports!Ports
      <4>1. PICK p \in LOWPORT .. DYNEND : used' = (used \cup {p}) \ (used \cap {p})
        BY <2>5 DEF Ports!Others
      <4>2. p \in Ports!Ports
        BY ClientAssumption DEF Ports!Ports, Ports!BindAssumption
      <4> QED BY <4>1, <4>2 DEF PortsInv, PortTypes, Ports!TypeOK
    <3>3. PortTypes'
      BY <3>1, <3>2 DEF PortsInv, PortTypes, Ports!TypeOK, Ports!blacklisted
    <3>4. \A t \in Binders : (Trying(t) => Trying(t)') /\ (Dynamic(t) => Dynamic(t)')
      BY <3>1 DEF Trying, Dynamic, Behind, Ports!DYNPORTS
    <3>5. ListRead'
      BY <3>1 DEF PortsInv, ListRead, Ports!blacklisted
    <3>6. Ports!OwnRange' /\ Ports!TriesAll' /\ Ports!NotBlacklisted'
      BY <3>1, NothingReturned
    <3> QED BY <3>1, <3>3, <3>4, <3>5, <3>6 DEF PortsInv
  <2> QED BY <2>1, <2>2, <2>3, <2>4, <2>5 DEF Ports!Next
<1> QED BY <1>1, ClientAssumption, PortsInit, PortsSafe, PTL DEF Ports!Spec, PortsInRange

-----------------------------------------------------------------------------
(* The creation and use of handles (ClntGeneric).                          *)
Errors == {"N2AXLATEFAILURE", "PROGNOTREGISTERED", "RPCBFAILURE", "UNKNOWNHOST", "SYSTEMERROR"}
Names  == Hosts \cup {"none"}
Made   == [id : Nat \ {0}, fd : Creating!Fds, closeit : BOOLEAN, host : Names, vers : Nat, pid : Nat]
Doing  == [pc : {"idle", "getconf", "failed", "made", "negotiate", "call"},
           use : {"none", "create", "vers", "rpc_call"}, host : Names, low : Nat, high : Nat,
           vers : Nat, i : Nat, save : Errors \cup {"SUCCESS"}, h : Made \cup {Creating!NoHandle},
           errs : Seq(Errors)]

HandleTypes ==
  /\ fds \in [Creating!Fds -> {"free", "app", "sync", "lib"}] /\ handles \subseteq Made
  /\ gen_op \in Doing /\ rcp \in [valid : BOOLEAN, client : Nat, pid : Nat, vers : Nat, host : Names]
  /\ pid \in Nat /\ server \in Supported /\ gen_calls \in Nat /\ closed = {}

(* Every descriptor of the library has one handle, the one that was just   *)
(* made among them, and no two handles have one name.                      *)
HandleOwns ==
  /\ \A f \in Creating!Fds : fds[f] = "lib" <=>
       \/ \E h \in handles : h.closeit /\ h.fd = f
       \/ gen_op.pc = "made" /\ gen_op.h.fd = f
  /\ \A g, h \in handles : g.closeit /\ h.closeit /\ g.fd = h.fd => g = h
  /\ \A g, h \in handles : g.id = h.id => g = h
  /\ \A h \in handles : h.id <= gen_calls

(* The errors of the transports tried so far, and the last telling one.    *)
Telling(errs) == {k \in DOMAIN errs : errs[k] \notin Creating!Unspecific}
LastTelling(errs, e) ==
  Telling(errs) = {} \/ \E k \in Telling(errs) : e = errs[k] /\ \A j \in Telling(errs) : j <= k
ErrorsKept ==
  /\ gen_op.pc \in {"getconf", "failed"} => LastTelling(gen_op.errs, gen_op.save)
  /\ gen_op.pc = "failed" => rpc_createerr \in Errors
  /\ gen_op.pc = "getconf" =>
       rpc_createerr = IF gen_op.errs = <<>> THEN "SUCCESS" ELSE gen_op.errs[Len(gen_op.errs)]

(* The handle that is being made: it has the newest name, and nobody else  *)
(* its descriptor.                                                         *)
Making ==
  /\ gen_op.pc \in {"getconf", "failed", "made"} =>
       gen_calls > 0 /\ \A h \in handles : h.id < gen_calls
  /\ gen_op.pc = "made" =>
       /\ gen_op.h \in Made /\ gen_op.h.closeit /\ gen_op.h.id = gen_calls
       /\ gen_op.h.host = gen_op.host /\ gen_op.h.vers = gen_op.vers /\ gen_op.h.pid = pid
       /\ \A h \in handles : h.closeit => h.fd /= gen_op.h.fd
  /\ gen_op.pc = "negotiate" => gen_op.use = "vers" /\ gen_op.h \in handles /\ gen_op.h.id /= rcp.client
  /\ gen_op.pc = "call" =>
       /\ gen_op.use = "rpc_call" /\ gen_op.h \in Made
       /\ gen_op.h.host = gen_op.host /\ gen_op.h.vers = gen_op.vers /\ gen_op.h.pid = pid

(* No version the server has in the range was passed over.                 *)
Negotiated ==
  gen_op.pc /= "idle" /\ gen_op.use = "vers" =>
    /\ gen_op.low <= gen_op.vers /\ gen_op.vers <= gen_op.high
    /\ \A v \in server : v <= gen_op.high => v <= gen_op.vers

(* The handle rpc_call keeps exists, and is what rcp says of it.           *)
KeptHandle ==
  /\ rcp.client /= 0 => \E h \in handles : h.id = rcp.client
  /\ rcp.valid => \E h \in handles :
       h.id = rcp.client /\ h.host = rcp.host /\ h.vers = rcp.vers /\ h.pid = rcp.pid

Ended == Creating!SpecificError /\ Creating!HighestVersion /\ Creating!CallsOwn
HandlesInv ==
  HandleTypes /\ HandleOwns /\ ErrorsKept /\ Making /\ Negotiated /\ KeptHandle /\ Ended

LEMMA NotMade == Creating!NoHandle \notin Made /\ Creating!NoHandle.id = 0
  BY DEF Made, Creating!NoHandle

(* The kernel gives the lowest descriptor that is free, if there is one.   *)
LEMMA LowestFree ==
  ASSUME Creating!ClntGenericAssumption
  PROVE  \/ Creating!lowest(Creating!Fds) = -1
         \/ /\ Creating!lowest(Creating!Fds) \in Creating!Fds
            /\ fds[Creating!lowest(Creating!Fds)] = "free"
<1> DEFINE S == {f \in Creating!Fds : fds[f] = "free"}
<1>1. S \subseteq Nat
  BY DEF Creating!Fds, Creating!ClntGenericAssumption
<1>2. ASSUME S /= {} PROVE \E f \in S : \A g \in S : ~(g < f)
  <2>1. PICK f \in S : \A g \in S : ~(<<g, f>> \in OpToRel(<, Nat))
    BY <1>1, <1>2, NatLessThanWellFounded, WFMin
  <2> QED BY <1>1, <2>1 DEF OpToRel
<1>3. CASE S = {}
  BY <1>3 DEF Creating!lowest
<1>4. CASE S /= {}
  <2>1. PICK f \in Creating!Fds : fds[f] = "free" /\ \A g \in Creating!Fds : g < f => fds[g] /= "free"
    BY <1>2, <1>4
  <2> QED BY <2>1 DEF Creating!lowest
<1> QED BY <1>3, <1>4

(* Nothing ended in a step: nothing is said of it.                         *)
LEMMA NothingEnded ==
  ASSUME gen_last' = Creating!NoEnd PROVE Ended'
<1>1. gen_last'.use = "none"
  BY DEF Creating!NoEnd
<1> QED BY <1>1 DEF Ended, Creating!SpecificError, Creating!HighestVersion, Creating!CallsOwn

(* A handle is destroyed: its descriptor is closed if the library opened   *)
(* it, and no other handle has that one.                                   *)
LEMMA Destroyed ==
  ASSUME HandleTypes, HandleOwns, NEW h \in handles, fds' = Creating!closing(h),
         handles' = handles \ {h}, gen_calls' \in Nat, gen_calls <= gen_calls',
         gen_op.pc /= "made", gen_op'.pc /= "made"
  PROVE  /\ fds' \in [Creating!Fds -> {"free", "app", "sync", "lib"}] /\ handles' \subseteq Made
         /\ HandleOwns'
<1>1. h \in Made /\ h.fd \in Creating!Fds /\ h.closeit \in BOOLEAN
  BY DEF HandleTypes, Made
<1>2. /\ fds' \in [Creating!Fds -> {"free", "app", "sync", "lib"}]
      /\ \A f \in Creating!Fds : fds'[f] = IF h.closeit /\ f = h.fd THEN "free" ELSE fds[f]
  BY <1>1 DEF HandleTypes, Creating!closing
<1>3. \A f \in Creating!Fds : fds'[f] = "lib" <=> \E g \in handles' : g.closeit /\ g.fd = f
  <2> TAKE f \in Creating!Fds
  <2>1. fds[f] = "lib" <=> \E g \in handles : g.closeit /\ g.fd = f
    BY DEF HandleOwns
  <2>2. CASE h.closeit /\ f = h.fd
    <3>1. ~\E g \in handles' : g.closeit /\ g.fd = f
      BY <2>2 DEF HandleOwns
    <3> QED BY <1>2, <2>2, <3>1
  <2>3. CASE ~(h.closeit /\ f = h.fd)
    BY <1>2, <2>1, <2>3
  <2> QED BY <2>2, <2>3
<1>4. \A g \in handles' : g.id <= gen_calls'
  BY DEF HandleOwns, HandleTypes, Made
<1>5. handles' \subseteq Made
  BY DEF HandleTypes
<1> QED BY <1>2, <1>3, <1>4, <1>5 DEF HandleOwns, Creating!Fds

(* Handles and descriptors stay.                                           *)
LEMMA OwnsStays ==
  ASSUME HandleTypes, HandleOwns, UNCHANGED <<fds, handles>>, gen_calls' \in Nat, gen_calls <= gen_calls',
         gen_op.pc /= "made", gen_op'.pc /= "made"
  PROVE  HandleOwns'
<1>1. \A g \in handles' : g.id <= gen_calls'
  BY DEF HandleOwns, HandleTypes, Made
<1> QED BY <1>1 DEF HandleOwns, Creating!Fds

LEMMA KeptStays ==
  ASSUME KeptHandle, UNCHANGED rcp, \A h \in handles : h.id = rcp.client => h \in handles'
  PROVE  KeptHandle'
  BY DEF KeptHandle

(* An operation begins with an empty search.                               *)
LEMMA SearchBegins ==
  ASSUME HandleTypes, NEW use \in {"create", "vers", "rpc_call"}, NEW host \in Hosts, NEW low \in Nat,
         NEW high \in Nat, low <= high, Creating!begin(use, host, low, high),
         \A h \in handles' : h.id <= gen_calls /\ h \in Made,
         server' = server, server \subseteq Nat
  PROVE  /\ gen_op' \in Doing /\ gen_op'.pc = "getconf" /\ gen_calls' = gen_calls + 1
         /\ ErrorsKept' /\ Making' /\ Negotiated'
<1>1. /\ gen_op' = [Creating!NoOp EXCEPT !.pc = "getconf", !.use = use, !.host = host, !.low = low,
                                         !.high = high, !.vers = high]
      /\ rpc_createerr' = "SUCCESS" /\ gen_calls' = gen_calls + 1
  BY DEF Creating!begin
<1>2. <<>> \in Seq(Errors) /\ \A x : x \notin DOMAIN <<>>
  OBVIOUS
<1>3. /\ gen_op'.pc = "getconf" /\ gen_op'.use = use /\ gen_op'.host = host /\ gen_op'.low = low
      /\ gen_op'.high = high /\ gen_op'.vers = high /\ gen_op'.i = 0 /\ gen_op'.save = "SUCCESS"
      /\ gen_op'.h = Creating!NoHandle /\ gen_op'.errs = <<>>
  BY <1>1 DEF Creating!NoOp
<1>4. gen_op' \in Doing
  BY <1>1, <1>2 DEF Doing, Creating!NoOp, Names
<1>5. ErrorsKept'
  BY <1>2, <1>3, <1>1 DEF ErrorsKept, LastTelling, Telling
<1>6. Making'
  BY <1>1, <1>3 DEF Making, HandleTypes, Made
<1>7. Negotiated'
  BY <1>3 DEF Negotiated
<1> QED BY <1>1, <1>3, <1>4, <1>5, <1>6, <1>7

(* What is known of the versions of the server.                            *)
LEMMA ServerHas ==
  ASSUME Creating!ClntGenericAssumption, HandleTypes
  PROVE  server \subseteq Nat /\ \E m \in server : \A v \in server : v <= m
  BY DEF HandleTypes, Creating!ClntGenericAssumption

LEMMA CreateHandles ==
  ASSUME Creating!ClntGenericAssumption, HandlesInv, NEW host \in Hosts, NEW low \in Versions,
         NEW high \in Versions,
         \/ Creating!clnt_create(host, low) /\ low = high
         \/ Creating!clnt_create_vers(host, low, high)
  PROVE  HandlesInv'
<1> DEFINE use == IF Creating!clnt_create(host, low) /\ low = high THEN "create" ELSE "vers"
<1>1. low \in Nat /\ high \in Nat /\ low <= high
  <2>1. low \in Nat /\ high \in Nat
    BY DEF Creating!ClntGenericAssumption
  <2>2. low = high \/ low <= high
    BY DEF Creating!clnt_create_vers
  <2> QED BY <2>1, <2>2
<1>2. /\ gen_op.pc = "idle" /\ Creating!begin(use, host, low, high) /\ gen_last' = Creating!NoEnd
      /\ closed' = {} /\ UNCHANGED <<fds, handles, rcp, pid, server>>
  BY DEF Creating!clnt_create, Creating!clnt_create_vers, Creating!idle
<1>3. use \in {"create", "vers", "rpc_call"}
  OBVIOUS
<1> HIDE DEF use
<1>4. HandleTypes /\ HandleOwns /\ KeptHandle /\ gen_calls \in Nat
  BY DEF HandlesInv, HandleTypes
<1>5. \A h \in handles' : h.id <= gen_calls /\ h \in Made
  BY <1>2, <1>4 DEF HandleTypes, HandleOwns
<1>6. /\ gen_op' \in Doing /\ gen_op'.pc = "getconf" /\ gen_calls' = gen_calls + 1
      /\ ErrorsKept' /\ Making' /\ Negotiated'
  BY <1>1, <1>2, <1>3, <1>4, <1>5, ServerHas, SearchBegins
<1>7. HandleTypes'
  BY <1>2, <1>4, <1>6 DEF HandleTypes, Creating!Fds
<1>8. HandleOwns'
  BY <1>2, <1>4, <1>6, OwnsStays
<1>9. KeptHandle'
  BY <1>2, <1>4, KeptStays
<1>10. Ended'
  BY <1>2, NothingEnded
<1> QED BY <1>6, <1>7, <1>8, <1>9, <1>10 DEF HandlesInv

(* The handle of a name.                                                   *)
LEMMA HandleOf ==
  ASSUME HandleOwns, NEW id, \E h \in handles : h.id = id
  PROVE  /\ Creating!handle(id) \in handles /\ Creating!handle(id).id = id
         /\ \A h \in handles : h.id = id => h = Creating!handle(id)
<1>1. Creating!handle(id) \in handles /\ Creating!handle(id).id = id
  BY DEF Creating!handle
<1> QED BY <1>1 DEF HandleOwns

LEMMA CallHandles ==
  ASSUME Creating!ClntGenericAssumption, HandlesInv, NEW host \in Hosts, NEW v \in Versions,
         Creating!rpc_call(host, v)
  PROVE  HandlesInv'
<1>1. /\ gen_op.pc = "idle" /\ gen_last' = Creating!NoEnd /\ closed' = {}
      /\ UNCHANGED <<pid, server>> /\ v \in Nat
  BY DEF Creating!rpc_call, Creating!idle, Creating!ClntGenericAssumption
<1>2. HandleTypes /\ HandleOwns /\ KeptHandle /\ gen_calls \in Nat /\ handles \subseteq Made
  BY DEF HandlesInv, HandleTypes
<1>3. Ended'
  BY <1>1, NothingEnded
<1>4. rcp.client /= 0 => /\ Creating!handle(rcp.client) \in handles
                         /\ Creating!handle(rcp.client).id = rcp.client
                         /\ \A h \in handles : h.id = rcp.client => h = Creating!handle(rcp.client)
  BY <1>2, HandleOf DEF KeptHandle
<1>5. CASE Creating!cached(host, v)
  <2> DEFINE h0 == Creating!handle(rcp.client)
  <2>1. /\ gen_calls' = gen_calls + 1 /\ UNCHANGED <<fds, handles, rpc_createerr, rcp>>
        /\ gen_op' = [Creating!NoOp EXCEPT !.pc = "call", !.use = "rpc_call", !.host = host,
                        !.low = v, !.high = v, !.vers = v, !.h = h0]
    BY <1>5 DEF Creating!rpc_call
  <2>2. h0 \in handles /\ h0.host = host /\ h0.vers = v /\ h0.pid = pid
    <3>1. PICK h \in handles : h.id = rcp.client /\ h.host = rcp.host /\ h.vers = rcp.vers /\ h.pid = rcp.pid
      BY <1>2, <1>5 DEF KeptHandle, Creating!cached
    <3>2. h = h0
      BY <1>2, <3>1, HandleOf
    <3> QED BY <1>5, <3>1, <3>2 DEF Creating!cached
  <2>3. h0 \in Made
    BY <1>2, <2>2
  <2> HIDE DEF h0
  <2>4. <<>> \in Seq(Errors)
    OBVIOUS
  <2>5. /\ gen_op'.pc = "call" /\ gen_op'.use = "rpc_call" /\ gen_op'.host = host /\ gen_op'.vers = v
        /\ gen_op'.h = h0 /\ gen_op' \in Doing
    BY <1>1, <2>1, <2>3, <2>4 DEF Doing, Creating!NoOp, Names
  <2>6. HandleTypes'
    BY <1>1, <1>2, <2>1, <2>5 DEF HandleTypes, Creating!Fds
  <2>7. HandleOwns'
    BY <1>1, <1>2, <2>1, <2>5, OwnsStays
  <2>8. KeptHandle'
    BY <1>2, <2>1, KeptStays
  <2>9. ErrorsKept' /\ Making' /\ Negotiated'
    BY <1>1, <2>2, <2>3, <2>5 DEF ErrorsKept, Making, Negotiated
  <2> QED BY <1>3, <2>6, <2>7, <2>8, <2>9 DEF HandlesInv
<1>6. CASE ~Creating!cached(host, v)
  <2>1. /\ Creating!begin("rpc_call", host, v, v)
        /\ rcp' = [rcp EXCEPT !.valid = FALSE, !.client = 0, !.pid = pid]
        /\ IF rcp.client /= 0
           THEN /\ fds' = Creating!closing(Creating!handle(rcp.client))
                /\ handles' = handles \ {Creating!handle(rcp.client)}
           ELSE UNCHANGED <<fds, handles>>
    BY <1>6 DEF Creating!rpc_call
  <2>2. handles' \subseteq handles
    BY <2>1
  <2>3. \A h \in handles' : h.id <= gen_calls /\ h \in Made
    BY <1>2, <2>2 DEF HandleOwns
  <2>4. /\ gen_op' \in Doing /\ gen_op'.pc = "getconf" /\ gen_calls' = gen_calls + 1
        /\ ErrorsKept' /\ Making' /\ Negotiated'
    BY <1>1, <1>2, <2>1, <2>3, ServerHas, SearchBegins
  <2>5. /\ fds' \in [Creating!Fds -> {"free", "app", "sync", "lib"}] /\ handles' \subseteq Made
        /\ HandleOwns'
    <3>1. CASE rcp.client /= 0
      BY <1>1, <1>2, <1>4, <2>1, <2>4, <3>1, Destroyed
    <3>2. CASE rcp.client = 0
      BY <1>1, <1>2, <2>1, <2>4, <3>2, OwnsStays DEF HandleTypes
    <3> QED BY <3>1, <3>2
  <2>6. /\ rcp' \in [valid : BOOLEAN, client : Nat, pid : Nat, vers : Nat, host : Names]
        /\ rcp'.valid = FALSE /\ rcp'.client = 0
    BY <1>2, <2>1 DEF HandleTypes
  <2>7. HandleTypes'
    BY <1>1, <1>2, <2>4, <2>5, <2>6 DEF HandleTypes, Creating!Fds
  <2>8. KeptHandle'
    BY <2>6 DEF KeptHandle
  <2> QED BY <1>3, <2>4, <2>5, <2>7, <2>8 DEF HandlesInv
<1> QED BY <1>5, <1>6

(* The thread ends, a handle is destroyed, the process forks.              *)
LEMMA DestroyHandles ==
  ASSUME HandlesInv,
         \/ Creating!rpc_call_destroy \/ Creating!fork
         \/ \E h \in handles : Creating!CLNT_DESTROY(h)
  PROVE  HandlesInv'
<1>1. /\ gen_op.pc = "idle" /\ gen_last' = Creating!NoEnd /\ UNCHANGED <<gen_op, gen_calls, server, rpc_createerr>>
  BY DEF Creating!rpc_call_destroy, Creating!fork, Creating!CLNT_DESTROY, Creating!idle
<1>2. HandleTypes /\ HandleOwns /\ KeptHandle /\ gen_calls \in Nat /\ handles \subseteq Made
  BY DEF HandlesInv, HandleTypes
<1>3. Ended'
  BY <1>1, NothingEnded
<1>4. ErrorsKept' /\ Making' /\ Negotiated'
  BY <1>1 DEF ErrorsKept, Making, Negotiated
<1>5. gen_op'.pc = "idle" /\ gen_calls <= gen_calls'
  BY <1>1, <1>2
<1>6. CASE Creating!rpc_call_destroy
  <2>1. /\ rcp' = Creating!NoRcp /\ closed' = {} /\ pid' = pid
        /\ IF rcp.client /= 0
           THEN /\ fds' = Creating!closing(Creating!handle(rcp.client))
                /\ handles' = handles \ {Creating!handle(rcp.client)}
           ELSE UNCHANGED <<fds, handles>>
    BY <1>6 DEF Creating!rpc_call_destroy
  <2>2. rcp.client /= 0 => Creating!handle(rcp.client) \in handles
    BY <1>2, HandleOf DEF KeptHandle
  <2>3. /\ fds' \in [Creating!Fds -> {"free", "app", "sync", "lib"}] /\ handles' \subseteq Made
        /\ HandleOwns'
    <3>1. CASE rcp.client /= 0
      BY <1>1, <1>2, <1>5, <2>1, <2>2, <3>1, Destroyed
    <3>2. CASE rcp.client = 0
      BY <1>1, <1>2, <1>5, <2>1, <3>2, OwnsStays DEF HandleTypes
    <3> QED BY <3>1, <3>2
  <2>4. /\ rcp' \in [valid : BOOLEAN, client : Nat, pid : Nat, vers : Nat, host : Names]
        /\ rcp'.valid = FALSE /\ rcp'.client = 0
    BY <2>1 DEF Creating!NoRcp, Names
  <2>5. HandleTypes'
    BY <1>1, <1>2, <2>1, <2>3, <2>4 DEF HandleTypes, Creating!Fds
  <2>6. KeptHandle'
    BY <2>4 DEF KeptHandle
  <2> QED BY <1>3, <1>4, <2>3, <2>5, <2>6 DEF HandlesInv
<1>7. CASE Creating!fork
  <2>1. UNCHANGED <<fds, handles, rcp>> /\ pid' = pid + 1 /\ closed' = {}
    BY <1>7 DEF Creating!fork
  <2>2. HandleTypes'
    BY <1>1, <1>2, <2>1 DEF HandleTypes, Creating!Fds
  <2>3. HandleOwns'
    BY <1>1, <1>2, <1>5, <2>1, OwnsStays
  <2>4. KeptHandle'
    BY <1>2, <2>1, KeptStays
  <2> QED BY <1>3, <1>4, <2>2, <2>3, <2>4 DEF HandlesInv
<1>8. ASSUME NEW h \in handles, Creating!CLNT_DESTROY(h) PROVE HandlesInv'
  <2>1. /\ h.id /= rcp.client /\ handles' = handles \ {h} /\ fds' = Creating!closing(h)
        /\ closed' = {f \in {h.fd} : fds[f] = "app" /\ Creating!closing(h)[f] = "free"}
        /\ UNCHANGED <<rcp, pid>>
    BY <1>8 DEF Creating!CLNT_DESTROY
  <2>2. h \in Made /\ h.fd \in Creating!Fds
    BY <1>2 DEF Made
  <2>3. closed' = {}
    <3>1. CASE h.closeit
      <4>1. fds[h.fd] = "lib"
        BY <1>2, <2>2, <3>1 DEF HandleOwns
      <4> QED BY <2>1, <4>1
    <3>2. CASE ~h.closeit
      BY <2>1, <3>2 DEF Creating!closing
    <3> QED BY <3>1, <3>2
  <2>4. /\ fds' \in [Creating!Fds -> {"free", "app", "sync", "lib"}] /\ handles' \subseteq Made
        /\ HandleOwns'
    BY <1>1, <1>2, <1>5, <2>1, Destroyed
  <2>5. HandleTypes'
    BY <1>1, <1>2, <2>1, <2>3, <2>4 DEF HandleTypes, Creating!Fds
  <2>6. KeptHandle'
    BY <1>2, <2>1, KeptStays
  <2> QED BY <1>3, <1>4, <2>4, <2>5, <2>6 DEF HandlesInv
<1> QED BY <1>6, <1>7, <1>8

(* A transport is tried: the descriptor it opens was free, and is closed   *)
(* again unless a handle is made.                                          *)
LEMMA TriedTransport ==
  ASSUME Creating!ClntGenericAssumption, HandleTypes, NEW n, ~Creating!odd(n),
         NEW o \in Creating!tli_outcomes(n), Creating!clnt_tli_create(n, o)
  PROVE  /\ closed' = {}
         /\ \/ /\ \E f \in Creating!Fds :
                    /\ fds[f] = "free" /\ fds' = [fds EXCEPT ![f] = "lib"]
                    /\ gen_op' = [gen_op EXCEPT !.pc = "made", !.i = @ + 1,
                         !.h = [id |-> gen_calls, fd |-> f, closeit |-> TRUE, host |-> gen_op.host,
                                vers |-> gen_op.vers, pid |-> pid]]
               /\ rpc_createerr' = rpc_createerr
            \/ /\ fds' = fds /\ rpc_createerr' \in Errors
               /\ gen_op' = [gen_op EXCEPT !.pc = "failed", !.i = @ + 1]
<1> DEFINE l == Creating!lowest(Creating!Fds)
<1>1. \/ o = [fd |-> -1, stat |-> "SYSTEMERROR"]
      \/ l /= -1 /\ o.fd = l /\ o.stat \in {"SUCCESS", "UNKNOWNHOST", "SYSTEMERROR"}
  BY DEF Creating!tli_outcomes, Creating!tli_errors
<1>2. l = -1 \/ (l \in Creating!Fds /\ fds[l] = "free")
  BY LowestFree
<1> HIDE DEF l
<1>3. fds \in [Creating!Fds -> {"free", "app", "sync", "lib"}]
  BY DEF HandleTypes
<1>4. Creating!raised(o.fd, TRUE) = o.fd /\ Creating!raised(o.fd, ~Creating!odd(n)) = o.fd
  BY DEF Creating!raised
<1>5. CASE o = [fd |-> -1, stat |-> "SYSTEMERROR"]
  <2>1. o.fd = -1 /\ o.stat = "SYSTEMERROR"
    BY <1>5
  <2>2. /\ fds' = fds /\ closed' = {} /\ rpc_createerr' = "SYSTEMERROR"
        /\ gen_op' = [gen_op EXCEPT !.pc = "failed", !.i = @ + 1]
    BY <2>1 DEF Creating!clnt_tli_create
  <2> QED BY <2>2 DEF Errors
<1>6. CASE l /= -1 /\ o.fd = l /\ o.stat = "SUCCESS"
  <2>1. o.fd \in Creating!Fds /\ fds[o.fd] = "free" /\ o.fd /= -1
    BY <1>2, <1>6
  <2>2. /\ closed' = {} /\ rpc_createerr' = rpc_createerr
        /\ fds' = [fds EXCEPT ![o.fd] = "free", ![o.fd] = "lib"]
        /\ gen_op' = [gen_op EXCEPT !.pc = "made", !.i = @ + 1,
             !.h = [id |-> gen_calls, fd |-> o.fd, closeit |-> TRUE, host |-> gen_op.host,
                    vers |-> gen_op.vers, pid |-> pid]]
    BY <1>4, <1>6, <2>1 DEF Creating!clnt_tli_create
  <2>3. fds' = [fds EXCEPT ![o.fd] = "lib"]
    BY <1>3, <2>1, <2>2
  <2> QED BY <2>1, <2>2, <2>3
<1>7. CASE l /= -1 /\ o.fd = l /\ o.stat \in {"UNKNOWNHOST", "SYSTEMERROR"}
  <2>1. o.fd \in Creating!Fds /\ fds[o.fd] = "free" /\ o.fd /= -1
    BY <1>2, <1>7
  <2>2. /\ fds' = Creating!err1(o, n) /\ closed' = {f \in {o.fd} : fds[f] \in {"app", "sync"}}
        /\ rpc_createerr' = o.stat /\ gen_op' = [gen_op EXCEPT !.pc = "failed", !.i = @ + 1]
    BY <1>7, <2>1 DEF Creating!clnt_tli_create
  <2>3. Creating!err1(o, n) = [fds EXCEPT ![o.fd] = "free", ![o.fd] = "free"]
    BY <1>4 DEF Creating!err1
  <2>4. fds' = fds
    BY <1>3, <2>1, <2>2, <2>3
  <2>5. closed' = {}
    BY <2>1, <2>2
  <2>6. rpc_createerr' \in Errors
    BY <1>7, <2>2 DEF Errors
  <2> QED BY <2>2, <2>4, <2>5, <2>6
<1> QED BY <1>1, <1>5, <1>6, <1>7

(* The operation goes on to the next transport, with a handle or without.  *)
LEMMA DoingFailed ==
  ASSUME NEW o \in Doing, NEW r, r = [o EXCEPT !.pc = "failed", !.i = @ + 1]
  PROVE  /\ r \in Doing /\ r.pc = "failed" /\ r.use = o.use /\ r.low = o.low /\ r.high = o.high
         /\ r.vers = o.vers /\ r.errs = o.errs /\ r.save = o.save
<1>1. ASSUME NEW n \in Nat, r = [o EXCEPT !.pc = "failed", !.i = n] PROVE r \in Doing
  BY <1>1 DEF Doing
<1>2. o.i + 1 \in Nat /\ r = [o EXCEPT !.pc = "failed", !.i = o.i + 1]
  BY DEF Doing
<1>3. r \in Doing
  BY <1>1, <1>2
<1> QED BY <1>3 DEF Doing

LEMMA TryTransport ==
  ASSUME Creating!ClntGenericAssumption, Creating!KnownNetids, HandlesInv, Creating!getconf
  PROVE  HandlesInv'
<1>1. /\ gen_op.pc = "getconf" /\ gen_op.i < Len(Netconf)
      /\ Creating!clnt_tp_create_timed(Netconf[gen_op.i + 1])
      /\ gen_last' = Creating!NoEnd /\ UNCHANGED <<handles, rcp, pid, server, gen_calls>>
  BY DEF Creating!getconf
<1>2. /\ HandleTypes /\ HandleOwns /\ KeptHandle /\ ErrorsKept /\ Making /\ Negotiated
      /\ gen_calls \in Nat /\ gen_op \in Doing /\ pid \in Nat
  BY DEF HandlesInv, HandleTypes
<1>3. ~Creating!odd(Netconf[gen_op.i + 1])
  <2>1. gen_op.i \in Nat /\ Len(Netconf) \in Nat
    BY <1>2 DEF Doing, Creating!ClntGenericAssumption
  <2>2. gen_op.i + 1 \in 1 .. Len(Netconf)
    BY <1>1, <2>1
  <2> QED BY <2>2 DEF Creating!KnownNetids
<1>4. Ended' /\ KeptHandle'
  BY <1>1, <1>2, NothingEnded, KeptStays
<1>5. /\ closed' = {}
      /\ \/ /\ \E f \in Creating!Fds :
                 /\ fds[f] = "free" /\ fds' = [fds EXCEPT ![f] = "lib"]
                 /\ gen_op' = [gen_op EXCEPT !.pc = "made", !.i = @ + 1,
                      !.h = [id |-> gen_calls, fd |-> f, closeit |-> TRUE, host |-> gen_op.host,
                             vers |-> gen_op.vers, pid |-> pid]]
            /\ rpc_createerr' = rpc_createerr
         \/ /\ fds' = fds /\ rpc_createerr' \in Errors
            /\ gen_op' = [gen_op EXCEPT !.pc = "failed", !.i = @ + 1]
  <2>1. CASE \E o \in Creating!tli_outcomes(Netconf[gen_op.i + 1]) :
               Creating!clnt_tli_create(Netconf[gen_op.i + 1], o)
    BY <1>2, <1>3, <2>1, TriedTransport
  <2>2. CASE /\ \E e \in Creating!FindErrors : rpc_createerr' = e
             /\ gen_op' = [gen_op EXCEPT !.pc = "failed", !.i = @ + 1] /\ fds' = fds /\ closed' = {}
    BY <2>2 DEF Creating!FindErrors, Errors
  <2> QED BY <1>1, <2>1, <2>2 DEF Creating!clnt_tp_create_timed
<1>6. CASE /\ fds' = fds /\ rpc_createerr' \in Errors
           /\ gen_op' = [gen_op EXCEPT !.pc = "failed", !.i = @ + 1]
  <2>1. /\ gen_op' \in Doing /\ gen_op'.pc = "failed" /\ gen_op'.use = gen_op.use
        /\ gen_op'.low = gen_op.low /\ gen_op'.high = gen_op.high /\ gen_op'.vers = gen_op.vers
        /\ gen_op'.errs = gen_op.errs /\ gen_op'.save = gen_op.save
    BY <1>2, <1>6, DoingFailed
  <2>2. HandleTypes'
    BY <1>1, <1>2, <1>5, <1>6, <2>1 DEF HandleTypes, Creating!Fds
  <2>3. HandleOwns'
    BY <1>1, <1>2, <1>6, <2>1, OwnsStays
  <2>4. ErrorsKept'
    BY <1>1, <1>2, <1>6, <2>1 DEF ErrorsKept, LastTelling, Telling, Creating!Unspecific
  <2>5. Making' /\ Negotiated'
    BY <1>1, <1>2, <2>1 DEF Making, Negotiated
  <2> QED BY <1>4, <2>1, <2>2, <2>3, <2>4, <2>5 DEF HandlesInv
<1>7. ASSUME NEW f \in Creating!Fds, fds[f] = "free", fds' = [fds EXCEPT ![f] = "lib"],
             gen_op' = [gen_op EXCEPT !.pc = "made", !.i = @ + 1,
               !.h = [id |-> gen_calls, fd |-> f, closeit |-> TRUE, host |-> gen_op.host,
                      vers |-> gen_op.vers, pid |-> pid]],
             rpc_createerr' = rpc_createerr
      PROVE  HandlesInv'
  <2> DEFINE h == [id |-> gen_calls, fd |-> f, closeit |-> TRUE, host |-> gen_op.host,
                   vers |-> gen_op.vers, pid |-> pid]
  <2>1. gen_calls > 0 /\ \A g \in handles : g.id < gen_calls
    BY <1>1, <1>2 DEF Making
  <2>2. h \in Made
    BY <1>2, <2>1 DEF Made, Doing
  <2>3. h.fd = f /\ h.closeit /\ h.id = gen_calls /\ h.host = gen_op.host /\ h.vers = gen_op.vers /\ h.pid = pid
    OBVIOUS
  <2>4. gen_op' = [gen_op EXCEPT !.pc = "made", !.i = @ + 1, !.h = h]
    BY <1>7
  <2> HIDE DEF h
  <2>5. /\ gen_op' \in Doing /\ gen_op'.pc = "made" /\ gen_op'.use = gen_op.use /\ gen_op'.h = h
        /\ gen_op'.host = gen_op.host
        /\ gen_op'.low = gen_op.low /\ gen_op'.high = gen_op.high /\ gen_op'.vers = gen_op.vers
    <3>1. gen_op.i + 1 \in Nat /\ gen_op' = [gen_op EXCEPT !.pc = "made", !.i = gen_op.i + 1, !.h = h]
      BY <1>2, <2>4 DEF Doing
    <3>2. gen_op' \in Doing
      BY <1>2, <2>2, <3>1 DEF Doing
    <3> QED BY <1>2, <3>1, <3>2 DEF Doing
  <2>6. \A g \in handles : g.closeit => g.fd /= f
    BY <1>2, <1>7 DEF HandleOwns
  <2>7. /\ fds' \in [Creating!Fds -> {"free", "app", "sync", "lib"}] /\ fds'[f] = "lib"
        /\ \A e \in Creating!Fds : e /= f => fds'[e] = fds[e]
    BY <1>2, <1>7 DEF HandleTypes
  <2>8. HandleTypes'
    BY <1>1, <1>2, <1>5, <2>5, <2>7 DEF HandleTypes, Creating!Fds
  <2>9. \A e \in Creating!Fds : fds'[e] = "lib" <=>
          (\E g \in handles : g.closeit /\ g.fd = e) \/ e = f
    BY <1>1, <1>2, <2>7 DEF HandleOwns
  <2>10. HandleOwns'
    BY <1>1, <1>2, <2>5, <2>3, <2>9 DEF HandleOwns, Creating!Fds
  <2>11. Making'
    BY <1>1, <2>1, <2>2, <2>5, <2>6, <2>3 DEF Making, Made, Creating!Fds
  <2>12. ErrorsKept' /\ Negotiated'
    BY <1>1, <1>2, <2>5 DEF ErrorsKept, Negotiated
  <2> QED BY <1>4, <2>8, <2>10, <2>11, <2>12 DEF HandlesInv
<1> QED BY <1>5, <1>6, <1>7

(* An operation ends.                                                      *)
LEMMA OperationEnds ==
  ASSUME gen_op' = Creating!NoOp
  PROVE  gen_op' \in Doing /\ gen_op'.pc = "idle" /\ ErrorsKept' /\ Making' /\ Negotiated'
<1>1. <<>> \in Seq(Errors)
  OBVIOUS
<1>2. gen_op' \in Doing /\ gen_op'.pc = "idle"
  BY <1>1 DEF Creating!NoOp, Doing, Names
<1> QED BY <1>2 DEF ErrorsKept, Making, Negotiated

(* A transport failed: its error is the last one, and kept if it tells.    *)
LEMMA NextTransport ==
  ASSUME HandlesInv, Creating!failed
  PROVE  HandlesInv'
<1> DEFINE e == rpc_createerr
           E == Append(gen_op.errs, e)
           s == Creating!saved(e)
<1>1. /\ gen_op.pc = "failed" /\ gen_last' = Creating!NoEnd /\ closed' = {}
      /\ gen_op' = [gen_op EXCEPT !.pc = "getconf", !.save = s, !.errs = E]
      /\ UNCHANGED <<fds, handles, rpc_createerr, rcp, pid, server, gen_calls>>
  BY DEF Creating!failed
<1>2. /\ HandleTypes /\ HandleOwns /\ KeptHandle /\ ErrorsKept /\ Making /\ Negotiated
      /\ gen_calls \in Nat /\ gen_op \in Doing
  BY DEF HandlesInv, HandleTypes
<1>3. e \in Errors /\ gen_op.errs \in Seq(Errors) /\ LastTelling(gen_op.errs, gen_op.save)
  BY <1>1, <1>2 DEF ErrorsKept, Doing
<1>4. /\ E \in Seq(Errors) /\ Len(E) = Len(gen_op.errs) + 1 /\ Len(gen_op.errs) \in Nat
      /\ E[Len(gen_op.errs) + 1] = e
      /\ \A k \in 1 .. Len(gen_op.errs) : E[k] = gen_op.errs[k]
      /\ DOMAIN E = 1 .. Len(E) /\ DOMAIN gen_op.errs = 1 .. Len(gen_op.errs)
  BY <1>3, AppendProperties, LenProperties
<1>5. s \in Errors \cup {"SUCCESS"}
  BY <1>2, <1>3 DEF Creating!saved, Doing
<1>6. LastTelling(E, s)
  <2> HIDE DEF E
  <2>1. CASE e \in Creating!Unspecific
    <3>1. Telling(E) = Telling(gen_op.errs) /\ \A k \in Telling(E) : E[k] = gen_op.errs[k]
      BY <1>4, <2>1 DEF Telling
    <3>2. s = gen_op.save
      BY <2>1 DEF Creating!saved
    <3> QED BY <1>3, <3>1, <3>2 DEF LastTelling
  <2>2. CASE e \notin Creating!Unspecific
    <3>1. Len(E) \in Telling(E) /\ \A j \in Telling(E) : j <= Len(E)
      BY <1>4, <2>2 DEF Telling
    <3>2. s = E[Len(E)]
      BY <1>4, <2>2 DEF Creating!saved
    <3> QED BY <3>1, <3>2 DEF LastTelling
  <2> QED BY <2>1, <2>2
<1> HIDE DEF E, s
<1>7. E /= <<>> /\ E[Len(E)] = e
  <2>1. Len(E) /= 0
    BY <1>4
  <2> QED BY <1>4, <2>1
<1>8. gen_op' \in Doing
  BY <1>1, <1>2, <1>4, <1>5 DEF Doing
<1>9. /\ gen_op'.pc = "getconf" /\ gen_op'.use = gen_op.use /\ gen_op'.low = gen_op.low
      /\ gen_op'.high = gen_op.high /\ gen_op'.vers = gen_op.vers /\ gen_op'.errs = E /\ gen_op'.save = s
  BY <1>1, <1>2 DEF Doing
<1>10. HandleTypes'
  BY <1>1, <1>2, <1>8 DEF HandleTypes, Creating!Fds
<1>11. HandleOwns'
  BY <1>1, <1>2, <1>9, OwnsStays
<1>12. ErrorsKept'
  BY <1>1, <1>6, <1>7, <1>9 DEF ErrorsKept
<1>13. Making' /\ Negotiated'
  BY <1>1, <1>2, <1>9 DEF Making, Negotiated
<1>14. Ended' /\ KeptHandle'
  BY <1>1, <1>2, NothingEnded, KeptStays
<1> QED BY <1>10, <1>11, <1>12, <1>13, <1>14 DEF HandlesInv

(* No transport is left: the error reported is the last telling one.       *)
LEMMA NoTransport ==
  ASSUME HandlesInv, Creating!no_more
  PROVE  HandlesInv'
<1> DEFINE s == Creating!reported
           T == Telling(gen_op.errs)
<1>1. /\ gen_op.pc = "getconf" /\ gen_op' = Creating!NoOp /\ closed' = {}
      /\ gen_last' = [use |-> gen_op.use, stat |-> s, host |-> gen_op.host, low |-> gen_op.low,
           high |-> gen_op.high, vers |-> gen_op.vers, h |-> Creating!NoHandle, errs |-> gen_op.errs]
      /\ UNCHANGED <<fds, handles, rcp, pid, server, gen_calls>>
  BY DEF Creating!no_more, Creating!end
<1>2. /\ HandleTypes /\ HandleOwns /\ KeptHandle /\ ErrorsKept
      /\ gen_calls \in Nat /\ gen_op \in Doing
  BY DEF HandlesInv, HandleTypes
<1>3. gen_op.errs \in Seq(Errors) /\ gen_op.save \in Errors \cup {"SUCCESS"}
  BY <1>2 DEF Doing
<1>4. /\ Len(gen_op.errs) \in Nat /\ DOMAIN gen_op.errs = 1 .. Len(gen_op.errs)
      /\ \A k \in 1 .. Len(gen_op.errs) : gen_op.errs[k] \in Errors
      /\ gen_op.errs /= <<>> => Len(gen_op.errs) \in 1 .. Len(gen_op.errs)
  BY <1>3, LenProperties, EmptySeq
<1>5. rpc_createerr = IF gen_op.errs = <<>> THEN "SUCCESS" ELSE gen_op.errs[Len(gen_op.errs)]
  BY <1>1, <1>2 DEF ErrorsKept
<1>6. rpc_createerr \in Errors \cup {"SUCCESS"}
  BY <1>4, <1>5
<1>7. s \in Errors \cup {"UNKNOWNPROTO"}
  BY <1>3, <1>6 DEF Creating!reported
<1>8. T /= {} => s = gen_op.errs[CHOOSE k \in T : \A j \in T : j <= k]
  <2> SUFFICES ASSUME T /= {} PROVE s = gen_op.errs[CHOOSE k \in T : \A j \in T : j <= k]
    OBVIOUS
  <2>1. T \subseteq 1 .. Len(gen_op.errs) /\ \A k \in T : gen_op.errs[k] \notin Creating!Unspecific
    BY <1>4 DEF Telling
  <2>2. PICK k \in T : gen_op.save = gen_op.errs[k] /\ \A j \in T : j <= k
    BY <1>1, <1>2 DEF ErrorsKept, LastTelling
  <2>3. (CHOOSE i \in T : \A j \in T : j <= i) = k
    <3>1. \A i \in T : (\A j \in T : j <= i) => i = k
      BY <1>4, <2>1, <2>2
    <3> QED BY <2>2, <3>1
  <2>4. gen_op.errs /= <<>>
    BY <1>4, <2>1
  <2>5. s = gen_op.errs[k]
    <3>1. CASE Len(gen_op.errs) \in T
      <4>1. k = Len(gen_op.errs)
        BY <1>4, <2>1, <2>2, <3>1
      <4>2. rpc_createerr = gen_op.errs[k] /\ rpc_createerr \notin Creating!Unspecific /\ rpc_createerr \in Errors
        BY <1>4, <1>5, <2>1, <2>4, <4>1
      <4> QED BY <4>2 DEF Creating!reported, Errors
    <3>2. CASE Len(gen_op.errs) \notin T
      <4>1. rpc_createerr \in Creating!Unspecific /\ rpc_createerr \in Errors
        BY <1>4, <1>5, <2>4, <3>2 DEF Telling
      <4>2. gen_op.save \in Errors
        BY <1>4, <2>1, <2>2
      <4> QED BY <2>2, <4>1, <4>2 DEF Creating!reported, Errors
    <3> QED BY <3>1, <3>2
  <2> QED BY <2>3, <2>5
<1>9. gen_last'.errs = gen_op.errs /\ gen_last'.stat = s /\ gen_last'.h = Creating!NoHandle
  BY <1>1
<1> HIDE DEF s
<1>10. Creating!SpecificError'
  BY <1>8, <1>9 DEF Creating!SpecificError, Telling, Creating!Unspecific
<1>11. Ended'
  BY <1>7, <1>9, <1>10 DEF Ended, Creating!HighestVersion, Creating!CallsOwn, Errors
<1>12. gen_op' \in Doing /\ gen_op'.pc = "idle" /\ ErrorsKept' /\ Making' /\ Negotiated'
  BY <1>1, OperationEnds
<1>13. HandleTypes'
  BY <1>1, <1>2, <1>12 DEF HandleTypes, Creating!Fds
<1>14. HandleOwns'
  BY <1>1, <1>2, <1>12, OwnsStays
<1>15. KeptHandle'
  BY <1>1, <1>2, KeptStays
<1> QED BY <1>11, <1>12, <1>13, <1>14, <1>15 DEF HandlesInv

(* A handle was made: it is the caller's, or the library goes on with it.  *)
LEMMA HandleCreated ==
  ASSUME HandlesInv, Creating!created
  PROVE  HandlesInv'
<1>1. /\ gen_op.pc = "made" /\ handles' = handles \cup {gen_op.h} /\ closed' = {}
      /\ UNCHANGED <<fds, rpc_createerr, pid, server, gen_calls>>
  BY DEF Creating!created
<1>2. /\ HandleTypes /\ HandleOwns /\ KeptHandle /\ Making /\ Negotiated
      /\ gen_calls \in Nat /\ gen_op \in Doing
  BY DEF HandlesInv, HandleTypes
<1>3. /\ gen_op.h \in Made /\ gen_op.h.closeit /\ gen_op.h.id = gen_calls /\ gen_calls > 0
      /\ gen_op.h.host = gen_op.host /\ gen_op.h.vers = gen_op.vers /\ gen_op.h.pid = pid
      /\ \A h \in handles : h.id < gen_calls /\ (h.closeit => h.fd /= gen_op.h.fd)
  BY <1>1, <1>2 DEF Making
<1>4. handles' \subseteq Made
  BY <1>1, <1>2, <1>3 DEF HandleTypes
<1>5. gen_op'.pc /= "made" => HandleOwns'
  <2> SUFFICES ASSUME gen_op'.pc /= "made" PROVE HandleOwns'
    OBVIOUS
  <2>1. \A f \in Creating!Fds : fds'[f] = "lib" <=> \E h \in handles' : h.closeit /\ h.fd = f
    BY <1>1, <1>2, <1>3 DEF HandleOwns
  <2>2. \A g, h \in handles' : g.closeit /\ h.closeit /\ g.fd = h.fd => g = h
    BY <1>1, <1>2, <1>3 DEF HandleOwns
  <2>3. \A g, h \in handles' : g.id = h.id => g = h
    BY <1>1, <1>2, <1>3 DEF HandleOwns
  <2>4. \A h \in handles' : h.id <= gen_calls'
    BY <1>1, <1>2, <1>3 DEF HandleOwns
  <2> QED BY <2>1, <2>2, <2>3, <2>4 DEF HandleOwns, Creating!Fds
<1>6. CASE /\ gen_op.use = "create" /\ Creating!end("create", "SUCCESS", gen_op.h)
           /\ gen_op' = Creating!NoOp /\ rcp' = rcp
  <2>1. gen_op' \in Doing /\ gen_op'.pc = "idle" /\ ErrorsKept' /\ Making' /\ Negotiated'
    BY <1>6, OperationEnds
  <2>2. HandleTypes'
    BY <1>1, <1>2, <1>4, <1>6, <2>1 DEF HandleTypes, Creating!Fds
  <2>3. KeptHandle'
    BY <1>1, <1>2, <1>6, KeptStays
  <2>4. gen_last'.use = "create" /\ gen_last'.h = gen_op.h
    BY <1>6 DEF Creating!end
  <2>5. Ended'
    BY <1>3, <2>4, NotMade
      DEF Ended, Creating!SpecificError, Creating!HighestVersion, Creating!CallsOwn, Creating!NoHandle
  <2> QED BY <1>5, <2>1, <2>2, <2>3, <2>5 DEF HandlesInv
<1>7. CASE /\ gen_op.use = "vers" /\ gen_last' = Creating!NoEnd
           /\ gen_op' = [gen_op EXCEPT !.pc = "negotiate"] /\ rcp' = rcp
  <2>1. gen_op' \in Doing
    BY <1>2, <1>7 DEF Doing
  <2>2. /\ gen_op'.pc = "negotiate" /\ gen_op'.use = "vers" /\ gen_op'.h = gen_op.h
        /\ gen_op'.low = gen_op.low /\ gen_op'.high = gen_op.high /\ gen_op'.vers = gen_op.vers
    BY <1>2, <1>7 DEF Doing
  <2>3. HandleTypes'
    BY <1>1, <1>2, <1>4, <1>7, <2>1 DEF HandleTypes, Creating!Fds
  <2>4. KeptHandle'
    BY <1>1, <1>2, <1>7, KeptStays
  <2>5. gen_op.h.id /= rcp.client
    BY <1>2, <1>3 DEF KeptHandle, HandleTypes
  <2>6. Making'
    BY <1>1, <1>7, <2>2, <2>5 DEF Making
  <2>7. ErrorsKept'
    BY <2>2 DEF ErrorsKept
  <2>8. Negotiated'
    BY <1>1, <1>2, <1>7, <2>2 DEF Negotiated
  <2>9. Ended'
    BY <1>7, NothingEnded
  <2> QED BY <1>5, <2>2, <2>3, <2>4, <2>6, <2>7, <2>8, <2>9 DEF HandlesInv
<1>8. CASE /\ gen_op.use = "rpc_call" /\ gen_last' = Creating!NoEnd
           /\ gen_op' = [gen_op EXCEPT !.pc = "call"]
           /\ rcp' = [valid |-> gen_op.host \notin LongHosts, client |-> gen_op.h.id, pid |-> pid,
                      vers |-> gen_op.vers,
                      host |-> IF gen_op.host \in LongHosts THEN rcp.host ELSE gen_op.host]
  <2>1. gen_op' \in Doing
    BY <1>2, <1>8 DEF Doing
  <2>2. /\ gen_op'.pc = "call" /\ gen_op'.use = "rpc_call" /\ gen_op'.h = gen_op.h
        /\ gen_op'.host = gen_op.host /\ gen_op'.vers = gen_op.vers
    BY <1>2, <1>8 DEF Doing
  <2>3. rcp' \in [valid : BOOLEAN, client : Nat, pid : Nat, vers : Nat, host : Names]
    <3>1. gen_op.host \in Names /\ rcp.host \in Names /\ gen_op.vers \in Nat /\ pid \in Nat
      BY <1>2 DEF HandleTypes, Doing
    <3> QED BY <1>2, <1>3, <1>8, <3>1
  <2>4. HandleTypes'
    BY <1>1, <1>2, <1>4, <2>1, <2>3 DEF HandleTypes, Creating!Fds
  <2>5. KeptHandle'
    <3>1. /\ rcp'.client = gen_op.h.id /\ rcp'.pid = pid /\ rcp'.vers = gen_op.vers
          /\ rcp'.valid => rcp'.host = gen_op.host
      BY <1>8
    <3>2. gen_op.h \in handles'
      BY <1>1
    <3> QED BY <1>3, <3>1, <3>2 DEF KeptHandle
  <2>6. Making'
    BY <1>1, <1>3, <2>2 DEF Making, Made, Creating!Fds
  <2>7. ErrorsKept' /\ Negotiated'
    BY <2>2 DEF ErrorsKept, Negotiated
  <2>8. Ended'
    BY <1>8, NothingEnded
  <2> QED BY <1>5, <2>2, <2>4, <2>5, <2>6, <2>7, <2>8 DEF HandlesInv
<1> QED BY <1>6, <1>7, <1>8 DEF Creating!created

(* A version is agreed on, or a lower one tried.                           *)
LEMMA VersionAgreed ==
  ASSUME HandlesInv, Creating!agreed
  PROVE  HandlesInv'
<1>1. /\ gen_op.pc = "negotiate" /\ gen_op.vers \in server /\ gen_op' = Creating!NoOp /\ closed' = {}
      /\ gen_last' = [use |-> "vers", stat |-> "SUCCESS", host |-> gen_op.host, low |-> gen_op.low,
           high |-> gen_op.high, vers |-> gen_op.vers, h |-> gen_op.h, errs |-> gen_op.errs]
      /\ UNCHANGED <<fds, handles, rpc_createerr, rcp, pid, server, gen_calls>>
  BY DEF Creating!agreed, Creating!end
<1>2. /\ HandleTypes /\ HandleOwns /\ KeptHandle /\ Making /\ Negotiated
      /\ gen_calls \in Nat /\ gen_op \in Doing
  BY DEF HandlesInv, HandleTypes
<1>3. gen_op' \in Doing /\ gen_op'.pc = "idle" /\ ErrorsKept' /\ Making' /\ Negotiated'
  BY <1>1, OperationEnds
<1>4. HandleTypes'
  BY <1>1, <1>2, <1>3 DEF HandleTypes, Creating!Fds
<1>5. HandleOwns'
  BY <1>1, <1>2, <1>3, OwnsStays
<1>6. KeptHandle'
  BY <1>1, <1>2, KeptStays
<1>7. /\ gen_op.low <= gen_op.vers /\ gen_op.vers <= gen_op.high
      /\ gen_op.low \in Nat /\ gen_op.high \in Nat /\ gen_op.vers \in Nat
      /\ \A v \in server : v <= gen_op.high => v <= gen_op.vers
  BY <1>1, <1>2 DEF Making, Negotiated, Doing
<1>8. /\ gen_last'.use = "vers" /\ gen_last'.stat = "SUCCESS" /\ gen_last'.vers = gen_op.vers
      /\ gen_last'.low = gen_op.low /\ gen_last'.high = gen_op.high
  BY <1>1
<1>9. Ended'
  BY <1>1, <1>7, <1>8 DEF Ended, Creating!SpecificError, Creating!HighestVersion, Creating!CallsOwn
<1> QED BY <1>3, <1>4, <1>5, <1>6, <1>9 DEF HandlesInv

(* The negotiation ends without a version: its handle is destroyed.        *)
LEMMA NegotiationEnds ==
  ASSUME HandlesInv, gen_op.pc = "negotiate", NEW s, s \in {"PROGVERSMISMATCH", "TIMEDOUT"},
         s = "PROGVERSMISMATCH" => ~\E v \in server : v >= gen_op.low /\ v <= gen_op.high,
         Creating!give_up(s), closed' = {}, UNCHANGED <<rcp, pid, server, gen_calls>>
  PROVE  HandlesInv'
<1>1. /\ fds' = Creating!closing(gen_op.h) /\ handles' = handles \ {gen_op.h} /\ gen_op' = Creating!NoOp
      /\ gen_last' = [use |-> "vers", stat |-> s, host |-> gen_op.host, low |-> gen_op.low,
           high |-> gen_op.high, vers |-> gen_op.vers, h |-> Creating!NoHandle, errs |-> gen_op.errs]
  BY DEF Creating!give_up, Creating!end
<1>2. /\ HandleTypes /\ HandleOwns /\ KeptHandle /\ gen_calls \in Nat
      /\ gen_op.h \in handles /\ gen_op.h.id /= rcp.client
  BY DEF HandlesInv, HandleTypes, Making
<1>3. gen_op' \in Doing /\ gen_op'.pc = "idle" /\ ErrorsKept' /\ Making' /\ Negotiated'
  BY <1>1, OperationEnds
<1>4. /\ fds' \in [Creating!Fds -> {"free", "app", "sync", "lib"}] /\ handles' \subseteq Made
      /\ HandleOwns'
  BY <1>1, <1>2, <1>3, Destroyed
<1>5. HandleTypes'
  BY <1>2, <1>3, <1>4 DEF HandleTypes, Creating!Fds
<1>6. KeptHandle'
  BY <1>1, <1>2, KeptStays
<1>7. /\ gen_last'.use = "vers" /\ gen_last'.stat = s
      /\ gen_last'.low = gen_op.low /\ gen_last'.high = gen_op.high
  BY <1>1
<1>8. Ended'
  BY <1>7 DEF Ended, Creating!SpecificError, Creating!HighestVersion, Creating!CallsOwn
<1> QED BY <1>3, <1>4, <1>5, <1>6, <1>8 DEF HandlesInv

(* The versions the server has lie between its lowest and its highest.     *)
LEMMA VersionBounds ==
  ASSUME Creating!ClntGenericAssumption, HandleTypes
  PROVE  /\ server \subseteq Nat
         /\ Creating!lowest_of(server) \in server /\ Creating!highest_of(server) \in server
         /\ \A v \in server : Creating!lowest_of(server) <= v /\ v <= Creating!highest_of(server)
<1>1. server \subseteq Nat /\ \E m \in server : \A v \in server : v <= m
  BY ServerHas
<1>2. PICK l \in server : \A v \in server : ~(<<v, l>> \in OpToRel(<, Nat))
  BY <1>1, NatLessThanWellFounded, WFMin
<1>3. \A v \in server : l <= v
  <2>1. \A v \in server : v \in Nat /\ l \in Nat /\ ~(v < l)
    BY <1>1, <1>2 DEF OpToRel
  <2> QED BY <2>1
<1>4. /\ Creating!lowest_of(server) \in server
      /\ \A v \in server : Creating!lowest_of(server) <= v
  BY <1>3 DEF Creating!lowest_of
<1>5. /\ Creating!highest_of(server) \in server
      /\ \A v \in server : v <= Creating!highest_of(server)
  BY <1>1 DEF Creating!highest_of
<1> QED BY <1>1, <1>4, <1>5

(* The server has another range of versions: the highest common one below  *)
(* the last is tried, and none was passed over.                            *)
LEMMA VersionMismatch ==
  ASSUME Creating!ClntGenericAssumption, HandlesInv, Creating!mismatch
  PROVE  HandlesInv'
<1> DEFINE lo == Creating!next_low
           hi == Creating!next_high
<1>1. /\ gen_op.pc = "negotiate" /\ gen_op.vers \notin server /\ closed' = {}
      /\ UNCHANGED <<rcp, pid, server, gen_calls>>
  BY DEF Creating!mismatch
<1>2. /\ HandleTypes /\ HandleOwns /\ KeptHandle /\ Making /\ Negotiated
      /\ gen_calls \in Nat /\ gen_op \in Doing
  BY DEF HandlesInv, HandleTypes
<1>3. /\ gen_op.low <= gen_op.vers /\ gen_op.vers <= gen_op.high
      /\ gen_op.low \in Nat /\ gen_op.high \in Nat /\ gen_op.vers \in Nat
      /\ \A v \in server : v <= gen_op.high => v <= gen_op.vers
  BY <1>1, <1>2 DEF Making, Negotiated, Doing
<1>4. /\ \A v \in server : v \in Nat /\ v /= gen_op.vers
      /\ Creating!lowest_of(server) \in Nat /\ Creating!highest_of(server) \in Nat
      /\ Creating!highest_of(server) /= gen_op.vers
      /\ \A v \in server : Creating!lowest_of(server) <= v /\ v <= Creating!highest_of(server)
  BY <1>1, <1>2, VersionBounds
<1>5. /\ lo \in Nat /\ gen_op.low <= lo /\ hi < gen_op.vers /\ hi \in Int
      /\ \A v \in server : v <= gen_op.high => v <= hi
      /\ \A v \in server : gen_op.low <= v => lo <= v
  BY <1>3, <1>4 DEF Creating!next_low, Creating!next_high
<1> HIDE DEF lo, hi
<1>6. CASE /\ gen_op.vers > gen_op.low /\ lo <= hi
           /\ gen_op' = [gen_op EXCEPT !.vers = hi, !.low = lo] /\ gen_last' = Creating!NoEnd
           /\ UNCHANGED <<fds, handles, rpc_createerr>>
  <2>1. hi \in Nat
    BY <1>5, <1>6
  <2>2. gen_op' \in Doing
    BY <1>2, <1>5, <1>6, <2>1 DEF Doing
  <2>3. /\ gen_op'.pc = "negotiate" /\ gen_op'.use = gen_op.use /\ gen_op'.h = gen_op.h
        /\ gen_op'.low = lo /\ gen_op'.high = gen_op.high /\ gen_op'.vers = hi
    BY <1>1, <1>2, <1>6 DEF Doing
  <2>4. HandleTypes'
    BY <1>1, <1>2, <1>6, <2>2 DEF HandleTypes, Creating!Fds
  <2>5. HandleOwns'
    BY <1>1, <1>2, <1>6, <2>3, OwnsStays
  <2>6. KeptHandle'
    BY <1>1, <1>2, <1>6, KeptStays
  <2>7. ErrorsKept'
    BY <2>3 DEF ErrorsKept
  <2>8. Making'
    BY <1>1, <1>2, <1>6, <2>3 DEF Making
  <2>9. Negotiated'
    BY <1>1, <1>3, <1>5, <1>6, <2>1, <2>3 DEF Negotiated
  <2>10. Ended'
    BY <1>6, NothingEnded
  <2> QED BY <2>4, <2>5, <2>6, <2>7, <2>8, <2>9, <2>10 DEF HandlesInv
<1>7. CASE ~(gen_op.vers > gen_op.low /\ lo <= hi) /\ Creating!give_up("PROGVERSMISMATCH")
  <2>1. ASSUME NEW v \in server, v >= gen_op.low, v <= gen_op.high
        PROVE  FALSE
    BY <1>3, <1>4, <1>5, <1>7, <2>1
  <2> QED BY <1>1, <1>7, <2>1, NegotiationEnds
<1> QED BY <1>6, <1>7 DEF Creating!mismatch, lo, hi

LEMMA NoAnswer ==
  ASSUME HandlesInv, Creating!no_answer
  PROVE  HandlesInv'
<1>1. /\ gen_op.pc = "negotiate" /\ closed' = {} /\ Creating!give_up("TIMEDOUT")
      /\ UNCHANGED <<rcp, pid, server, gen_calls>>
  BY DEF Creating!no_answer
<1>2. "TIMEDOUT" \in {"PROGVERSMISMATCH", "TIMEDOUT"} /\ "TIMEDOUT" /= "PROGVERSMISMATCH"
  OBVIOUS
<1> QED BY <1>1, <1>2, NegotiationEnds

(* A call of rpc_call ends; its handle is kept only if it succeeded.       *)
LEMMA CallEnds ==
  ASSUME HandlesInv, Creating!called
  PROVE  HandlesInv'
<1>1. PICK s : /\ gen_op.pc = "call" /\ Creating!end("rpc_call", s, gen_op.h)
               /\ rcp' = [rcp EXCEPT !.valid = (@ /\ s = "SUCCESS")]
  BY DEF Creating!called
<1>2. /\ gen_op' = Creating!NoOp /\ closed' = {}
      /\ UNCHANGED <<fds, handles, rpc_createerr, pid, server, gen_calls>>
  BY DEF Creating!called
<1>3. /\ HandleTypes /\ HandleOwns /\ KeptHandle /\ Making
      /\ gen_calls \in Nat /\ gen_op \in Doing
  BY DEF HandlesInv, HandleTypes
<1>4. gen_op' \in Doing /\ gen_op'.pc = "idle" /\ ErrorsKept' /\ Making' /\ Negotiated'
  BY <1>2, OperationEnds
<1>5. rcp \in [valid : BOOLEAN, client : Nat, pid : Nat, vers : Nat, host : Names]
  BY <1>3 DEF HandleTypes
<1>6. rcp' = [rcp EXCEPT !.valid = (rcp.valid /\ s = "SUCCESS")]
  BY <1>1
<1>7. /\ rcp' \in [valid : BOOLEAN, client : Nat, pid : Nat, vers : Nat, host : Names]
      /\ rcp'.client = rcp.client /\ rcp'.pid = rcp.pid /\ rcp'.vers = rcp.vers /\ rcp'.host = rcp.host
      /\ rcp'.valid => rcp.valid
  <2> DEFINE b == rcp.valid /\ s = "SUCCESS"
  <2>1. b \in BOOLEAN /\ (b => rcp.valid)
    OBVIOUS
  <2>2. rcp' = [rcp EXCEPT !.valid = b]
    BY <1>6
  <2> HIDE DEF b
  <2> QED BY <1>5, <2>1, <2>2
<1>8. HandleTypes'
  BY <1>2, <1>3, <1>4, <1>7 DEF HandleTypes, Creating!Fds
<1>9. HandleOwns'
  BY <1>1, <1>2, <1>3, <1>4, OwnsStays
<1>10. KeptHandle'
  BY <1>2, <1>3, <1>7 DEF KeptHandle
<1>11. /\ gen_last'.use = "rpc_call" /\ gen_last'.h = gen_op.h
       /\ gen_last'.host = gen_op.host /\ gen_last'.vers = gen_op.vers
  BY <1>1 DEF Creating!end
<1>12. /\ gen_op.h \in Made /\ gen_op.h.host = gen_op.host /\ gen_op.h.vers = gen_op.vers
       /\ gen_op.h.pid = pid
  BY <1>1, <1>3 DEF Making
<1>13. Ended'
  BY <1>2, <1>11, <1>12, NotMade
    DEF Ended, Creating!SpecificError, Creating!HighestVersion, Creating!CallsOwn
<1> QED BY <1>4, <1>8, <1>9, <1>10, <1>13 DEF HandlesInv

(* The application has a handle on a descriptor of its own.                *)
LEMMA AppHandles ==
  ASSUME Creating!ClntGenericAssumption, HandlesInv, Creating!app_tli_create
  PROVE  HandlesInv'
<1> DEFINE f0 == Creating!lowest(Creating!Fds)
           h0 == [Creating!NoHandle EXCEPT !.id = gen_calls + 1, !.fd = f0, !.pid = pid]
<1>1. /\ gen_op.pc = "idle" /\ gen_calls' = gen_calls + 1 /\ f0 /= -1
      /\ gen_last' = Creating!NoEnd /\ closed' = {} /\ fds' = [fds EXCEPT ![f0] = "app"]
      /\ handles' = handles \cup {h0} \/ handles' = handles
      /\ UNCHANGED <<gen_op, rcp, pid, server>>
  BY DEF Creating!app_tli_create, Creating!idle
<1>2. f0 \in Creating!Fds /\ fds[f0] = "free"
  BY <1>1, LowestFree
<1>3. /\ HandleTypes /\ HandleOwns /\ KeptHandle /\ Making
      /\ gen_calls \in Nat /\ pid \in Nat /\ gen_op \in Doing /\ handles \subseteq Made
  BY DEF HandlesInv, HandleTypes
<1>4. h0.id = gen_calls + 1 /\ h0.closeit = FALSE /\ h0.fd = f0
  BY DEF Creating!NoHandle
<1>5. h0 \in Made
  <2>1. gen_calls + 1 \in Nat \ {0}
    BY <1>3
  <2> HIDE DEF f0
  <2> QED BY <1>2, <1>3, <2>1 DEF Made, Names, Creating!NoHandle
<1> HIDE DEF f0, h0
<1>6. /\ fds' \in [Creating!Fds -> {"free", "app", "sync", "lib"}]
      /\ \A f \in Creating!Fds : fds'[f] = "lib" <=> fds[f] = "lib"
  BY <1>1, <1>2, <1>3 DEF HandleTypes
<1>7. \A g, h \in handles' : g.id = h.id => g = h
  <2>1. \A h \in handles : h.id < gen_calls + 1
    BY <1>3 DEF HandleOwns, Made
  <2> QED BY <1>1, <1>3, <1>4, <2>1 DEF HandleOwns
<1>8. \A h \in handles' : h.id <= gen_calls'
  <2>1. \A h \in handles : h.id <= gen_calls + 1
    BY <1>3 DEF HandleOwns, Made
  <2> QED BY <1>1, <1>3, <1>4, <2>1
<1>9. \A g, h \in handles' : g.closeit /\ h.closeit /\ g.fd = h.fd => g = h
  BY <1>1, <1>3, <1>4 DEF HandleOwns
<1>10. \A f \in Creating!Fds : fds'[f] = "lib" <=> \E h \in handles' : h.closeit /\ h.fd = f
  BY <1>1, <1>3, <1>4, <1>6 DEF HandleOwns
<1>11. HandleOwns'
  BY <1>1, <1>7, <1>8, <1>9, <1>10 DEF HandleOwns, Creating!Fds
<1>12. handles' \subseteq Made
  BY <1>1, <1>3, <1>5
<1>13. HandleTypes'
  BY <1>1, <1>3, <1>6, <1>12 DEF HandleTypes, Creating!Fds
<1>14. KeptHandle'
  BY <1>1, <1>3, KeptStays
<1>15. ErrorsKept' /\ Making' /\ Negotiated'
  BY <1>1 DEF ErrorsKept, Making, Negotiated
<1>16. Ended'
  BY <1>1, NothingEnded
<1> QED BY <1>11, <1>13, <1>14, <1>15, <1>16 DEF HandlesInv

LEMMA HandlesInit ==
  ASSUME Creating!ClntGenericAssumption, Creating!Init
  PROVE  HandlesInv
<1>1. /\ fds = [f \in Creating!Fds |-> IF f = 0 THEN Stdin ELSE IF f < MinFd THEN "app" ELSE "free"]
      /\ handles = {} /\ gen_op = Creating!NoOp /\ rcp = Creating!NoRcp /\ pid = 1
      /\ server \in Supported /\ closed = {} /\ gen_last = Creating!NoEnd /\ gen_calls = 0
  BY DEF Creating!Init
<1>2. /\ fds \in [Creating!Fds -> {"free", "app", "sync", "lib"}]
      /\ \A f \in Creating!Fds : fds[f] /= "lib"
  BY <1>1 DEF Creating!ClntGenericAssumption
<1>3. <<>> \in Seq(Errors)
  OBVIOUS
<1>4. gen_op \in Doing /\ gen_op.pc = "idle"
  BY <1>1, <1>3 DEF Creating!NoOp, Doing, Names
<1>5. /\ rcp \in [valid : BOOLEAN, client : Nat, pid : Nat, vers : Nat, host : Names]
      /\ rcp.client = 0 /\ rcp.valid = FALSE
  BY <1>1 DEF Creating!NoRcp, Names
<1>6. HandleTypes
  BY <1>1, <1>2, <1>4, <1>5 DEF HandleTypes
<1>7. HandleOwns
  BY <1>1, <1>2, <1>4 DEF HandleOwns
<1>8. ErrorsKept /\ Making /\ Negotiated /\ KeptHandle
  BY <1>4, <1>5 DEF ErrorsKept, Making, Negotiated, KeptHandle
<1>9. gen_last.use = "none"
  BY <1>1 DEF Creating!NoEnd
<1>10. Ended
  BY <1>9 DEF Ended, Creating!SpecificError, Creating!HighestVersion, Creating!CallsOwn
<1> QED BY <1>6, <1>7, <1>8, <1>10 DEF HandlesInv

(* The handles of one thread (clnt_generic.c, clnt_simple.c), for any      *)
(* transports, hosts, versions and faults and any number of creations and  *)
(* forks: the descriptors the library opened are those of the handles that *)
(* close them, one each, and it closes no other; the error of a failed     *)
(* creation is the last telling one; a negotiated version is the highest   *)
(* common one; and rpc_call uses a handle of this process.                 *)
THEOREM HandlesOwned == Creating!Spec => []HandlesSound
<1>1. Creating!ClntGenericAssumption /\ Creating!KnownNetids
  BY ClientAssumption
<1>2. Creating!Init => HandlesInv
  BY <1>1, HandlesInit
<1>3. HandlesInv /\ [Creating!Next]_Creating!vars => HandlesInv'
  <2> SUFFICES ASSUME HandlesInv, [Creating!Next]_Creating!vars PROVE HandlesInv'
    OBVIOUS
  <2>1. CASE Creating!Begin
    <3>1. PICK host \in Hosts :
            \/ \E v \in Versions : Creating!clnt_create(host, v) \/ Creating!rpc_call(host, v)
            \/ \E low, high \in Versions : Creating!clnt_create_vers(host, low, high)
      BY <2>1 DEF Creating!Begin
    <3>2. ASSUME NEW v \in Versions, Creating!clnt_create(host, v) PROVE HandlesInv'
      BY <1>1, <3>2, CreateHandles
    <3>3. ASSUME NEW v \in Versions, Creating!rpc_call(host, v) PROVE HandlesInv'
      BY <1>1, <3>3, CallHandles
    <3>4. ASSUME NEW low \in Versions, NEW high \in Versions, Creating!clnt_create_vers(host, low, high)
          PROVE  HandlesInv'
      BY <1>1, <3>4, CreateHandles
    <3> QED BY <3>1, <3>2, <3>3, <3>4
  <2>2. CASE Creating!Go
    <3>1. CASE Creating!getconf
      BY <1>1, <3>1, TryTransport
    <3>2. CASE Creating!failed
      BY <3>2, NextTransport
    <3>3. CASE Creating!no_more
      BY <3>3, NoTransport
    <3>4. CASE Creating!created
      BY <3>4, HandleCreated
    <3>5. CASE Creating!agreed
      BY <3>5, VersionAgreed
    <3>6. CASE Creating!mismatch
      BY <1>1, <3>6, VersionMismatch
    <3>7. CASE Creating!called
      BY <3>7, CallEnds
    <3> QED BY <2>2, <3>1, <3>2, <3>3, <3>4, <3>5, <3>6, <3>7 DEF Creating!Go
  <2>3. CASE Creating!no_answer
    BY <2>3, NoAnswer
  <2>4. CASE Creating!App
    <3>1. CASE Creating!app_tli_create
      BY <1>1, <3>1, AppHandles
    <3>2. CASE ~Creating!app_tli_create
      BY <2>4, <3>2, DestroyHandles DEF Creating!App
    <3> QED BY <3>1, <3>2
  <2>5. CASE UNCHANGED Creating!vars
    <3>1. UNCHANGED <<fds, handles, rpc_createerr, gen_op, rcp, pid, server, closed, gen_last, gen_calls>>
      BY <2>5 DEF Creating!vars
    <3> QED BY <3>1
      DEF HandlesInv, HandleTypes, HandleOwns, ErrorsKept, Making, Negotiated, KeptHandle, Ended,
          Creating!Fds, Creating!SpecificError, Creating!HighestVersion, Creating!CallsOwn
  <2> QED BY <2>1, <2>2, <2>3, <2>4, <2>5 DEF Creating!Next
<1>4. HandlesInv => HandlesSound
  <2> SUFFICES ASSUME HandlesInv PROVE HandlesSound
    OBVIOUS
  <2>1. HandleTypes /\ HandleOwns /\ Ended
    BY DEF HandlesInv
  <2>2. \A h \in handles : h.fd \in Creating!Fds
    BY <2>1 DEF HandleTypes, Made
  <2>3. Creating!NoLeak
    BY <2>1, <2>2 DEF HandleOwns, Creating!NoLeak, Creating!idle
  <2> QED BY <2>1, <2>3 DEF HandleTypes, Ended, HandlesSound, Creating!ClosesOwn
<1> QED BY <1>2, <1>3, <1>4, PTL DEF Creating!Spec
=============================================================================
