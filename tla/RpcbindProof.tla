----------------------------- MODULE RpcbindProof ----------------------------
(***************************************************************************)
(* Proofs about rpcbind.  The calls it forwards: the table of pending      *)
(* calls for any number of slots, transaction ids, requests and faults,    *)
(* and, as long as the transaction ids have not gone round, that an answer *)
(* reaches the caller it is for.  Its registrations: one address for a     *)
(* program, version and transport, both protocols agree on it, only its    *)
(* owner removes it, and a warm start has what was written.                *)
(***************************************************************************)
EXTENDS RpcbForward, FiniteSetTheorems, SequenceTheorems, WellFoundedInduction, TLAPS

(* How many xids a slot can have, zero and the last one, which next_xid    *)
(* skips, included.                                                        *)
Rounds == XIDS \div NFORWARD

(* lastxid belongs to the slot 0 and is zero only before the first call;   *)
(* the xid in a slot is lastxid at some time, plus the slot.               *)
XidsFormed ==
  /\ lastxid = 0 => Active(FINFO) = {}
  /\ lastxid /= 0 => \E k \in 1 .. Rounds - 1 : lastxid = k * NFORWARD
  /\ \A i \in Active(FINFO) : \E k \in 1 .. Rounds - 1 : FINFO[i].forward_xid = k * NFORWARD + i

Table == TypeOK /\ XidsFormed /\ PendingCount /\ ForwardedOnce

(* The transaction ids are enough for the requests served: none is used    *)
(* for two of them.                                                        *)
XidsSuffice == (MaxCalls + 2) * NFORWARD <= XIDS

(* How many calls ago next_xid gave k * NFORWARD, when the last one it     *)
(* gave is l * NFORWARD.                                                   *)
Age(k, l) == IF k <= l THEN l - k ELSE l - k + Rounds - 2
Recent(x) ==
  \E k, l \in 1 .. Rounds - 2, i \in Slots :
    x = k * NFORWARD + i /\ lastxid = l * NFORWARD /\ Age(k, l) < served

(* What services have been asked and may still answer, or have answered    *)
(* and rpcbind has not read.                                               *)
UnderWay ==
  {[xid |-> c.xid, of |-> c.of] : c \in calls}
  \cup UNION {{[xid |-> inbox[n][m].xid, of |-> inbox[n][m].of] : m \in 1 .. Len(inbox[n])}
                : n \in ForwardNetids}

(* Their xids are those of the last calls, and a slot that waits for one   *)
(* of them waits for the same request.                                     *)
AnswersKnown ==
  \A u \in UnderWay :
    /\ Recent(u.xid)
    /\ \A i \in Active(FINFO) : FINFO[i].forward_xid = u.xid => FINFO[i].of = u.of

-----------------------------------------------------------------------------
(* Arithmetic of transaction ids.                                          *)

(* XIDS is a whole number of rounds, and there are at least two.           *)
LEMMA RoundsOf == Rounds \in Nat /\ Rounds >= 2 /\ XIDS = Rounds * NFORWARD
<1>1. NFORWARD \in Nat /\ NFORWARD > 0 /\ XIDS \in Nat /\ XIDS % NFORWARD = 0 /\ NFORWARD < XIDS
  BY ForwardAssumption
<1>2. XIDS = NFORWARD * (XIDS \div NFORWARD) + (XIDS % NFORWARD) /\ XIDS \div NFORWARD \in Int
  BY <1>1
<1> DEFINE q == XIDS \div NFORWARD
<1>3. q \in Int /\ XIDS = q * NFORWARD
  BY <1>1, <1>2
<1> HIDE DEF q
<1>4. q >= 2
  BY <1>1, <1>3
<1> QED BY <1>3, <1>4 DEF Rounds, q

(* The xid of a slot names the slot and the round.                         *)
LEMMA XidParts ==
  ASSUME NEW k \in Nat, NEW i \in Slots
  PROVE  /\ k * NFORWARD \in Nat /\ k * NFORWARD + i \in Nat
         /\ (k * NFORWARD + i) % NFORWARD = i
         /\ \A l \in Nat, j \in Slots : k * NFORWARD + i = l * NFORWARD + j => k = l /\ i = j
<1>1. NFORWARD \in Nat /\ NFORWARD > 0 /\ i \in 0 .. NFORWARD - 1
  BY ForwardAssumption DEF Slots
<1>2. k * NFORWARD \in Nat
  BY <1>1
<1>3. (k * NFORWARD + i) % NFORWARD = i
  BY <1>1
<1>4. ASSUME NEW l \in Nat, NEW j \in 0 .. NFORWARD - 1, k * NFORWARD + i = l * NFORWARD + j
      PROVE  k = l /\ i = j
  BY <1>1, <1>4
<1> QED BY <1>1, <1>2, <1>3, <1>4 DEF Slots

(* The xids of slots in the rounds 1 to Rounds - 1 lie between 1 and XIDS. *)
LEMMA XidRange ==
  ASSUME NEW k \in 1 .. Rounds - 1, NEW i \in Slots
  PROVE  k * NFORWARD + i \in 1 .. XIDS - 1 /\ k * NFORWARD \in 1 .. XIDS - 1
<1>1. NFORWARD \in Nat /\ NFORWARD > 0 /\ i \in 0 .. NFORWARD - 1
  BY ForwardAssumption DEF Slots
<1>2. Rounds \in Nat /\ XIDS = Rounds * NFORWARD
  BY RoundsOf
<1>3. k * NFORWARD + NFORWARD <= Rounds * NFORWARD
  BY <1>1, <1>2
<1>4. k * NFORWARD \in Nat /\ k * NFORWARD >= NFORWARD
  BY <1>1
<1> QED BY <1>1, <1>2, <1>3, <1>4

(* The clock, from which forward_register starts, gives a number of the    *)
(* slot 0.                                                                 *)
LEMMA SeedXid ==
  ASSUME NEW a \in Nat
  PROVE  \E k \in 0 .. Rounds - 1 : (a * NFORWARD) % XIDS = k * NFORWARD
<1>1. NFORWARD \in Nat /\ NFORWARD > 0 /\ XIDS \in Nat /\ XIDS > 0
  BY ForwardAssumption
<1>2. Rounds \in Nat /\ XIDS = Rounds * NFORWARD
  BY RoundsOf
<1> DEFINE b == a * NFORWARD
<1>3. b \in Nat
  BY <1>1
<1> DEFINE q == b \div XIDS
           r == b % XIDS
<1>4. q \in Int /\ r \in 0 .. XIDS - 1 /\ b = XIDS * q + r
  BY <1>1, <1>3
<1> HIDE DEF q, r
<1>5. XIDS * q = (q * Rounds) * NFORWARD /\ q * Rounds \in Int
  BY <1>1, <1>2, <1>4
<1> DEFINE k == a - q * Rounds
<1>6. k \in Int /\ r = k * NFORWARD
  BY <1>1, <1>4, <1>5
<1> HIDE DEF k
<1>7. k >= 0
  BY <1>1, <1>4, <1>6
<1>8. k < Rounds
  BY <1>1, <1>2, <1>4, <1>6
<1> QED BY <1>2, <1>6, <1>7, <1>8 DEF r

(* next_xid goes from round to round and skips the last and zero.          *)
NextRound(k) == IF k + 1 >= Rounds - 1 THEN 1 ELSE k + 1
LEMMA NextXid ==
  ASSUME NEW k \in 0 .. Rounds - 1
  PROVE  next_xid(k * NFORWARD) = NextRound(k) * NFORWARD
<1>1. NFORWARD \in Nat /\ NFORWARD > 0 /\ XIDS \in Nat /\ XIDS > NFORWARD
  BY ForwardAssumption
<1>2. Rounds \in Nat /\ Rounds >= 2 /\ XIDS = Rounds * NFORWARD
  BY RoundsOf
<1>0. ASSUME NEW a \in Nat, a < XIDS PROVE a % XIDS = a
  BY <1>1, <1>0
<1>00. XIDS % XIDS = 0
  BY <1>1
<1> DEFINE y == (k * NFORWARD + NFORWARD) % XIDS
<1>3. CASE k + 1 = Rounds
  <2>1. k * NFORWARD + NFORWARD = XIDS
    BY <1>1, <1>2, <1>3
  <2>2. y = 0
    BY <2>1, <1>00
  <2>3. (y + NFORWARD) % XIDS = NFORWARD
    BY <2>2, <1>0, <1>1
  <2> QED BY <2>3, <1>1, <1>2, <1>3 DEF next_xid, NextRound
<1>4. CASE k + 1 = Rounds - 1
  <2>1. k * NFORWARD + NFORWARD + NFORWARD = XIDS /\ k * NFORWARD \in Nat
    BY <1>1, <1>2, <1>4
  <2>2. y = k * NFORWARD + NFORWARD
    BY <2>1, <1>0, <1>1
  <2>3. (y + NFORWARD) % XIDS = 0
    BY <2>1, <2>2, <1>00
  <2> QED BY <2>3, <1>1, <1>2, <1>4 DEF next_xid, NextRound
<1>5. CASE k + 1 < Rounds - 1
  <2>1. k * NFORWARD + NFORWARD + NFORWARD < XIDS /\ k * NFORWARD \in Nat
    BY <1>1, <1>2, <1>5
  <2>2. y = k * NFORWARD + NFORWARD
    BY <2>1, <1>0, <1>1
  <2>3. (y + NFORWARD) % XIDS = k * NFORWARD + NFORWARD + NFORWARD
    BY <2>1, <2>2, <1>0, <1>1
  <2>4. ~((y + NFORWARD) % XIDS <= NFORWARD)
    BY <2>1, <2>3, <1>1
  <2>5. next_xid(k * NFORWARD) = k * NFORWARD + NFORWARD
    BY <2>2, <2>4 DEF next_xid
  <2>6. k * NFORWARD + NFORWARD = (k + 1) * NFORWARD
    BY <1>1
  <2> QED BY <2>5, <2>6, <1>5, <1>2 DEF NextRound
<1> QED BY <1>2, <1>3, <1>4, <1>5

(* next_xid gives a round between 1 and Rounds - 1.                        *)
LEMMA NextRoundType ==
  ASSUME NEW k \in 0 .. Rounds - 1
  PROVE  /\ NextRound(k) \in 1 .. Rounds - 1
         /\ Rounds >= 3 => NextRound(k) \in 1 .. Rounds - 2
BY RoundsOf DEF NextRound

-----------------------------------------------------------------------------
(* The slots.                                                              *)

(* A set of numbers that is not empty has a smallest.                      *)
LEMMA LeastExists ==
  ASSUME NEW S, S \subseteq Nat, S /= {}
  PROVE  \E k \in S : \A j \in S : k <= j
<1>1. PICK k \in S : \A j \in S : ~(<<j, k>> \in OpToRel(<, Nat))
  BY NatLessThanWellFounded, WFMin
<1>2. ASSUME NEW j \in S PROVE k <= j
  <2>1. ~(j < k)
    BY <1>1 DEF OpToRel
  <2> QED BY <2>1
<1> QED BY <1>2

(* What the loops over the table look for they find in it.                 *)
LEMMA FirstIs ==
  ASSUME NEW S, S \subseteq Nat, S /= {}
  PROVE  First(S) \in S
BY LeastExists DEF First

(* Slots are finitely many numbers.                                        *)
LEMMA SlotsFinite == IsFiniteSet(Slots) /\ Cardinality(Slots) = NFORWARD /\ Slots \subseteq Nat
<1>1. NFORWARD \in Nat /\ NFORWARD > 0
  BY ForwardAssumption
<1>2. IsFiniteSet(0 .. NFORWARD - 1) /\ Cardinality(0 .. NFORWARD - 1) = NFORWARD
  BY <1>1, FS_Interval
<1> QED BY <1>1, <1>2 DEF Slots

(* The slots in use are finitely many, and no more than there are.         *)
LEMMA ActiveFinite ==
  ASSUME NEW F
  PROVE  /\ IsFiniteSet(Active(F)) /\ Active(F) \subseteq Slots
         /\ Cardinality(Active(F)) \in 0 .. NFORWARD
<1>1. Active(F) \subseteq Slots
  BY DEF Active
<1>2. IsFiniteSet(Active(F)) /\ Cardinality(Active(F)) <= NFORWARD
  BY <1>1, SlotsFinite, FS_Subset
<1>3. Cardinality(Active(F)) \in Nat
  BY <1>2, FS_CardinalityType
<1> QED BY <1>1, <1>2, <1>3, ForwardAssumption

SlotType == [active : BOOLEAN, of : Requests \cup {None}, forward_xid : 0 .. XIDS - 1, time : Nat]

(* Freeing slots takes them, and only them, out of use.                    *)
LEMMA FreedSlots ==
  ASSUME NEW F \in [Slots -> SlotType], NEW I
  PROVE  /\ freed(F, I) \in [Slots -> SlotType]
         /\ Active(freed(F, I)) = Active(F) \ I
         /\ \A i \in Slots \ I : freed(F, I)[i] = F[i]
<1>1. ASSUME NEW i \in Slots
      PROVE  /\ [Free EXCEPT !.time = F[i].time] \in SlotType
             /\ [Free EXCEPT !.time = F[i].time].active = FALSE
  <2>1. 0 \in 0 .. XIDS - 1
    BY ForwardAssumption
  <2>2. F[i].time \in Nat
    BY DEF SlotType
  <2> QED BY <2>1, <2>2 DEF Free, SlotType
<1>2. freed(F, I) \in [Slots -> SlotType]
  BY <1>1 DEF freed
<1>3. \A i \in Slots \ I : freed(F, I)[i] = F[i]
  BY DEF freed
<1>4. \A i \in Slots \cap I : ~freed(F, I)[i].active
  BY <1>1 DEF freed
<1> QED BY <1>2, <1>3, <1>4 DEF Active

(* Freeing one slot counts it if it was in use.                            *)
LEMMA FreedOne ==
  ASSUME NEW F \in [Slots -> SlotType], NEW n, n = Cardinality(Active(F)), NEW i \in Slots,
         NEW e, e = free_slot_by_index(F, n, i)
  PROVE  /\ e.F \in [Slots -> SlotType] /\ e.n = Cardinality(Active(e.F))
         /\ Active(e.F) = Active(F) \ {i}
         /\ \A j \in Slots \ {i} : e.F[j] = F[j]
<1>1. CASE F[i].active
  <2>1. e.F = freed(F, {i}) /\ e.n = n - 1
    BY <1>1 DEF free_slot_by_index
  <2>2. i \in Active(F) /\ IsFiniteSet(Active(F))
    BY <1>1, ActiveFinite DEF Active
  <2>3. Cardinality(Active(F) \ {i}) = n - 1
    BY <2>2, FS_RemoveElement
  <2>4. /\ freed(F, {i}) \in [Slots -> SlotType]
        /\ Active(freed(F, {i})) = Active(F) \ {i}
        /\ \A j \in Slots \ {i} : freed(F, {i})[j] = F[j]
    BY FreedSlots
  <2> QED BY <2>1, <2>3, <2>4
<1>2. CASE ~F[i].active
  <2>1. e.F = F /\ e.n = n
    BY <1>2 DEF free_slot_by_index
  <2>2. Active(F) \ {i} = Active(F)
    BY <1>2 DEF Active
  <2> QED BY <2>1, <2>2
<1> QED BY <1>1, <1>2

(* Freeing the slots of calls that waited too long counts them.            *)
LEMMA FreedMany ==
  ASSUME NEW F \in [Slots -> SlotType], NEW I, I \subseteq Active(F)
  PROVE  Cardinality(Active(freed(F, I))) = Cardinality(Active(F)) - Cardinality(I)
<1>1. IsFiniteSet(Active(F)) /\ Active(F) \cap I = I
  BY ActiveFinite
<1>2. Cardinality(Active(F) \ I) = Cardinality(Active(F)) - Cardinality(I)
  BY <1>1, FS_Difference
<1> QED BY <1>2, FreedSlots

-----------------------------------------------------------------------------
(* forward_register.                                                       *)

(* A slot in use that goes on waiting for what it waited for.              *)
Kept(F, i) == /\ i \in Active(FINFO) /\ F[i].of = FINFO[i].of
              /\ F[i].forward_xid = FINFO[i].forward_xid

(* The slots that have expired are freed, and the count follows.           *)
LEMMA Expires ==
  ASSUME Table, NEW I, NEW F, F = freed(FINFO, expired(FINFO, I))
  PROVE  /\ F \in [Slots -> SlotType]
         /\ rpcb_rmtcalls - Cardinality(expired(FINFO, I)) = Cardinality(Active(F))
         /\ Active(F) = Active(FINFO) \ expired(FINFO, I)
         /\ \A i \in Slots \ expired(FINFO, I) : F[i] = FINFO[i]
<1>1. FINFO \in [Slots -> SlotType] /\ rpcb_rmtcalls = Cardinality(Active(FINFO))
  BY DEF Table, TypeOK, SlotType, PendingCount
<1>2. expired(FINFO, I) \subseteq Active(FINFO)
  BY DEF expired
<1>3. Cardinality(Active(F)) = Cardinality(Active(FINFO)) - Cardinality(expired(FINFO, I))
  BY <1>1, <1>2, FreedMany
<1>4. /\ F \in [Slots -> SlotType]
      /\ Active(F) = Active(FINFO) \ expired(FINFO, I)
      /\ \A i \in Slots \ expired(FINFO, I) : F[i] = FINFO[i]
  BY <1>1, FreedSlots
<1> QED BY <1>1, <1>3, <1>4

(* A duplicate of a request that is waiting takes no slot and no xid.      *)
LEMMA RegistersAgain ==
  ASSUME Table, NEW r \in Requests, NEW reg, reg = forward_register(r), duplicate(FINFO, r) /= {}
  PROVE  /\ reg.new = FALSE /\ lastxid /= 0 /\ reg.last = lastxid
         /\ reg.F \in [Slots -> SlotType] /\ reg.n = Cardinality(Active(reg.F))
         /\ \A i \in Active(reg.F) : Kept(reg.F, i)
<1> DEFINE dup  == duplicate(FINFO, r)
           upto == IF dup = {} THEN Slots ELSE {i \in Slots : i < First(dup)}
           old  == expired(FINFO, upto)
           F    == freed(FINFO, old)
           n    == rpcb_rmtcalls - Cardinality(old)
           d    == First(dup)
<1>1. dup \subseteq Active(FINFO) /\ Active(FINFO) \subseteq Slots /\ Slots \subseteq Nat
  BY SlotsFinite DEF duplicate, Active
<1>2. d \in dup
  BY <1>1, FirstIs
<1>3. d \in Slots /\ d \in Active(FINFO) /\ d \notin old
  <2>0. d \in Slots /\ d \in Active(FINFO) /\ d \in Nat
    BY <1>1, <1>2
  <2>1. d \in Slots /\ d \in Active(FINFO) /\ ~(d < d)
    <3> HIDE DEF d
    <3> QED BY <2>0
  <2>2. d \notin upto
    BY <2>1
  <2> QED BY <2>1, <2>2 DEF expired
<1>4. lastxid /= 0
  BY <1>3 DEF Table, XidsFormed
<1>5. /\ F \in [Slots -> SlotType] /\ n = Cardinality(Active(F))
      /\ Active(F) = Active(FINFO) \ old
      /\ \A i \in Slots \ old : F[i] = FINFO[i]
  BY Expires
<1>6. /\ reg.new = FALSE /\ reg.last = lastxid /\ reg.n = n
      /\ reg.F = [F EXCEPT ![d].time = now]
  BY <1>4 DEF forward_register
<1> HIDE DEF old, F, n, d
<1>7. now \in Nat
  BY DEF Table, TypeOK
<1>8. [F[d] EXCEPT !.time = now] \in SlotType
  BY <1>3, <1>5, <1>7 DEF SlotType
<1>9. reg.F \in [Slots -> SlotType]
  BY <1>5, <1>6, <1>8
<1>10. \A i \in Slots : /\ reg.F[i].active = F[i].active /\ reg.F[i].of = F[i].of
                        /\ reg.F[i].forward_xid = F[i].forward_xid
  BY <1>3, <1>5, <1>6 DEF SlotType
<1>11. Active(reg.F) = Active(F)
  BY <1>10 DEF Active
<1>12. ASSUME NEW i \in Active(reg.F) PROVE Kept(reg.F, i)
  BY <1>1, <1>5, <1>10, <1>11 DEF Kept
<1> QED BY <1>4, <1>5, <1>6, <1>9, <1>11, <1>12

(* Any other gets a slot of its own, and the xid after the last one.       *)
LEMMA RegistersNew ==
  ASSUME Table, NEW r \in Requests, NEW reg, reg = forward_register(r), duplicate(FINFO, r) = {}
  PROVE  /\ reg.new = TRUE /\ reg.F \in [Slots -> SlotType] /\ reg.n = Cardinality(Active(reg.F))
         /\ \A i \in Active(FINFO) : FINFO[i].of /= r
         /\ \E j \in Slots, k \in 0 .. Rounds - 1 :
              /\ lastxid /= 0 => lastxid = k * NFORWARD
              /\ reg.last = NextRound(k) * NFORWARD /\ reg.xid = NextRound(k) * NFORWARD + j
              /\ reg.F[j].active /\ reg.F[j].of = r /\ reg.F[j].forward_xid = reg.xid
              /\ \A i \in Active(reg.F) : i = j \/ Kept(reg.F, i)
<1> DEFINE dup  == duplicate(FINFO, r)
           upto == IF dup = {} THEN Slots ELSE {i \in Slots : i < First(dup)}
           old  == expired(FINFO, upto)
           F    == freed(FINFO, old)
           n    == rpcb_rmtcalls - Cardinality(old)
           gap  == Slots \ Active(F)
           j    == IF gap /= {} THEN First(gap) ELSE earliest(F)
           e    == free_slot_by_index(F, n, j)
           seed == IF lastxid = 0 THEN (now * NFORWARD) % XIDS ELSE lastxid
           last == next_xid(seed)
           new  == [active |-> TRUE, of |-> r, forward_xid |-> last + j, time |-> now]
<1>1. /\ reg.new = TRUE /\ reg.n = e.n + 1 /\ reg.xid = last + j /\ reg.last = last
      /\ reg.F = [e.F EXCEPT ![j] = new]
  BY DEF forward_register
<1>2. /\ F \in [Slots -> SlotType] /\ n = Cardinality(Active(F))
      /\ Active(F) = Active(FINFO) \ old
      /\ \A i \in Slots \ old : F[i] = FINFO[i]
  BY Expires
<1> HIDE DEF old, F, n
<1>3. j \in Slots
  <2>1. CASE gap /= {}
    BY <2>1, SlotsFinite, FirstIs
  <2>2. CASE gap = {}
    <3> DEFINE T == {F[i].time : i \in Slots}
               E == {m \in Slots : \A i \in Slots : F[m].time <= F[i].time}
    <3>1. 0 \in Slots
      BY ForwardAssumption DEF Slots
    <3>2. T \subseteq Nat /\ T /= {}
      BY <1>2, <3>1 DEF SlotType
    <3>3. PICK t \in T : \A s \in T : t <= s
      BY <3>2, LeastExists
    <3>0. PICK m \in Slots : t = F[m].time
      BY <3>3
    <3>4. m \in E /\ E \subseteq Nat
      BY <3>0, <3>3, SlotsFinite
    <3>5. First(E) \in E
      BY <3>4, FirstIs
    <3> QED BY <2>2, <3>5 DEF earliest
  <2> QED BY <2>1, <2>2
<1>4. PICK k \in 0 .. Rounds - 1 : seed = k * NFORWARD
  <2>1. CASE lastxid = 0
    BY <2>1, SeedXid DEF Table, TypeOK
  <2>2. CASE lastxid /= 0
    BY <2>2, RoundsOf DEF Table, XidsFormed
  <2> QED BY <2>1, <2>2
<1>5. last = NextRound(k) * NFORWARD /\ NextRound(k) \in 1 .. Rounds - 1
  BY <1>4, NextXid, NextRoundType
<1> HIDE DEF last, j, new, e
<1>6. /\ e.F \in [Slots -> SlotType] /\ e.n = Cardinality(Active(e.F))
      /\ Active(e.F) = Active(F) \ {j}
      /\ \A i \in Slots \ {j} : e.F[i] = F[i]
  <2>1. e = free_slot_by_index(F, n, j)
    BY DEF e
  <2>2. F \in [Slots -> SlotType] /\ n = Cardinality(Active(F)) /\ j \in Slots
    BY <1>2, <1>3
  <2> QED BY ONLY <2>1, <2>2, FreedOne
<1>7. new \in SlotType /\ new.active = TRUE /\ new.of = r /\ new.forward_xid = last + j
  <2>1. last + j \in 1 .. XIDS - 1
    BY <1>3, <1>5, XidRange
  <2>2. now \in Nat
    BY DEF Table, TypeOK
  <2>3. last + j \in 0 .. XIDS - 1
    BY <2>1, ForwardAssumption
  <2> QED BY <2>2, <2>3 DEF new, SlotType
<1>8. /\ reg.F \in [Slots -> SlotType] /\ reg.F[j] = new
      /\ \A i \in Slots \ {j} : reg.F[i] = F[i]
  BY <1>1, <1>3, <1>6, <1>7
<1>9. Active(reg.F) = Active(e.F) \cup {j} /\ j \notin Active(e.F)
  BY <1>3, <1>6, <1>7, <1>8 DEF Active
<1>10. reg.n = Cardinality(Active(reg.F))
  <2>1. IsFiniteSet(Active(e.F))
    BY ActiveFinite
  <2>2. Cardinality(Active(e.F) \cup {j}) = Cardinality(Active(e.F)) + 1
    BY <2>1, <1>9, FS_AddElement
  <2> QED BY <2>2, <1>1, <1>6, <1>9
<1>11. ASSUME NEW i \in Active(FINFO) PROVE FINFO[i].of /= r
  BY DEF duplicate
<1>12. ASSUME NEW i \in Active(reg.F), i /= j PROVE Kept(reg.F, i)
  <2>1. i \in Active(F) /\ i \in Slots /\ i \notin old /\ i \in Active(FINFO)
    BY <1>2, <1>6, <1>9, <1>12 DEF Active
  <2> QED BY <2>1, <1>2, <1>8, <1>12 DEF Kept
<1>13. lastxid /= 0 => lastxid = k * NFORWARD
  BY <1>4
<1> QED BY <1>1, <1>3, <1>5, <1>7, <1>8, <1>10, <1>11, <1>12, <1>13

-----------------------------------------------------------------------------
(* CALLIT and INDIRECT.                                                    *)

(* An error is not a result, and what is forwarded has a descriptor.       *)
LEMMA Refusals ==
  ASSUME NEW r, NEW f
  PROVE  refusal(r, f) /= "result" /\ (refusal(r, f) = "" => r.netid \in ForwardNetids)
<1>1. CASE f = "sockinfo"
  BY <1>1 DEF refusal
<1>2. CASE f /= "sockinfo" /\ r.netid = "tcp"
  BY <1>2 DEF refusal
<1>3. CASE f = "args" /\ r.netid /= "tcp"
  BY <1>3 DEF refusal
<1>4. CASE f \notin {"sockinfo", "args"} /\ r.netid /= "tcp"
  BY <1>4 DEF refusal, find_rmtcallfd_by_netid
<1> QED BY <1>1, <1>2, <1>3, <1>4

(* What an error is complained about with is no result.                    *)
LEMMA Complaints ==
  ASSUME NEW r, NEW w, w /= "result"
  PROVE  \A s \in complaint(r, w) : s.what /= "result"
BY DEF complaint, answered

(* The new slot j of a request and what it leaves of the others.           *)
TakesSlot(r, j, k) ==
  /\ lastxid /= 0 => lastxid = k * NFORWARD
  /\ lastxid' = NextRound(k) * NFORWARD
  /\ r.netid \in ForwardNetids
  /\ \A i \in Active(FINFO) : FINFO[i].of /= r
  /\ \A i \in Active(FINFO') :
       \/ i /= j /\ Kept(FINFO', i)
       \/ /\ i = j /\ FINFO'[i].of = r /\ FINFO'[i].forward_xid = lastxid' + j
          /\ [xid |-> lastxid' + j, of |-> r, again |-> FALSE] \in calls'
  /\ calls' \subseteq calls \cup {[xid |-> lastxid' + j, of |-> r, again |-> FALSE]}

(* A request is refused, is a duplicate, or takes a slot, which it gives   *)
(* back if the call cannot be sent.                                        *)
LEMMA CallitCases ==
  ASSUME Table, NEW r \in Requests, NEW f, rpcbproc_callit_com(r, f)
  PROVE  /\ served' = served + 1 /\ served' \in 0 .. MaxCalls
         /\ now' = now /\ inbox' = inbox /\ poll' = poll
         /\ \A s \in sent' : s.what /= "result"
         /\ FINFO' \in [Slots -> SlotType] /\ rpcb_rmtcalls' = Cardinality(Active(FINFO'))
         /\ \/ lastxid' = lastxid /\ calls' = calls /\ \A i \in Active(FINFO') : Kept(FINFO', i)
            \/ \E j \in Slots, k \in 0 .. Rounds - 1 : TakesSlot(r, j, k)
<1>1. /\ served' = served + 1 /\ served' \in 0 .. MaxCalls
      /\ now' = now /\ inbox' = inbox /\ poll' = poll
  <2>1. /\ served < MaxCalls /\ served' = served + 1
        /\ now' = now /\ inbox' = inbox /\ poll' = poll
    BY DEF rpcbproc_callit_com
  <2>2. served \in 0 .. MaxCalls /\ MaxCalls \in Nat
    BY ForwardAssumption DEF Table, TypeOK
  <2> QED BY <2>1, <2>2
<1>2. FINFO \in [Slots -> SlotType] /\ rpcb_rmtcalls = Cardinality(Active(FINFO))
  BY DEF Table, TypeOK, SlotType, PendingCount
<1> DEFINE why == refusal(r, f)
           reg == forward_register(r)
           rel == free_slot_by_xid(reg.F, reg.n, reg.xid)
<1>3. CASE why /= ""
  <2>1. sent' = complaint(r, why) /\ UNCHANGED <<FINFO, lastxid, rpcb_rmtcalls, calls>>
    BY <1>3 DEF rpcbproc_callit_com
  <2>2. \A s \in sent' : s.what /= "result"
    BY <2>1, Refusals, Complaints
  <2>3. \A i \in Active(FINFO') : Kept(FINFO', i)
    BY <2>1 DEF Kept
  <2> QED BY <1>1, <1>2, <2>1, <2>2, <2>3
<1>4. CASE why = "" /\ duplicate(FINFO, r) /= {}
  <2>1. /\ reg.new = FALSE /\ lastxid /= 0 /\ reg.last = lastxid
        /\ reg.F \in [Slots -> SlotType] /\ reg.n = Cardinality(Active(reg.F))
        /\ \A i \in Active(reg.F) : Kept(reg.F, i)
    BY <1>4, RegistersAgain
  <2> HIDE DEF reg
  <2>2. lastxid' = reg.last /\ FINFO' = reg.F /\ rpcb_rmtcalls' = reg.n /\ sent' = {} /\ calls' = calls
    BY <1>4, <2>1 DEF rpcbproc_callit_com, reg
  <2> QED BY <1>1, <2>1, <2>2
<1>5. CASE why = "" /\ duplicate(FINFO, r) = {}
  <2>0. r.netid \in ForwardNetids
    BY <1>5, Refusals
  <2>1. /\ reg.new = TRUE /\ reg.F \in [Slots -> SlotType] /\ reg.n = Cardinality(Active(reg.F))
        /\ \A i \in Active(FINFO) : FINFO[i].of /= r
    BY <1>5, RegistersNew
  <2>2. PICK j \in Slots, k \in 0 .. Rounds - 1 :
          /\ lastxid /= 0 => lastxid = k * NFORWARD
          /\ reg.last = NextRound(k) * NFORWARD /\ reg.xid = NextRound(k) * NFORWARD + j
          /\ reg.F[j].active /\ reg.F[j].of = r /\ reg.F[j].forward_xid = reg.xid
          /\ \A i \in Active(reg.F) : i = j \/ Kept(reg.F, i)
    BY <1>5, RegistersNew
  <2>3. lastxid' = reg.last /\ reg.xid = lastxid' + j
    BY <1>5, <2>2 DEF rpcbproc_callit_com
  <2> HIDE DEF reg
  <2>4. CASE f \in AfterSlot
    <3>1. /\ FINFO' = rel.F /\ rpcb_rmtcalls' = rel.n /\ calls' = calls
          /\ sent' = complaint(r, error_after(f))
      BY <1>5, <2>1, <2>4 DEF rpcbproc_callit_com, reg
    <3>2. rel = free_slot_by_index(reg.F, reg.n, j)
      <4>1. NextRound(k) \in Nat
        BY NextRoundType, RoundsOf
      <4>2. reg.xid % NFORWARD = j
        BY <4>1, <2>2, XidParts
      <4> QED BY <4>2 DEF free_slot_by_xid
    <3>3. /\ rel.F \in [Slots -> SlotType] /\ rel.n = Cardinality(Active(rel.F))
          /\ Active(rel.F) = Active(reg.F) \ {j}
          /\ \A i \in Slots \ {j} : rel.F[i] = reg.F[i]
      BY <2>1, <3>2, FreedOne
    <3> HIDE DEF rel
    <3>4. ASSUME NEW i \in Active(FINFO') PROVE i /= j /\ Kept(FINFO', i)
      <4>1. i \in Active(reg.F) /\ i /= j /\ i \in Slots
        BY <3>1, <3>3 DEF Active
      <4>2. Kept(reg.F, i) /\ FINFO'[i] = reg.F[i]
        BY <4>1, <2>2, <3>1, <3>3
      <4> QED BY <4>1, <4>2 DEF Kept
    <3>5. TakesSlot(r, j, k)
      BY <2>0, <2>1, <2>2, <2>3, <3>1, <3>4 DEF TakesSlot
    <3>6. \A s \in sent' : s.what /= "result"
      BY <3>1, Complaints DEF error_after
    <3> QED BY <1>1, <3>1, <3>3, <3>5, <3>6
  <2>5. CASE f \notin AfterSlot
    <3>1. /\ FINFO' = reg.F /\ rpcb_rmtcalls' = reg.n /\ sent' = {}
          /\ calls' = calls \cup {[xid |-> reg.xid, of |-> r, again |-> FALSE]}
      BY <1>5, <2>1, <2>5 DEF rpcbproc_callit_com, reg
    <3>2. TakesSlot(r, j, k)
      BY <2>0, <2>1, <2>2, <2>3, <3>1 DEF TakesSlot
    <3> QED BY <1>1, <2>1, <3>1, <3>2
  <2> QED BY <2>4, <2>5
<1> QED BY <1>3, <1>4, <1>5

-----------------------------------------------------------------------------
(* The table under every step.                                             *)

(* At the start no slot is in use.                                         *)
LEMMA TableInit == Init => Table
<1> SUFFICES ASSUME Init PROVE Table
  OBVIOUS
<1>1. FINFO = [i \in Slots |-> Free]
  BY DEF Init
<1>2. Active(FINFO) = {}
  BY <1>1 DEF Active, Free
<1>3. PendingCount
  BY <1>2, FS_EmptySet DEF PendingCount, Init
<1>4. ForwardedOnce /\ XidsFormed
  BY <1>2 DEF ForwardedOnce, XidsFormed, Init
<1>5. FINFO \in [Slots -> SlotType]
  <2>1. 0 \in 0 .. XIDS - 1
    BY ForwardAssumption
  <2> QED BY <1>1, <2>1 DEF SlotType, Free
<1>6. /\ lastxid \in 0 .. XIDS - 1 /\ rpcb_rmtcalls \in 0 .. NFORWARD
      /\ now \in Nat /\ served \in 0 .. MaxCalls
  BY ForwardAssumption DEF Init
<1>7. /\ inbox \in [ForwardNetids -> Seq([xid : 1 .. XIDS - 1, of : Requests, what : {"result", "error"}])]
      /\ calls = {}
  BY DEF Init
<1>8. poll \in [ready : SUBSET Order, found : Nat, pending : 0 .. NFORWARD] /\ poll.ready = {}
  BY ForwardAssumption DEF Init
<1> QED BY <1>3, <1>4, <1>5, <1>6, <1>7, <1>8 DEF Table, TypeOK, SlotType

(* Slots that are freed leave the table as it should be.                   *)
LEMMA TableKept ==
  ASSUME Table, FINFO' \in [Slots -> SlotType], rpcb_rmtcalls' = Cardinality(Active(FINFO')),
         lastxid' = lastxid, \A i \in Active(FINFO') : Kept(FINFO', i)
  PROVE  rpcb_rmtcalls' \in 0 .. NFORWARD /\ XidsFormed' /\ PendingCount' /\ ForwardedOnce'
<1>1. rpcb_rmtcalls' \in 0 .. NFORWARD
  BY ActiveFinite
<1>2. PendingCount'
  BY DEF PendingCount, Active
<1>3. \A i \in Active(FINFO') : /\ i \in Active(FINFO) /\ FINFO'[i].of = FINFO[i].of
                                /\ FINFO'[i].forward_xid = FINFO[i].forward_xid
  BY DEF Kept
<1>4. ForwardedOnce'
  <2>1. \A i, j \in Active(FINFO') : i /= j => FINFO'[i].of /= FINFO'[j].of
    BY <1>3 DEF Table, ForwardedOnce
  <2> QED BY <2>1 DEF ForwardedOnce, Active
<1>5. XidsFormed'
  <2>1. /\ lastxid' = 0 => Active(FINFO') = {}
        /\ lastxid' /= 0 => \E k \in 1 .. Rounds - 1 : lastxid' = k * NFORWARD
        /\ \A i \in Active(FINFO') : \E k \in 1 .. Rounds - 1 : FINFO'[i].forward_xid = k * NFORWARD + i
    BY <1>3 DEF Table, XidsFormed
  <2> QED BY <2>1 DEF XidsFormed, Active, Rounds
<1> QED BY <1>1, <1>2, <1>4, <1>5

(* A slot that is taken does so as well.                                   *)
LEMMA TableTaken ==
  ASSUME Table, FINFO' \in [Slots -> SlotType], rpcb_rmtcalls' = Cardinality(Active(FINFO')),
         NEW r \in Requests, NEW j \in Slots, NEW k \in 0 .. Rounds - 1, TakesSlot(r, j, k)
  PROVE  /\ rpcb_rmtcalls' \in 0 .. NFORWARD /\ lastxid' \in 1 .. XIDS - 1
         /\ XidsFormed' /\ PendingCount' /\ ForwardedOnce'
<1>1. rpcb_rmtcalls' \in 0 .. NFORWARD
  BY ActiveFinite
<1>2. PendingCount'
  BY DEF PendingCount, Active
<1>3. \A i \in Active(FINFO') :
        \/ /\ i /= j /\ i \in Active(FINFO) /\ FINFO'[i].of = FINFO[i].of
           /\ FINFO'[i].forward_xid = FINFO[i].forward_xid
        \/ i = j /\ FINFO'[i].of = r /\ FINFO'[i].forward_xid = lastxid' + j
  BY DEF Kept, TakesSlot
<1>4. ForwardedOnce'
  <2>1. \A i \in Active(FINFO) : FINFO[i].of /= r
    BY DEF TakesSlot
  <2>2. \A i, m \in Active(FINFO') : i /= m => FINFO'[i].of /= FINFO'[m].of
    BY <1>3, <2>1 DEF Table, ForwardedOnce
  <2> QED BY <2>2 DEF ForwardedOnce, Active
<1>5. NextRound(k) \in 1 .. Rounds - 1 /\ lastxid' = NextRound(k) * NFORWARD
  BY NextRoundType DEF TakesSlot
<1> DEFINE l == NextRound(k)
<1> HIDE DEF l
<1>6. lastxid' \in 1 .. XIDS - 1 /\ lastxid' = l * NFORWARD /\ l \in 1 .. Rounds - 1
  BY <1>5, XidRange DEF l
<1>7. XidsFormed'
  <2>1. \A i \in Active(FINFO') : \E m \in 1 .. Rounds - 1 : FINFO'[i].forward_xid = m * NFORWARD + i
    <3> SUFFICES ASSUME NEW i \in Active(FINFO')
                 PROVE  \E m \in 1 .. Rounds - 1 : FINFO'[i].forward_xid = m * NFORWARD + i
      OBVIOUS
    <3>1. CASE i = j
      <4>1. FINFO'[i].forward_xid = l * NFORWARD + i
        BY <1>3, <1>6, <3>1
      <4> QED BY <4>1, <1>6
    <3>2. CASE i /= j
      <4>1. i \in Active(FINFO) /\ FINFO'[i].forward_xid = FINFO[i].forward_xid
        BY <1>3, <3>2
      <4> QED BY <4>1 DEF Table, XidsFormed
    <3> QED BY <3>1, <3>2
  <2>2. lastxid' /= 0
    BY <1>6
  <2> QED BY <1>6, <2>1, <2>2 DEF XidsFormed, Active, Rounds
<1> QED BY <1>1, <1>2, <1>4, <1>6, <1>7

AnswerType == [xid : 1 .. XIDS - 1, of : Requests, what : {"result", "error"}]

(* A slot freed by the xid of an answer.                                   *)
LEMMA FreedByXid ==
  ASSUME Table, NEW x \in Nat, NEW e, e = free_slot_by_xid(FINFO, rpcb_rmtcalls, x)
  PROVE  /\ e.F \in [Slots -> SlotType] /\ e.n = Cardinality(Active(e.F))
         /\ \A i \in Active(e.F) : Kept(e.F, i)
<1>1. FINFO \in [Slots -> SlotType] /\ rpcb_rmtcalls = Cardinality(Active(FINFO))
  BY DEF Table, TypeOK, SlotType, PendingCount
<1>2. x % NFORWARD \in Slots
  BY ForwardAssumption DEF Slots
<1>3. e = free_slot_by_index(FINFO, rpcb_rmtcalls, x % NFORWARD)
  BY DEF free_slot_by_xid
<1> DEFINE i == x % NFORWARD
<1> HIDE DEF i
<1>4. i \in Slots /\ e = free_slot_by_index(FINFO, rpcb_rmtcalls, i)
  BY <1>2, <1>3 DEF i
<1>5. /\ e.F \in [Slots -> SlotType] /\ e.n = Cardinality(Active(e.F))
      /\ Active(e.F) = Active(FINFO) \ {i}
      /\ \A j \in Slots \ {i} : e.F[j] = FINFO[j]
  BY <1>1, <1>4, FreedOne
<1>6. ASSUME NEW j \in Active(e.F) PROVE Kept(e.F, j)
  <2>1. j \in Active(FINFO) /\ j \in Slots \ {i}
    BY <1>5 DEF Active
  <2> QED BY <2>1, <1>5 DEF Kept
<1> QED BY <1>5, <1>6

(* Reading from a ready descriptor takes the first of its answers, and     *)
(* leaves those of the others.                                             *)
LEMMA Takes ==
  ASSUME Table, NEW k, k = First(poll.ready), poll.ready /= {}, NEW more \in 0 .. 1, taken(k, more)
  PROVE  /\ k \in Order /\ Forwarding[k] \in ForwardNetids /\ inbox[Forwarding[k]] /= <<>>
         /\ Head(inbox[Forwarding[k]]) = inbox[Forwarding[k]][1]
         /\ Head(inbox[Forwarding[k]]) \in AnswerType
         /\ inbox' \in [ForwardNetids -> Seq(AnswerType)]
         /\ poll' \in [ready : SUBSET Order, found : Nat, pending : 0 .. NFORWARD]
         /\ \A m \in poll'.ready : inbox'[Forwarding[m]] /= <<>>
         /\ \A n \in ForwardNetids : \A m \in 1 .. Len(inbox'[n]) :
              \E l \in 1 .. Len(inbox[n]) : inbox'[n][m] = inbox[n][l]
<1>1. /\ poll \in [ready : SUBSET Order, found : Nat, pending : 0 .. NFORWARD]
      /\ inbox \in [ForwardNetids -> Seq(AnswerType)]
      /\ \A m \in poll.ready : inbox[Forwarding[m]] /= <<>>
  BY DEF Table, TypeOK, AnswerType
<1>2. k \in poll.ready
  <2>1. Order \subseteq Nat
    BY ForwardAssumption DEF Order
  <2>2. poll.ready \subseteq Nat
    BY <1>1, <2>1
  <2> QED BY <2>2, FirstIs
<1>3. k \in Order /\ Forwarding[k] \in ForwardNetids
  BY <1>1, <1>2 DEF ForwardNetids
<1> DEFINE q == inbox[Forwarding[k]]
<1>4. q \in Seq(AnswerType) /\ q /= <<>>
  BY <1>1, <1>2, <1>3
<1>5. Head(q) = q[1] /\ Head(q) \in AnswerType /\ Tail(q) \in Seq(AnswerType)
  BY <1>4
<1>6. /\ inbox' = [inbox EXCEPT ![Forwarding[k]] = Tail(inbox[Forwarding[k]])]
      /\ poll' = [poll EXCEPT !.ready = @ \ {k}, !.found = @ + more]
  BY DEF taken
<1>7. inbox' \in [ForwardNetids -> Seq(AnswerType)]
  BY <1>1, <1>3, <1>5, <1>6
<1>8. poll' \in [ready : SUBSET Order, found : Nat, pending : 0 .. NFORWARD]
  <2>1. poll.ready \ {k} \in SUBSET Order /\ poll.found + more \in Nat
    BY <1>1
  <2> QED BY <1>1, <1>6, <2>1
<1>9. ASSUME NEW m \in poll'.ready PROVE inbox'[Forwarding[m]] /= <<>>
  <2>1. m \in poll.ready /\ m /= k
    BY <1>1, <1>6
  <2>2. m \in Order /\ Forwarding[m] \in ForwardNetids
    BY <1>1, <2>1 DEF ForwardNetids
  <2>3. Forwarding[m] /= Forwarding[k]
    BY <1>3, <2>1, <2>2, ForwardAssumption DEF Order
  <2> QED BY <1>1, <1>6, <2>1, <2>2, <2>3
<1>10. ASSUME NEW n \in ForwardNetids, NEW m \in 1 .. Len(inbox'[n])
       PROVE  \E l \in 1 .. Len(inbox[n]) : inbox'[n][m] = inbox[n][l]
  <2>1. CASE n = Forwarding[k]
    <3>1. inbox'[n] = Tail(q) /\ inbox[n] = q
      BY <1>1, <1>3, <1>6, <2>1
    <3> HIDE DEF q
    <3>2. Len(Tail(q)) = Len(q) - 1 /\ Len(q) \in Nat /\ m \in 1 .. Len(Tail(q))
      BY <1>4, <3>1, <1>10
    <3>3. Tail(q)[m] = q[m + 1] /\ m + 1 \in 1 .. Len(q)
      BY <1>4, <3>2
    <3> QED BY <3>1, <3>3
  <2>2. CASE n /= Forwarding[k]
    <3>1. inbox'[n] = inbox[n]
      BY <1>1, <1>3, <1>6, <2>2
    <3> QED BY <3>1, <1>10
  <2> QED BY <2>1, <2>2
<1> QED BY <1>2, <1>3, <1>4, <1>5, <1>7, <1>8, <1>9, <1>10, <1>1

(* An answer goes to the descriptor of its netid.                          *)
LEMMA ArrivesAt ==
  ASSUME Table, NEW c \in calls, NEW w \in {"result", "error"}, Arrives(c, w)
  PROVE  /\ inbox' \in [ForwardNetids -> Seq(AnswerType)]
         /\ \A k \in poll.ready : inbox'[Forwarding[k]] /= <<>>
         /\ \A n \in ForwardNetids : \A m \in 1 .. Len(inbox'[n]) :
              \/ \E l \in 1 .. Len(inbox[n]) : inbox'[n][m] = inbox[n][l]
              \/ inbox'[n][m].xid = c.xid /\ inbox'[n][m].of = c.of
<1>1. /\ poll.ready \subseteq Order /\ inbox \in [ForwardNetids -> Seq(AnswerType)]
      /\ \A k \in poll.ready : inbox[Forwarding[k]] /= <<>>
      /\ c.of.netid \in ForwardNetids
      /\ c \in [xid : 1 .. XIDS - 1, of : Requests, again : BOOLEAN]
  BY DEF Table, TypeOK, AnswerType
<1> DEFINE n0 == c.of.netid
           a  == [xid |-> c.xid, of |-> c.of, what |-> w]
           q  == inbox[n0]
<1>2. a \in AnswerType /\ a.xid = c.xid /\ a.of = c.of
  BY <1>1 DEF AnswerType
<1>3. inbox' = [inbox EXCEPT ![n0] = Append(q, a)]
  BY DEF Arrives
<1>4. q \in Seq(AnswerType) /\ n0 \in ForwardNetids
  BY <1>1
<1> HIDE DEF a, n0, q
<1>5. /\ Append(q, a) \in Seq(AnswerType) /\ Append(q, a) /= <<>>
      /\ Len(Append(q, a)) = Len(q) + 1 /\ Len(q) \in Nat
      /\ Append(q, a)[Len(q) + 1] = a
      /\ \A m \in 1 .. Len(q) : Append(q, a)[m] = q[m]
  BY <1>2, <1>4
<1>6. inbox' \in [ForwardNetids -> Seq(AnswerType)]
  BY <1>1, <1>3, <1>4, <1>5
<1>7. ASSUME NEW k \in poll.ready PROVE inbox'[Forwarding[k]] /= <<>>
  <2>1. Forwarding[k] \in ForwardNetids
    BY <1>1 DEF ForwardNetids
  <2> QED BY <1>1, <1>3, <1>4, <1>5, <2>1
<1>8. ASSUME NEW n \in ForwardNetids, NEW m \in 1 .. Len(inbox'[n])
      PROVE  \/ \E l \in 1 .. Len(inbox[n]) : inbox'[n][m] = inbox[n][l]
             \/ inbox'[n][m].xid = c.xid /\ inbox'[n][m].of = c.of
  <2>1. CASE n = n0
    <3>1. inbox'[n] = Append(q, a) /\ inbox[n] = q
      BY <1>1, <1>3, <1>4, <2>1 DEF q
    <3>2. m \in 1 .. Len(q) \/ m = Len(q) + 1
      BY <1>5, <1>8, <3>1
    <3> QED BY <1>2, <1>5, <3>1, <3>2
  <2>2. CASE n /= n0
    BY <1>1, <1>3, <1>4, <1>8, <2>2
  <2> QED BY <2>1, <2>2
<1> QED BY <1>6, <1>7, <1>8

(* Every request keeps the table as it should be.                          *)
LEMMA TableCallit == ASSUME Table, Callit PROVE Table'
<1>0. PICK r \in Requests : \E f : rpcbproc_callit_com(r, f)
  BY DEF Callit
<1>1. PICK f : rpcbproc_callit_com(r, f)
  BY <1>0
<1>2. /\ served' \in 0 .. MaxCalls /\ now' = now /\ inbox' = inbox /\ poll' = poll
      /\ FINFO' \in [Slots -> SlotType] /\ rpcb_rmtcalls' = Cardinality(Active(FINFO'))
      /\ \/ lastxid' = lastxid /\ calls' = calls /\ \A i \in Active(FINFO') : Kept(FINFO', i)
         \/ \E j \in Slots, k \in 0 .. Rounds - 1 : TakesSlot(r, j, k)
  BY <1>1, CallitCases
<1>3. /\ lastxid' \in 0 .. XIDS - 1 /\ rpcb_rmtcalls' \in 0 .. NFORWARD
      /\ calls' \subseteq [xid : 1 .. XIDS - 1, of : Requests, again : BOOLEAN]
      /\ \A c \in calls' : c.of.netid \in ForwardNetids
      /\ XidsFormed' /\ PendingCount' /\ ForwardedOnce'
  <2>1. CASE lastxid' = lastxid /\ calls' = calls /\ \A i \in Active(FINFO') : Kept(FINFO', i)
    <3>1. rpcb_rmtcalls' \in 0 .. NFORWARD /\ XidsFormed' /\ PendingCount' /\ ForwardedOnce'
      BY <1>2, <2>1, TableKept
    <3> QED BY <2>1, <3>1 DEF Table, TypeOK
  <2>2. ASSUME NEW j \in Slots, NEW k \in 0 .. Rounds - 1, TakesSlot(r, j, k)
        PROVE  /\ lastxid' \in 0 .. XIDS - 1 /\ rpcb_rmtcalls' \in 0 .. NFORWARD
               /\ calls' \subseteq [xid : 1 .. XIDS - 1, of : Requests, again : BOOLEAN]
               /\ \A c \in calls' : c.of.netid \in ForwardNetids
               /\ XidsFormed' /\ PendingCount' /\ ForwardedOnce'
    <3>1. /\ rpcb_rmtcalls' \in 0 .. NFORWARD /\ lastxid' \in 1 .. XIDS - 1
          /\ XidsFormed' /\ PendingCount' /\ ForwardedOnce'
      BY <1>2, <2>2, TableTaken
    <3> DEFINE c0 == [xid |-> lastxid' + j, of |-> r, again |-> FALSE]
    <3>2. lastxid' + j \in 1 .. XIDS - 1
      <4>1. NextRound(k) \in 1 .. Rounds - 1 /\ lastxid' = NextRound(k) * NFORWARD
        BY <2>2, NextRoundType DEF TakesSlot
      <4> QED BY <4>1, XidRange
    <3>3. c0 \in [xid : 1 .. XIDS - 1, of : Requests, again : BOOLEAN] /\ c0.of = r
      BY <3>2
    <3>4. calls' \subseteq calls \cup {c0} /\ r.netid \in ForwardNetids
      BY <2>2 DEF TakesSlot
    <3> HIDE DEF c0
    <3>5. /\ calls \subseteq [xid : 1 .. XIDS - 1, of : Requests, again : BOOLEAN]
          /\ \A c \in calls : c.of.netid \in ForwardNetids
      BY DEF Table, TypeOK
    <3>6. /\ calls' \subseteq [xid : 1 .. XIDS - 1, of : Requests, again : BOOLEAN]
          /\ \A c \in calls' : c.of.netid \in ForwardNetids
      BY <3>3, <3>4, <3>5
    <3>7. lastxid' \in 0 .. XIDS - 1
      BY <3>1, ForwardAssumption
    <3> QED BY <3>1, <3>6, <3>7
  <2> QED BY <1>2, <2>1, <2>2
<1>4. TypeOK'
  BY <1>2, <1>3 DEF Table, TypeOK, SlotType, Slots, Order, ForwardNetids, None
<1> QED BY <1>3, <1>4 DEF Table

(* The steps of services, the network and the clock leave it alone.        *)
LEMMA TableOutside ==
  ASSUME Table, Answer \/ AnswerFails \/ AnswerTwice \/ Tick \/ my_svc_run \/ UNCHANGED vars
  PROVE  Table'
<1>1. UNCHANGED <<FINFO, lastxid, rpcb_rmtcalls, served>>
  BY DEF Answer, AnswerFails, AnswerTwice, Tick, my_svc_run, Unserved, vars
<1>2. XidsFormed' /\ PendingCount' /\ ForwardedOnce'
  BY <1>1 DEF Table, XidsFormed, PendingCount, ForwardedOnce, Active, Rounds
<1>3. now' \in Nat
  BY DEF Table, TypeOK, Answer, AnswerFails, AnswerTwice, Tick, my_svc_run, Unserved, vars
<1>4. /\ calls' \subseteq [xid : 1 .. XIDS - 1, of : Requests, again : BOOLEAN]
      /\ \A c \in calls' : c.of.netid \in ForwardNetids
      /\ inbox' \in [ForwardNetids -> Seq(AnswerType)]
      /\ poll' \in [ready : SUBSET Order, found : Nat, pending : 0 .. NFORWARD]
      /\ \A k \in poll'.ready : inbox'[Forwarding[k]] /= <<>>
  <2>1. /\ calls \subseteq [xid : 1 .. XIDS - 1, of : Requests, again : BOOLEAN]
        /\ \A c \in calls : c.of.netid \in ForwardNetids
        /\ inbox \in [ForwardNetids -> Seq(AnswerType)]
        /\ poll \in [ready : SUBSET Order, found : Nat, pending : 0 .. NFORWARD]
        /\ \A k \in poll.ready : inbox[Forwarding[k]] /= <<>>
    BY DEF Table, TypeOK, AnswerType
  <2>2. CASE Answer \/ AnswerFails
    <3>1. PICK c \in calls, w \in {"result", "error"} :
            Arrives(c, w) /\ calls' = calls \ {c} /\ poll' = poll
      BY <2>2 DEF Answer, AnswerFails, Unserved
    <3> QED BY <2>1, <3>1, ArrivesAt
  <2>3. CASE AnswerTwice
    <3>1. PICK c \in calls : /\ Arrives(c, "result") /\ poll' = poll
                             /\ calls' = (calls \ {c}) \cup {[c EXCEPT !.again = TRUE]}
      BY <2>3 DEF AnswerTwice, Unserved
    <3>2. /\ [c EXCEPT !.again = TRUE] \in [xid : 1 .. XIDS - 1, of : Requests, again : BOOLEAN]
          /\ [c EXCEPT !.again = TRUE].of = c.of
      BY <2>1
    <3>3. /\ calls' \subseteq [xid : 1 .. XIDS - 1, of : Requests, again : BOOLEAN]
          /\ \A d \in calls' : d.of.netid \in ForwardNetids
      BY <2>1, <3>1, <3>2
    <3> QED BY <2>1, <3>1, <3>3, ArrivesAt
  <2>4. CASE Tick \/ UNCHANGED vars
    BY <2>1, <2>4 DEF Tick, vars
  <2>5. CASE my_svc_run
    <3>1. /\ calls' = calls /\ inbox' = inbox
          /\ poll' = [ready |-> {k \in Order : inbox[Forwarding[k]] /= <<>>}, found |-> 0,
                      pending |-> rpcb_rmtcalls]
      BY <2>5 DEF my_svc_run
    <3>2. rpcb_rmtcalls \in 0 .. NFORWARD
      BY DEF Table, TypeOK
    <3> QED BY <2>1, <3>1, <3>2
  <2> QED BY <2>2, <2>3, <2>4, <2>5
<1>5. TypeOK'
  BY <1>1, <1>3, <1>4 DEF Table, TypeOK, AnswerType, Slots, Order, ForwardNetids, None
<1> QED BY <1>2, <1>5 DEF Table

(* So do the ways of reading from a forwarding descriptor.                 *)
LEMMA TableReads ==
  ASSUME Table, check_rmtcalls \/ handle_reply_fails \/ svc_getreq_poll
  PROVE  Table'
<1>1. UNCHANGED <<lastxid, now, served, calls>> /\ poll.ready /= {}
  BY DEF check_rmtcalls, handle_reply_fails, svc_getreq_poll
<1> DEFINE k == First(poll.ready)
<1>2. PICK more \in 0 .. 1 : taken(k, more)
  BY DEF check_rmtcalls, handle_reply_fails, svc_getreq_poll
<1>3. /\ Head(inbox[Forwarding[k]]) \in AnswerType
      /\ inbox' \in [ForwardNetids -> Seq(AnswerType)]
      /\ poll' \in [ready : SUBSET Order, found : Nat, pending : 0 .. NFORWARD]
      /\ \A m \in poll'.ready : inbox'[Forwarding[m]] /= <<>>
  BY <1>1, <1>2, Takes
<1>4. /\ FINFO' \in [Slots -> SlotType] /\ rpcb_rmtcalls' = Cardinality(Active(FINFO'))
      /\ \A i \in Active(FINFO') : Kept(FINFO', i)
  <2>1. \/ FINFO' = FINFO /\ rpcb_rmtcalls' = rpcb_rmtcalls
        \/ \E x \in Nat : LET e == free_slot_by_xid(FINFO, rpcb_rmtcalls, x)
                          IN FINFO' = e.F /\ rpcb_rmtcalls' = e.n
    <3>1. CASE check_rmtcalls
      <4> DEFINE x == Head(inbox[Forwarding[k]]).xid
      <4>1. x \in Nat
        BY <1>3, ForwardAssumption DEF AnswerType
      <4>2. LET e == free_slot_by_xid(FINFO, rpcb_rmtcalls, x)
            IN FINFO' = e.F /\ rpcb_rmtcalls' = e.n
        BY <3>1, <1>2 DEF check_rmtcalls, handle_reply
      <4> QED BY <4>1, <4>2
    <3>2. CASE handle_reply_fails
      <4>1. PICK x \in 0 .. NFORWARD :
              LET e == IF x = 0 THEN [F |-> FINFO, n |-> rpcb_rmtcalls]
                       ELSE free_slot_by_xid(FINFO, rpcb_rmtcalls, x)
              IN FINFO' = e.F /\ rpcb_rmtcalls' = e.n
        BY <3>2 DEF handle_reply_fails
      <4>2. x \in Nat
        BY ForwardAssumption
      <4> QED BY <4>1, <4>2
    <3>3. CASE svc_getreq_poll
      BY <3>3 DEF svc_getreq_poll
    <3> QED BY <3>1, <3>2, <3>3
  <2>2. CASE FINFO' = FINFO /\ rpcb_rmtcalls' = rpcb_rmtcalls
    BY <2>2 DEF Table, TypeOK, SlotType, PendingCount, Kept
  <2>3. ASSUME NEW x \in Nat, NEW e, e = free_slot_by_xid(FINFO, rpcb_rmtcalls, x),
               FINFO' = e.F, rpcb_rmtcalls' = e.n
        PROVE  /\ FINFO' \in [Slots -> SlotType] /\ rpcb_rmtcalls' = Cardinality(Active(FINFO'))
               /\ \A i \in Active(FINFO') : Kept(FINFO', i)
    BY <2>3, FreedByXid
  <2> QED BY <2>1, <2>2, <2>3
<1>5. rpcb_rmtcalls' \in 0 .. NFORWARD /\ XidsFormed' /\ PendingCount' /\ ForwardedOnce'
  BY <1>1, <1>4, TableKept
<1>6. TypeOK'
  BY <1>1, <1>3, <1>4, <1>5
     DEF Table, TypeOK, AnswerType, SlotType, Slots, Order, ForwardNetids, None
<1> QED BY <1>5, <1>6 DEF Table

(* Whatever frees a slot - an answer, an answer to another call, a failing *)
(* step, the time, or a new request that finds no other - the count of     *)
(* pending calls by which check_rmtcalls looks for answers stays right,    *)
(* every request is forwarded once, and the table keeps its type.          *)
THEOREM ForwardingTable == Spec => [](TypeOK /\ PendingCount /\ SlotEncoded /\ ForwardedOnce)
<1>1. Init => Table
  BY TableInit
<1>2. Table /\ [Next]_vars => Table'
  <2> SUFFICES ASSUME Table, [Next]_vars PROVE Table'
    OBVIOUS
  <2>1. CASE Callit
    BY <2>1, TableCallit
  <2>2. CASE Answer \/ AnswerFails \/ AnswerTwice \/ Tick \/ my_svc_run \/ UNCHANGED vars
    BY <2>2, TableOutside
  <2>3. CASE check_rmtcalls \/ handle_reply_fails \/ svc_getreq_poll
    BY <2>3, TableReads
  <2> QED BY <2>1, <2>2, <2>3 DEF Next, Run
<1>3. Table => TypeOK /\ PendingCount /\ SlotEncoded /\ ForwardedOnce
  <2> SUFFICES ASSUME Table PROVE SlotEncoded
    BY DEF Table
  <2> SUFFICES ASSUME NEW i \in Active(FINFO)
               PROVE  FINFO[i].forward_xid /= 0 /\ FINFO[i].forward_xid % NFORWARD = i
    BY DEF SlotEncoded
  <2>1. PICK k \in 1 .. Rounds - 1 : FINFO[i].forward_xid = k * NFORWARD + i
    BY DEF Table, XidsFormed
  <2>2. i \in Slots /\ k \in Nat
    BY RoundsOf DEF Active
  <2>3. (k * NFORWARD + i) % NFORWARD = i
    BY <2>2, XidParts
  <2>4. k * NFORWARD + i \in 1 .. XIDS - 1
    BY <2>2, XidRange
  <2> QED BY <2>1, <2>3, <2>4
<1> QED BY <1>1, <1>2, <1>3, PTL DEF Spec

-----------------------------------------------------------------------------
(* Answers.                                                                *)

(* What arrives was asked, and what is read was there.                     *)
LEMMA UnderWayShrinks ==
  ASSUME \A c \in calls' : \E d \in calls : c.xid = d.xid /\ c.of = d.of,
         \A n \in ForwardNetids : \A m \in 1 .. Len(inbox'[n]) :
           \/ \E l \in 1 .. Len(inbox[n]) : inbox'[n][m] = inbox[n][l]
           \/ \E d \in calls : inbox'[n][m].xid = d.xid /\ inbox'[n][m].of = d.of
  PROVE  UnderWay' \subseteq UnderWay
<1> SUFFICES ASSUME NEW u \in UnderWay' PROVE u \in UnderWay
  OBVIOUS
<1>1. CASE \E c \in calls' : u = [xid |-> c.xid, of |-> c.of]
  BY <1>1 DEF UnderWay
<1>2. ASSUME NEW n \in ForwardNetids, NEW m \in 1 .. Len(inbox'[n]),
             u = [xid |-> inbox'[n][m].xid, of |-> inbox'[n][m].of]
      PROVE  u \in UnderWay
  <2>1. CASE \E l \in 1 .. Len(inbox[n]) : inbox'[n][m] = inbox[n][l]
    BY <1>2, <2>1 DEF UnderWay
  <2>2. CASE \E d \in calls : inbox'[n][m].xid = d.xid /\ inbox'[n][m].of = d.of
    BY <1>2, <2>2 DEF UnderWay
  <2> QED BY <1>2, <2>1, <2>2
<1>3. \/ \E c \in calls' : u = [xid |-> c.xid, of |-> c.of]
      \/ \E n \in ForwardNetids : \E m \in 1 .. Len(inbox'[n]) :
           u = [xid |-> inbox'[n][m].xid, of |-> inbox'[n][m].of]
  BY DEF UnderWay, ForwardNetids, Order
<1> QED BY <1>1, <1>2, <1>3

(* As long as no slot is taken, what is known of answers stays known.      *)
LEMMA KnownKept ==
  ASSUME AnswersKnown, UnderWay' \subseteq UnderWay, lastxid' = lastxid,
         served \in Int, served' \in Int, served <= served',
         \A i \in Active(FINFO') : Kept(FINFO', i)
  PROVE  AnswersKnown'
<1>1. \A i \in Active(FINFO') : /\ i \in Active(FINFO) /\ FINFO'[i].of = FINFO[i].of
                                /\ FINFO'[i].forward_xid = FINFO[i].forward_xid
  BY DEF Kept
<1> SUFFICES ASSUME NEW u \in UnderWay'
             PROVE  /\ Recent(u.xid)'
                    /\ \A i \in Active(FINFO') : FINFO'[i].forward_xid = u.xid => FINFO'[i].of = u.of
  BY DEF AnswersKnown, Active
<1>2. /\ Recent(u.xid)
      /\ \A i \in Active(FINFO) : FINFO[i].forward_xid = u.xid => FINFO[i].of = u.of
  BY DEF AnswersKnown
<1>3. PICK k \in 1 .. Rounds - 2, l \in 1 .. Rounds - 2, i \in Slots :
        u.xid = k * NFORWARD + i /\ lastxid = l * NFORWARD /\ Age(k, l) < served
  BY <1>2 DEF Recent
<1>4. Age(k, l) \in Int
  BY RoundsOf DEF Age
<1>5. Age(k, l) < served'
  BY <1>3, <1>4
<1>6. \E a, b \in 1 .. Rounds - 2, j \in Slots :
        u.xid = a * NFORWARD + j /\ lastxid' = b * NFORWARD /\ Age(a, b) < served'
  BY <1>3, <1>5
<1>7. Recent(u.xid)'
  BY <1>6 DEF Recent, Slots, Rounds, Age
<1> QED BY <1>1, <1>2, <1>7

(* The round that follows is new: none of the last calls has it, and each  *)
(* of them is one call older.                                              *)
LEMMA RoundIsNew ==
  ASSUME XidsSuffice, NEW k \in 1 .. Rounds - 2, NEW l \in 1 .. Rounds - 2,
         NEW s \in Nat, s < MaxCalls, Age(k, l) < s
  PROVE  /\ NextRound(l) \in 1 .. Rounds - 2 /\ k /= NextRound(l)
         /\ Age(k, NextRound(l)) < s + 1
<1>1. Rounds \in Nat /\ XIDS = Rounds * NFORWARD
  BY RoundsOf
<1>2. MaxCalls \in Nat /\ NFORWARD \in Nat /\ NFORWARD > 0
  BY ForwardAssumption
<1>3. MaxCalls + 2 <= Rounds
  BY <1>1, <1>2 DEF XidsSuffice
<1> QED BY <1>1, <1>2, <1>3 DEF Age, NextRound

(* A call that takes a slot has an xid no answer under way has.            *)
LEMMA KnownTaken ==
  ASSUME XidsSuffice, Table, AnswersKnown, served < MaxCalls, served' = served + 1, inbox' = inbox,
         NEW r \in Requests, NEW j \in Slots, NEW k \in 0 .. Rounds - 1, TakesSlot(r, j, k)
  PROVE  AnswersKnown'
<1>0. served \in Nat /\ MaxCalls \in Nat /\ Rounds \in Nat /\ Rounds >= 3
  <2>1. served \in Nat /\ MaxCalls \in Nat /\ NFORWARD \in Nat /\ NFORWARD > 0
    BY ForwardAssumption DEF Table, TypeOK
  <2>2. Rounds \in Nat /\ XIDS = Rounds * NFORWARD
    BY RoundsOf
  <2>3. MaxCalls + 2 <= Rounds
    BY <2>1, <2>2 DEF XidsSuffice
  <2> QED BY <2>1, <2>2, <2>3
<1> DEFINE n  == NextRound(k)
           u0 == [xid |-> lastxid' + j, of |-> r]
           c0 == [xid |-> lastxid' + j, of |-> r, again |-> FALSE]
<1>1. n \in 1 .. Rounds - 2 /\ n \in Nat /\ lastxid' = n * NFORWARD
  BY <1>0, NextRoundType DEF TakesSlot
<1>2. \A i \in Active(FINFO') :
        \/ /\ i /= j /\ i \in Active(FINFO) /\ FINFO'[i].of = FINFO[i].of
           /\ FINFO'[i].forward_xid = FINFO[i].forward_xid
        \/ i = j /\ FINFO'[i].of = r /\ FINFO'[i].forward_xid = lastxid' + j
  BY DEF Kept, TakesSlot
<1>3. UnderWay' \subseteq UnderWay \cup {u0}
  <2>1. calls' \subseteq calls \cup {c0}
    BY DEF TakesSlot
  <2>2. ASSUME NEW u \in UnderWay' PROVE u \in UnderWay \cup {u0}
    <3>1. \/ \E c \in calls' : u = [xid |-> c.xid, of |-> c.of]
          \/ \E m \in ForwardNetids : \E a \in 1 .. Len(inbox[m]) :
               u = [xid |-> inbox[m][a].xid, of |-> inbox[m][a].of]
      BY <2>2 DEF UnderWay, ForwardNetids, Order
    <3>2. CASE \E c \in calls' : u = [xid |-> c.xid, of |-> c.of]
      BY <2>1, <3>2 DEF UnderWay
    <3>3. CASE \E m \in ForwardNetids : \E a \in 1 .. Len(inbox[m]) :
               u = [xid |-> inbox[m][a].xid, of |-> inbox[m][a].of]
      BY <3>3 DEF UnderWay
    <3> QED BY <3>1, <3>2, <3>3
  <2> QED BY <2>2
<1> HIDE DEF n
<1>4. ASSUME NEW u \in UnderWay PROVE u.xid /= lastxid' + j /\ Recent(u.xid)'
  <2>1. PICK a \in 1 .. Rounds - 2, b \in 1 .. Rounds - 2, i \in Slots :
          u.xid = a * NFORWARD + i /\ lastxid = b * NFORWARD /\ Age(a, b) < served
    BY DEF AnswersKnown, Recent
  <2>2. a \in Nat /\ b \in Nat /\ k \in Nat
    BY <1>0
  <2>3. 0 \in Slots
    BY ForwardAssumption DEF Slots
  <2>4. b = k
    <3>1. lastxid /= 0
      <4>1. b \in 1 .. Rounds - 1
        BY <1>0
      <4>2. b * NFORWARD \in 1 .. XIDS - 1
        BY <4>1, <2>3, XidRange
      <4> QED BY <2>1, <4>2
    <3>2. lastxid = k * NFORWARD
      BY <3>1 DEF TakesSlot
    <3>3. b * NFORWARD + 0 = k * NFORWARD + 0
      BY <2>1, <3>2
    <3> QED BY <2>2, <2>3, <3>3, XidParts
  <2>5. n \in 1 .. Rounds - 2 /\ a /= n /\ Age(a, n) < served + 1
    BY <1>0, <2>1, <2>4, RoundIsNew DEF n
  <2>6. u.xid /= lastxid' + j
    BY <1>1, <2>1, <2>2, <2>5, XidParts
  <2>7. \E c, d \in 1 .. Rounds - 2, h \in Slots :
          u.xid = c * NFORWARD + h /\ lastxid' = d * NFORWARD /\ Age(c, d) < served'
    BY <1>1, <2>1, <2>5
  <2>8. Recent(u.xid)'
    BY <2>7 DEF Recent, Slots, Rounds, Age
  <2> QED BY <2>6, <2>8
<1>5. ASSUME NEW x, x = lastxid' + j PROVE Recent(x)'
  <2>1. Age(n, n) < served'
    BY <1>0, <1>1 DEF Age
  <2>2. \E c, d \in 1 .. Rounds - 2, h \in Slots :
          x = c * NFORWARD + h /\ lastxid' = d * NFORWARD /\ Age(c, d) < served'
    BY <1>1, <1>5, <2>1
  <2> QED BY <2>2 DEF Recent, Slots, Rounds, Age
<1>6. ASSUME NEW i \in Active(FINFO), i /= j PROVE FINFO[i].forward_xid /= lastxid' + j
  <2>1. PICK a \in 1 .. Rounds - 1 : FINFO[i].forward_xid = a * NFORWARD + i
    BY DEF Table, XidsFormed
  <2>2. i \in Slots /\ a \in Nat
    BY <1>0 DEF Active
  <2> QED BY <1>1, <1>6, <2>1, <2>2, XidParts
<1> SUFFICES ASSUME NEW u \in UnderWay'
             PROVE  /\ Recent(u.xid)'
                    /\ \A i \in Active(FINFO') : FINFO'[i].forward_xid = u.xid => FINFO'[i].of = u.of
  BY DEF AnswersKnown, Active
<1>7. CASE u = u0
  <2>1. u.xid = lastxid' + j /\ u.of = r
    BY <1>7
  <2>2. Recent(u.xid)'
    BY <1>5, <2>1
  <2>3. ASSUME NEW i \in Active(FINFO'), FINFO'[i].forward_xid = u.xid PROVE FINFO'[i].of = u.of
    BY <1>2, <1>6, <2>1, <2>3
  <2> QED BY <2>2, <2>3
<1>8. CASE u \in UnderWay
  <2>1. \A i \in Active(FINFO) : FINFO[i].forward_xid = u.xid => FINFO[i].of = u.of
    BY <1>8 DEF AnswersKnown
  <2> QED BY <1>2, <1>4, <1>8, <2>1
<1> QED BY <1>3, <1>7, <1>8

(* A reply is sent for the request whose answer was read.                  *)
LEMMA RightReply ==
  ASSUME Table, AnswersKnown, check_rmtcalls
  PROVE  \A s \in sent' : s.what = "result" => /\ s.of.addr = s.to /\ s.of.xid = s.xid
                                               /\ s.of.type = s.type
<1> DEFINE k == First(poll.ready)
           d == Head(inbox[Forwarding[k]])
           u == [xid |-> d.xid, of |-> d.of]
<1>1. poll.ready /= {} /\ taken(k, 1) /\ handle_reply(d)
  BY DEF check_rmtcalls
<1>2. /\ Forwarding[k] \in ForwardNetids /\ inbox[Forwarding[k]] /= <<>>
      /\ d = inbox[Forwarding[k]][1] /\ d \in AnswerType
  BY <1>1, Takes
<1>3. u \in UnderWay /\ u.xid = d.xid /\ u.of = d.of
  <2>1. inbox[Forwarding[k]] \in Seq(AnswerType)
    BY <1>2 DEF Table, TypeOK, AnswerType
  <2>2. 1 \in 1 .. Len(inbox[Forwarding[k]])
    BY <1>2, <2>1
  <2> QED BY <1>2, <2>2 DEF UnderWay
<1>4. \A i \in Active(FINFO) : FINFO[i].forward_xid = d.xid => FINFO[i].of = d.of
  BY <1>3 DEF AnswersKnown
<1>5. sent' = UNION {reply_to(fi, d) : fi \in forward_find(FINFO, d.xid)}
  BY <1>1 DEF handle_reply
<1>6. d.xid \in Nat
  BY <1>2, ForwardAssumption DEF AnswerType
<1> HIDE DEF d
<1> SUFFICES ASSUME NEW s \in sent', s.what = "result"
             PROVE  s.of.addr = s.to /\ s.of.xid = s.xid /\ s.of.type = s.type
  OBVIOUS
<1>7. PICK fi \in forward_find(FINFO, d.xid) : s \in reply_to(fi, d)
  BY <1>5
<1>8. fi \in Active(FINFO) /\ FINFO[fi].of = d.of
  <2>1. d.xid % NFORWARD \in Slots
    BY <1>6, ForwardAssumption DEF Slots
  <2>2. fi = d.xid % NFORWARD /\ FINFO[fi].active /\ FINFO[fi].forward_xid = d.xid
    BY DEF forward_find
  <2>3. fi \in Active(FINFO)
    BY <2>1, <2>2 DEF Active
  <2> QED BY <1>4, <2>2, <2>3
<1>9. s \in answered(FINFO[fi].of, "result", d.of)
  <2>1. CASE d.what = "error"
    <3>1. s \in complaint(FINFO[fi].of, "systemerr")
      BY <1>7, <2>1 DEF reply_to
    <3> QED BY <3>1, Complaints
  <2>2. CASE d.what /= "error"
    BY <1>7, <2>2 DEF reply_to
  <2> QED BY <2>1, <2>2
<1> QED BY <1>8, <1>9 DEF answered

(* No other step knows more of answers than was known, or sends a result.  *)
LEMMA KnownOutside ==
  ASSUME Table, AnswersKnown, RightRequestor, Next \/ UNCHANGED vars, ~Callit
  PROVE  AnswersKnown' /\ RightRequestor'
<1>0. lastxid' = lastxid /\ served' = served /\ served \in Int
  BY DEF Table, TypeOK, Next, Run, Answer, AnswerFails, AnswerTwice, Tick, my_svc_run, Unserved,
         check_rmtcalls, handle_reply_fails, svc_getreq_poll, vars
<1>1. CASE Answer \/ AnswerFails \/ AnswerTwice
  <2>1. PICK c \in calls, w \in {"result", "error"} :
          /\ Arrives(c, w) /\ FINFO' = FINFO /\ sent' = {}
          /\ calls' \subseteq calls \cup {[c EXCEPT !.again = TRUE]}
    BY <1>1 DEF Answer, AnswerFails, AnswerTwice, Unserved
  <2>2. \A n \in ForwardNetids : \A m \in 1 .. Len(inbox'[n]) :
          \/ \E l \in 1 .. Len(inbox[n]) : inbox'[n][m] = inbox[n][l]
          \/ inbox'[n][m].xid = c.xid /\ inbox'[n][m].of = c.of
    BY <2>1, ArrivesAt
  <2>3. [c EXCEPT !.again = TRUE].xid = c.xid /\ [c EXCEPT !.again = TRUE].of = c.of
    BY DEF Table, TypeOK
  <2>4. UnderWay' \subseteq UnderWay
    <3>1. \A b \in calls' : \E d \in calls : b.xid = d.xid /\ b.of = d.of
      BY <2>1, <2>3
    <3>2. \A n \in ForwardNetids : \A m \in 1 .. Len(inbox'[n]) :
            \/ \E l \in 1 .. Len(inbox[n]) : inbox'[n][m] = inbox[n][l]
            \/ \E d \in calls : inbox'[n][m].xid = d.xid /\ inbox'[n][m].of = d.of
      BY <2>2
    <3> QED BY <3>1, <3>2, UnderWayShrinks
  <2>5. \A i \in Active(FINFO') : Kept(FINFO', i)
    BY <2>1 DEF Kept
  <2>6. AnswersKnown'
    BY <1>0, <2>4, <2>5, KnownKept
  <2> QED BY <2>1, <2>6 DEF RightRequestor
<1>2. CASE Tick \/ my_svc_run \/ UNCHANGED vars
  <2>1. calls' = calls /\ inbox' = inbox /\ FINFO' = FINFO /\ (sent' = {} \/ sent' = sent)
    BY <1>2 DEF Tick, my_svc_run, vars
  <2>2. UnderWay' \subseteq UnderWay
    BY <2>1 DEF UnderWay, ForwardNetids, Order
  <2>3. \A i \in Active(FINFO') : Kept(FINFO', i)
    BY <2>1 DEF Kept
  <2>4. AnswersKnown'
    BY <1>0, <2>2, <2>3, KnownKept
  <2> QED BY <2>1, <2>4 DEF RightRequestor
<1>3. CASE check_rmtcalls \/ handle_reply_fails \/ svc_getreq_poll
  <2> DEFINE k == First(poll.ready)
  <2>1. calls' = calls /\ poll.ready /= {} /\ \E more \in 0 .. 1 : taken(k, more)
    BY <1>3 DEF check_rmtcalls, handle_reply_fails, svc_getreq_poll
  <2>2. /\ Head(inbox[Forwarding[k]]) \in AnswerType
        /\ \A n \in ForwardNetids : \A m \in 1 .. Len(inbox'[n]) :
             \E l \in 1 .. Len(inbox[n]) : inbox'[n][m] = inbox[n][l]
    BY <2>1, Takes
  <2>3. UnderWay' \subseteq UnderWay
    BY <2>1, <2>2, UnderWayShrinks
  <2>4. \A i \in Active(FINFO') : Kept(FINFO', i)
    <3>1. CASE check_rmtcalls
      <4> DEFINE x == Head(inbox[Forwarding[k]]).xid
                 e == free_slot_by_xid(FINFO, rpcb_rmtcalls, x)
      <4>1. x \in Nat
        BY <2>2, ForwardAssumption DEF AnswerType
      <4>2. FINFO' = e.F
        BY <3>1 DEF check_rmtcalls, handle_reply
      <4>3. \A i \in Active(e.F) : Kept(e.F, i)
        BY <4>1, FreedByXid
      <4> QED BY <4>2, <4>3
    <3>2. CASE handle_reply_fails
      <4>1. PICK x \in 0 .. NFORWARD :
              FINFO' = FINFO \/ FINFO' = free_slot_by_xid(FINFO, rpcb_rmtcalls, x).F
        BY <3>2 DEF handle_reply_fails
      <4>2. x \in Nat
        BY ForwardAssumption
      <4> DEFINE e == free_slot_by_xid(FINFO, rpcb_rmtcalls, x)
      <4>3. \A i \in Active(e.F) : Kept(e.F, i)
        BY <4>2, FreedByXid
      <4>4. CASE FINFO' = FINFO
        BY <4>4 DEF Kept
      <4>5. CASE FINFO' = e.F
        BY <4>3, <4>5
      <4> QED BY <4>1, <4>4, <4>5
    <3>3. CASE svc_getreq_poll
      BY <3>3 DEF svc_getreq_poll, Kept
    <3> QED BY <1>3, <3>1, <3>2, <3>3
  <2>5. AnswersKnown'
    BY <1>0, <2>3, <2>4, KnownKept
  <2>6. RightRequestor'
    <3>1. CASE check_rmtcalls
      BY <3>1, RightReply DEF RightRequestor
    <3>2. CASE handle_reply_fails \/ svc_getreq_poll
      BY <3>2 DEF handle_reply_fails, svc_getreq_poll, RightRequestor
    <3> QED BY <1>3, <3>1, <3>2
  <2> QED BY <2>5, <2>6
<1> QED BY <1>1, <1>2, <1>3 DEF Next, Run

(* A request, whether it is refused, waits already or takes a slot, sends  *)
(* no result, and what it forwards is told from what is under way.         *)
LEMMA KnownCallit ==
  ASSUME XidsSuffice, Table, AnswersKnown, Callit
  PROVE  AnswersKnown' /\ RightRequestor'
<1>0. PICK r \in Requests : \E f : rpcbproc_callit_com(r, f)
  BY DEF Callit
<1>1. PICK f : rpcbproc_callit_com(r, f)
  BY <1>0
<1>2. /\ served' = served + 1 /\ inbox' = inbox
      /\ \A s \in sent' : s.what /= "result"
      /\ \/ lastxid' = lastxid /\ calls' = calls /\ \A i \in Active(FINFO') : Kept(FINFO', i)
         \/ \E j \in Slots, k \in 0 .. Rounds - 1 : TakesSlot(r, j, k)
  BY <1>1, CallitCases
<1>3. served < MaxCalls /\ served \in Nat
  <2>1. served < MaxCalls
    BY <1>1 DEF rpcbproc_callit_com
  <2>2. served \in Nat
    BY ForwardAssumption DEF Table, TypeOK
  <2> QED BY <2>1, <2>2
<1>4. RightRequestor'
  BY <1>2 DEF RightRequestor
<1>5. CASE lastxid' = lastxid /\ calls' = calls /\ \A i \in Active(FINFO') : Kept(FINFO', i)
  <2>1. UnderWay' \subseteq UnderWay
    BY <1>2, <1>5 DEF UnderWay, ForwardNetids, Order
  <2>2. served \in Int /\ served' \in Int /\ served <= served'
    BY <1>2, <1>3
  <2>3. AnswersKnown'
    BY <1>5, <2>1, <2>2, KnownKept
  <2> QED BY <1>4, <2>3
<1>6. ASSUME NEW j \in Slots, NEW k \in 0 .. Rounds - 1, TakesSlot(r, j, k)
      PROVE  AnswersKnown'
  BY <1>2, <1>3, <1>6, KnownTaken
<1> QED BY <1>2, <1>4, <1>5, <1>6

(* As long as the transaction ids suffice for the requests served, however *)
(* late and often services answer and however slots are used again, what a *)
(* caller is sent is the result of its own request; and the table is as    *)
(* ForwardingTable has it (forward_register, handle_reply).                *)
THEOREM AnswersGoBack == ASSUME XidsSuffice PROVE Spec => []ForwardingSound
<1> DEFINE Safe == Table /\ AnswersKnown /\ RightRequestor
<1>1. Init => Safe
  <2>1. Init => AnswersKnown
    BY DEF Init, AnswersKnown, UnderWay
  <2>2. Init => RightRequestor
    BY DEF Init, RightRequestor
  <2> QED BY <2>1, <2>2, TableInit
<1>2. Safe /\ [Next]_vars => Safe'
  <2> SUFFICES ASSUME Safe, [Next]_vars PROVE Safe'
    OBVIOUS
  <2>1. CASE Callit
    BY <2>1, TableCallit, KnownCallit
  <2>2. CASE ~Callit
    <3>1. Table'
      <4>1. CASE Answer \/ AnswerFails \/ AnswerTwice \/ Tick \/ my_svc_run \/ UNCHANGED vars
        BY <4>1, TableOutside
      <4>2. CASE check_rmtcalls \/ handle_reply_fails \/ svc_getreq_poll
        BY <4>2, TableReads
      <4> QED BY <2>2, <4>1, <4>2 DEF Next, Run
    <3> QED BY <2>2, <3>1, KnownOutside
  <2> QED BY <2>1, <2>2
<1>3. Spec => []Safe
  BY <1>1, <1>2, PTL DEF Spec
<1>4. Spec => [](TypeOK /\ PendingCount /\ SlotEncoded /\ ForwardedOnce)
  BY ForwardingTable
<1>5. Safe /\ (TypeOK /\ PendingCount /\ SlotEncoded /\ ForwardedOnce) => ForwardingSound
  BY DEF ForwardingSound
<1> QED BY <1>3, <1>4, <1>5, PTL

-----------------------------------------------------------------------------
(* The registrations.                                                      *)
CONSTANTS Transports, Callers, Progs, Vers, Netids, Addrs, Mortal, Signals, MaxEntries
VARIABLES rbl, list_pml, pc, RPCBFILE, PMAPFILE, dead, last

RG == INSTANCE RpcbRegistry WITH list_rbl <- rbl

(* The cardinality of the instance is the cardinality.                     *)
LEMMA SameCardinality == \A S : RG!Cardinality(S) = Cardinality(S)
  BY DEF RG!Cardinality, Cardinality

(* The f[k]th element of s is the kth that is kept.                        *)
Selects(f, K, s, I) ==
  /\ f \in [1 .. Len(K) -> I] /\ \A k \in 1 .. Len(K) : K[k] = s[f[k]]
  /\ \A i \in I : \E k \in 1 .. Len(K) : f[k] = i
  /\ \A k, l \in 1 .. Len(K) : k < l => f[k] < f[l]

(* Keep leaves the elements at the indices I in their order.               *)
LEMMA KeepsInOrder ==
  ASSUME NEW S, NEW s \in Seq(S), NEW I, I \subseteq 1 .. Len(s)
  PROVE  RG!Keep(s, I) \in Seq(S) /\ \E f : Selects(f, RG!Keep(s, I), s, I)
<1> DEFINE r == [i \in I |-> Cardinality({j \in I : j <= i})]
           n == Cardinality(I)
           nth(k) == CHOOSE i \in I : RG!Cardinality({j \in I : j <= i}) = k
           f == [k \in 1 .. n |-> nth(k)]
           K == [k \in 1 .. n |-> s[nth(k)]]
<1>1. IsFiniteSet(I) /\ I \subseteq Nat
  <2>1. Len(s) \in Nat
    OBVIOUS
  <2>2. IsFiniteSet(1 .. Len(s))
    BY <2>1, FS_Interval
  <2>3. I \in SUBSET (1 .. Len(s))
    OBVIOUS
  <2>4. IsFiniteSet(I)
    BY <2>2, <2>3, FS_Subset
  <2>5. ASSUME NEW i \in I PROVE i \in Nat
    BY <2>1
  <2> QED BY <2>4, <2>5
<1>2. n \in Nat
  BY <1>1, FS_CardinalityType
<1>3. RG!Keep(s, I) = K
  <2>1. RG!Keep(s, I) = [k \in 1 .. RG!Cardinality(I) |-> s[nth(k)]]
    BY Zenon DEF RG!Keep
  <2>2. RG!Cardinality(I) = n
    BY SameCardinality
  <2> QED BY <2>1, <2>2, Zenon
<1>4. \A i \in I : IsFiniteSet({j \in I : j <= i}) /\ r[i] \in Nat /\ r[i] <= n
  <2> SUFFICES ASSUME NEW i \in I
               PROVE  IsFiniteSet({j \in I : j <= i}) /\ r[i] \in Nat /\ r[i] <= n
    OBVIOUS
  <2> DEFINE B == {j \in I : j <= i}
  <2>1. B \in SUBSET I
    OBVIOUS
  <2>2. IsFiniteSet(B) /\ Cardinality(B) <= Cardinality(I)
    BY <1>1, <2>1, FS_Subset
  <2>3. Cardinality(B) \in Nat
    BY <2>2, FS_CardinalityType
  <2> QED BY <2>2, <2>3
<1>5. \A i, j \in I : i < j => r[i] < r[j]
  <2> SUFFICES ASSUME NEW i \in I, NEW j \in I, i < j PROVE r[i] < r[j]
    OBVIOUS
  <2> DEFINE B == {x \in I : x <= i}
             C == {x \in I : x <= j}
  <2>1. i \in Nat /\ j \in Nat
    BY <1>1
  <2>2. B \subseteq C /\ j \in C /\ j \notin B
    <3>1. j \in C /\ j \notin B
      BY <2>1
    <3>2. ASSUME NEW x \in B PROVE x \in C
      <4>1. x \in I /\ x \in Nat /\ x <= i
        BY <1>1
      <4> QED BY <2>1, <4>1
    <3> QED BY <3>1, <3>2
  <2>3. IsFiniteSet(C) /\ IsFiniteSet(B)
    BY <1>4
  <2>4. Cardinality(B) <= Cardinality(C) /\ (Cardinality(C) = Cardinality(B) => C = B)
    BY <2>2, <2>3, FS_Subset
  <2>5. Cardinality(B) \in Nat /\ Cardinality(C) \in Nat
    BY <2>3, FS_CardinalityType
  <2>6. Cardinality(B) < Cardinality(C)
    BY <2>2, <2>4, <2>5
  <2> QED BY <2>6
<1>6. \A i \in I : r[i] >= 1
  <2> SUFFICES ASSUME NEW i \in I PROVE r[i] >= 1
    OBVIOUS
  <2> DEFINE B == {x \in I : x <= i}
  <2>1. i \in B
    BY <1>1
  <2>2. IsFiniteSet(B) /\ Cardinality(B) \in Nat
    BY <1>4
  <2>3. Cardinality(B) /= 0
    BY <2>1, <2>2, FS_EmptySet
  <2> QED BY <2>2, <2>3
<1>7. r \in [I -> 1 .. n]
  BY <1>2, <1>4, <1>6
<1>8. ASSUME NEW i \in I, NEW j \in I, r[i] = r[j] PROVE i = j
  <2>1. i \in Nat /\ j \in Nat /\ r[i] \in Nat /\ r[j] \in Nat
    BY <1>1, <1>4
  <2> HIDE DEF r
  <2>2. ~(i < j) /\ ~(j < i)
    BY <1>5, <1>8, <2>1
  <2> QED BY <2>1, <2>2
<1>9. \A k \in 1 .. n : \E i \in I : r[i] = k
  <2>1. r \in Injection(I, 1 .. n)
    BY <1>7, <1>8 DEF Injection, IsInjective
  <2>2. IsFiniteSet(1 .. n) /\ Cardinality(1 .. n) = n
    BY <1>2, FS_Interval
  <2>3. r \in Surjection(I, 1 .. n)
    BY <2>1, <2>2, FS_Injection
  <2> QED BY <2>3 DEF Surjection
<1>10. \A i \in I : r[i] = RG!Cardinality({j \in I : j <= i})
  BY SameCardinality, Zenon
<1> HIDE DEF r, n
<1>11. \A k \in 1 .. n : nth(k) \in I /\ r[nth(k)] = k
  <2> SUFFICES ASSUME NEW k \in 1 .. n PROVE nth(k) \in I /\ r[nth(k)] = k
    OBVIOUS
  <2>1. \E i \in I : RG!Cardinality({j \in I : j <= i}) = k
    BY <1>9, <1>10
  <2>2. nth(k) \in I /\ RG!Cardinality({j \in I : j <= nth(k)}) = k
    BY <2>1, Zenon
  <2> QED BY <1>10, <2>2
<1> HIDE DEF nth
<1>12. f \in [1 .. n -> I] /\ \A k \in 1 .. n : f[k] = nth(k)
  BY <1>11
<1>13. \A k \in 1 .. n : K[k] = s[f[k]] /\ s[f[k]] \in S
  <2>1. ASSUME NEW k \in 1 .. n PROVE f[k] \in 1 .. Len(s)
    BY <1>11, <1>12
  <2> QED BY <1>12, <2>1
<1>14. K \in Seq(S) /\ Len(K) = n
  BY <1>2, <1>13
<1>15. \A i \in I : \E k \in 1 .. n : f[k] = i
  BY <1>7, <1>8, <1>11, <1>12
<1>16. ASSUME NEW k \in 1 .. n, NEW l \in 1 .. n, k < l PROVE f[k] < f[l]
  <2>1. f[k] \in I /\ f[l] \in I /\ r[f[k]] = k /\ r[f[l]] = l /\ f[k] \in Nat /\ f[l] \in Nat
    BY <1>1, <1>11, <1>12
  <2>2. f[k] /= f[l] /\ ~(f[l] < f[k])
    BY <1>2, <1>5, <1>16, <2>1
  <2> QED BY <2>1, <2>2
<1>17. Selects(f, K, s, I)
  <2> HIDE DEF f, K
  <2> QED BY <1>12, <1>13, <1>14, <1>15, <1>16 DEF Selects
<1> HIDE DEF f, K
<1>18. \E g : Selects(g, K, s, I)
  BY <1>17
<1> QED BY <1>3, <1>14, <1>18

RegName  == Netids \cup {"tcp", "udp", "local"}
RegOwner == {"superuser", "unknown"} \cup {c.user : c \in Callers}
RegUser  == {"root"} \cup {c.user : c \in Callers}
RegEntry == [prog : Progs \cup {RG!RPCBPROG}, vers : Vers \cup {2, 3, 4}, netid : RegName,
             addr : Addrs \cup {RG!PMAPPORT}, owner : RegOwner, by : RegUser]
PmapEntry == [prog : Progs \cup {RG!RPCBPROG}, vers : Vers \cup {2, 3, 4}, prot : {"TCP", "UDP"},
              port : Addrs \cup {RG!PMAPPORT}]
UnsetReq == [op : {"unset"}, prog : Progs, vers : Vers, todo : Seq(Netids \cup {"tcp", "udp", RG!NoName}),
             owner : RegOwner, by : RegUser, proc : {"RPCB", "PMAP"}, found : BOOLEAN, ans : BOOLEAN]

(* One address at most for a program, version and transport in list l.     *)
SameService(d, e) == d.prog = e.prog /\ d.vers = e.vers /\ RG!strcasecmp(d.netid, e.netid)
Unique(l) == \A i, j \in 1 .. Len(l) : SameService(l[i], l[j]) => i = j

RegTypes ==
  /\ rbl \in Seq(RegEntry) /\ list_pml \in Seq(PmapEntry)
  /\ RPCBFILE.l \in Seq(RegEntry) /\ PMAPFILE.l \in Seq(PmapEntry)
  /\ pc.op = "add" => pc.reg \in RG!Regs
  /\ pc.op = "unset" => pc \in UnsetReq /\ pc.todo /= <<>>

(* The state files have what the last run ended with, or nothing, and are  *)
(* gone while rpcbind runs.                                                *)
FilesWarm ==
  /\ pc.op /= "down" => RPCBFILE.l = <<>> /\ PMAPFILE.l = <<>>
  /\ pc.op = "down" =>
       /\ RPCBFILE.l \in {<<>>, last.rbl} /\ PMAPFILE.l \in {<<>>, last.pml}
       /\ last.how = "terminated" => RPCBFILE.l = last.rbl /\ PMAPFILE.l = last.pml
       /\ last.how = "crashed" => RPCBFILE.l = <<>> /\ PMAPFILE.l = <<>>

RegInv ==
  /\ RegTypes /\ Unique(rbl) /\ Unique(RPCBFILE.l)
  /\ "unlink" \notin Faults => FilesWarm

(* Lists without repetition, put together and thinned out.                 *)
LEMMA UniqueKeep ==
  ASSUME NEW S, NEW s \in Seq(S), Unique(s), NEW I, I \subseteq 1 .. Len(s)
  PROVE  Unique(RG!Keep(s, I))
<1> DEFINE K == RG!Keep(s, I)
<1>1. PICK f : Selects(f, K, s, I)
  BY KeepsInOrder
<1>2. K \in Seq(S)
  BY KeepsInOrder
<1> HIDE DEF K
<1>2a. Len(K) \in Nat /\ Len(s) \in Nat
  BY <1>2
<1> SUFFICES ASSUME NEW i \in 1 .. Len(K), NEW j \in 1 .. Len(K), SameService(K[i], K[j]) PROVE i = j
  BY DEF Unique, K
<1>3. f[i] \in 1 .. Len(s) /\ f[j] \in 1 .. Len(s) /\ K[i] = s[f[i]] /\ K[j] = s[f[j]]
  BY <1>1 DEF Selects
<1>4. f[i] = f[j]
  BY <1>3 DEF Unique
<1>5. ~(i < j) /\ ~(j < i)
  BY <1>1, <1>2a, <1>3, <1>4 DEF Selects
<1> QED BY <1>2a, <1>5

LEMMA UniqueConcat ==
  ASSUME NEW S, NEW s \in Seq(S), NEW t \in Seq(S), Unique(s), Unique(t),
         \A i \in 1 .. Len(s), j \in 1 .. Len(t) : ~SameService(s[i], t[j]) /\ ~SameService(t[j], s[i])
  PROVE  s \o t \in Seq(S) /\ Unique(s \o t)
<1> DEFINE u == s \o t
<1>1. Len(s) \in Nat /\ Len(t) \in Nat /\ Len(u) = Len(s) + Len(t) /\ u \in Seq(S)
  OBVIOUS
<1>2. \A k \in 1 .. Len(u) : \/ k \in 1 .. Len(s) /\ u[k] = s[k]
                             \/ k > Len(s) /\ k - Len(s) \in 1 .. Len(t) /\ u[k] = t[k - Len(s)]
  BY <1>1
<1> HIDE DEF u
<1>3. ASSUME NEW i \in 1 .. Len(u), NEW j \in 1 .. Len(u), SameService(u[i], u[j]) PROVE i = j
  <2>1. CASE i \in 1 .. Len(s) /\ u[i] = s[i] /\ j \in 1 .. Len(s) /\ u[j] = s[j]
    BY <1>3, <2>1 DEF Unique
  <2>2. CASE i \in 1 .. Len(s) /\ u[i] = s[i] /\ j - Len(s) \in 1 .. Len(t) /\ u[j] = t[j - Len(s)]
    BY <1>3, <2>2
  <2>3. CASE i - Len(s) \in 1 .. Len(t) /\ u[i] = t[i - Len(s)] /\ j \in 1 .. Len(s) /\ u[j] = s[j]
    BY <1>3, <2>3
  <2>4. CASE /\ i - Len(s) \in 1 .. Len(t) /\ u[i] = t[i - Len(s)]
             /\ j - Len(s) \in 1 .. Len(t) /\ u[j] = t[j - Len(s)]
    <3>1. i - Len(s) = j - Len(s)
      BY <1>3, <2>4 DEF Unique
    <3> QED BY <1>1, <3>1
  <2> QED BY <1>2, <2>1, <2>2, <2>3, <2>4
<1> QED BY <1>1, <1>3 DEF Unique, u

LEMMA UniqueEmpty == Unique(<<>>)
  BY DEF Unique

LEMMA UniqueAppend ==
  ASSUME NEW S, NEW s \in Seq(S), Unique(s), NEW e \in S,
         \A i \in 1 .. Len(s) : ~SameService(s[i], e) /\ ~SameService(e, s[i])
  PROVE  Append(s, e) \in Seq(S) /\ Unique(Append(s, e))
<1> DEFINE u == Append(s, e)
<1>1. Len(s) \in Nat /\ Len(u) = Len(s) + 1 /\ u \in Seq(S) /\ u[Len(s) + 1] = e
      /\ \A k \in 1 .. Len(s) : u[k] = s[k]
  OBVIOUS
<1> HIDE DEF u
<1>2. ASSUME NEW i \in 1 .. Len(u), NEW j \in 1 .. Len(u), SameService(u[i], u[j]) PROVE i = j
  <2>1. CASE i \in 1 .. Len(s) /\ j \in 1 .. Len(s)
    BY <1>1, <1>2, <2>1 DEF Unique
  <2>2. CASE i = Len(s) + 1 /\ j \in 1 .. Len(s)
    BY <1>1, <1>2, <2>2
  <2>3. CASE i \in 1 .. Len(s) /\ j = Len(s) + 1
    BY <1>1, <1>2, <2>3
  <2> QED BY <1>1, <2>1, <2>2, <2>3
<1> QED BY <1>1, <1>2 DEF Unique, u

(* find_service: what it finds is there, and it finds an exact entry if    *)
(* there is one.                                                           *)
LEMMA RegFirst ==
  ASSUME NEW I, I \subseteq Nat, I /= {}
  PROVE  RG!First(I) \in I /\ \A j \in I : RG!First(I) <= j
<1>1. \E k \in I : \A j \in I : k <= j
  BY LeastExists
<1> QED BY <1>1 DEF RG!First

LEMMA FindsExact ==
  ASSUME NEW l, NEW p, NEW v, NEW n, Len(l) \in Nat,
         NEW i \in 1 .. Len(l), l[i].prog = p, l[i].vers = v, RG!strcasecmp(l[i].netid, n)
  PROVE  LET k == RG!find_service(l, p, v, n)
         IN k \in 1 .. Len(l) /\ l[k].vers = v /\ l[k].prog = p /\ RG!strcasecmp(l[k].netid, n)
<1> DEFINE E == {k \in {k \in 1 .. Len(l) : l[k].prog = p /\ RG!strcasecmp(l[k].netid, n)} : l[k].vers = v}
<1>1. i \in E /\ E \subseteq Nat
  OBVIOUS
<1>2. RG!find_service(l, p, v, n) = RG!First(E)
  BY <1>1 DEF RG!find_service, RG!hit
<1>3. RG!First(E) \in E
  BY <1>1, RegFirst
<1> QED BY <1>2, <1>3

(* strcasecmp is symmetric, and so is naming the same service.             *)
LEMMA SameSymmetric == \A d, e : SameService(d, e) => SameService(e, d)
  BY Zenon DEF SameService, RG!strcasecmp

(* The registrations of rpcbind itself.                                    *)
LEMMA OwnTransport ==
  ASSUME NEW n \in {"tcp", "udp", "local"}
  PROVE  /\ RG!init_rbl(n) \in Seq(RegEntry) /\ Unique(RG!init_rbl(n))
         /\ \A k \in 1 .. Len(RG!init_rbl(n)) :
              RG!init_rbl(n)[k].prog = RG!RPCBPROG /\ RG!init_rbl(n)[k].netid = n
<1> DEFINE w == RG!own_versions(n)
           s == [k \in 1 .. Len(w) |-> RG!rbllist_add(w[k], n)]
<1>1. w \in Seq({2, 3, 4}) /\ \A i, j \in 1 .. Len(w) : w[i] = w[j] => i = j
  <2>1. CASE n = "local"
    BY <2>1 DEF RG!own_versions
  <2>2. CASE n /= "local"
    BY <2>2 DEF RG!own_versions
  <2> QED BY <2>1, <2>2
<1> HIDE DEF w
<1>2. Len(w) \in Nat /\ \A k \in 1 .. Len(w) : w[k] \in {2, 3, 4}
  BY <1>1
<1>3. ASSUME NEW v \in {2, 3, 4}
      PROVE  /\ RG!rbllist_add(v, n) \in RegEntry /\ RG!rbllist_add(v, n).prog = RG!RPCBPROG
             /\ RG!rbllist_add(v, n).vers = v /\ RG!rbllist_add(v, n).netid = n
  BY DEF RG!rbllist_add, RegEntry, RegName, RegOwner, RegUser
<1>4. /\ s \in Seq(RegEntry) /\ Len(s) = Len(w)
      /\ \A k \in 1 .. Len(s) : s[k].prog = RG!RPCBPROG /\ s[k].vers = w[k] /\ s[k].netid = n
  BY <1>2, <1>3
<1> HIDE DEF s
<1>5. Unique(s)
  BY <1>1, <1>4 DEF Unique, SameService
<1>6. RG!init_rbl(n) = IF n \in Transports THEN s ELSE <<>>
  BY DEF RG!init_rbl, s, w
<1> QED BY <1>4, <1>5, <1>6, UniqueEmpty

LEMMA OwnRegistrations ==
  /\ RG!own_rbl_list \in Seq(RegEntry) /\ Unique(RG!own_rbl_list)
  /\ \A k \in 1 .. Len(RG!own_rbl_list) : RG!own_rbl_list[k].prog = RG!RPCBPROG
<1> DEFINE t == RG!init_rbl("tcp")
           u == RG!init_rbl("udp")
           l == RG!init_rbl("local")
<1>1. /\ t \in Seq(RegEntry) /\ Unique(t) /\ u \in Seq(RegEntry) /\ Unique(u)
      /\ l \in Seq(RegEntry) /\ Unique(l)
      /\ \A k \in 1 .. Len(t) : t[k].prog = RG!RPCBPROG /\ t[k].netid = "tcp"
      /\ \A k \in 1 .. Len(u) : u[k].prog = RG!RPCBPROG /\ u[k].netid = "udp"
      /\ \A k \in 1 .. Len(l) : l[k].prog = RG!RPCBPROG /\ l[k].netid = "local"
  BY OwnTransport
<1>2. RG!own_rbl_list = t \o u \o l
  BY DEF RG!own_rbl_list
<1> HIDE DEF t, u, l
<1>3. \A m, n \in {"tcp", "udp", "local"} : RG!strcasecmp(m, n) => m = n
  BY DEF RG!strcasecmp
<1>4. t \o u \in Seq(RegEntry) /\ Unique(t \o u)
  <2>1. \A i \in 1 .. Len(t), j \in 1 .. Len(u) : ~SameService(t[i], u[j]) /\ ~SameService(u[j], t[i])
    BY <1>1, <1>3 DEF SameService
  <2> QED BY <1>1, <2>1, UniqueConcat
<1>5. \A k \in 1 .. Len(t \o u) : (t \o u)[k].prog = RG!RPCBPROG /\ (t \o u)[k].netid \in {"tcp", "udp"}
  BY <1>1
<1> DEFINE a == t \o u
<1>6. a \in Seq(RegEntry) /\ Unique(a)
      /\ \A k \in 1 .. Len(a) : a[k].prog = RG!RPCBPROG /\ a[k].netid \in {"tcp", "udp"}
  BY <1>4, <1>5
<1> HIDE DEF a
<1>7. a \o l \in Seq(RegEntry) /\ Unique(a \o l)
  <2>1. \A i \in 1 .. Len(a), j \in 1 .. Len(l) : ~SameService(a[i], l[j]) /\ ~SameService(l[j], a[i])
    BY <1>1, <1>3, <1>6 DEF SameService
  <2> QED BY <1>1, <1>6, <2>1, UniqueConcat
<1>8. \A k \in 1 .. Len(a \o l) : (a \o l)[k].prog = RG!RPCBPROG
  BY <1>1, <1>6
<1> QED BY <1>2, <1>7, <1>8 DEF a

LEMMA OwnPorts ==
  /\ RG!own_pml_list \in Seq(PmapEntry)
  /\ \A k \in 1 .. Len(RG!own_pml_list) : RG!own_pml_list[k].prog = RG!RPCBPROG
<1>1. ASSUME NEW n \in {"tcp", "udp"}
      PROVE  /\ RG!init_pml(n) \in Seq(PmapEntry)
             /\ \A k \in 1 .. Len(RG!init_pml(n)) : RG!init_pml(n)[k].prog = RG!RPCBPROG
  <2> DEFINE q == RG!pmap_netid2ipprot(n)
             s == [k \in 1 .. 3 |-> RG!own_pml(RG!own_versions(n)[k], q)]
  <2>1. n \in Transports => q \in {"TCP", "UDP"}
    BY DEF RG!pmap_netid2ipprot, RG!tcptrans, RG!udptrans
  <2>2. \A k \in 1 .. 3 : RG!own_versions(n)[k] \in {2, 3, 4}
    BY DEF RG!own_versions
  <2> HIDE DEF q
  <2>3. ASSUME NEW v \in {2, 3, 4}, n \in Transports
        PROVE  RG!own_pml(v, q) \in PmapEntry /\ RG!own_pml(v, q).prog = RG!RPCBPROG
    BY <2>1, <2>3 DEF RG!own_pml, PmapEntry
  <2>4. n \in Transports => s \in Seq(PmapEntry) /\ \A k \in 1 .. Len(s) : s[k].prog = RG!RPCBPROG
    BY <2>2, <2>3
  <2>5. RG!init_pml(n) = IF n \in Transports THEN s ELSE <<>>
    BY DEF RG!init_pml, q
  <2> HIDE DEF s
  <2> QED BY <2>4, <2>5
<1>2. RG!own_pml_list = RG!init_pml("tcp") \o RG!init_pml("udp")
  BY DEF RG!own_pml_list
<1> DEFINE t == RG!init_pml("tcp")
           u == RG!init_pml("udp")
<1>3. /\ t \in Seq(PmapEntry) /\ \A k \in 1 .. Len(t) : t[k].prog = RG!RPCBPROG
      /\ u \in Seq(PmapEntry) /\ \A k \in 1 .. Len(u) : u[k].prog = RG!RPCBPROG
  BY <1>1
<1> HIDE DEF t, u
<1>4. t \o u \in Seq(PmapEntry) /\ \A k \in 1 .. Len(t \o u) : (t \o u)[k].prog = RG!RPCBPROG
  BY <1>3
<1> QED BY <1>2, <1>4 DEF t, u

(* A reloaded list has what its file had, without the registrations of     *)
(* rpcbind itself.                                                         *)
Foreign(v, l) ==
  /\ \A k \in 1 .. Len(v) : v[k].prog /= RG!RPCBPROG
  /\ \A k \in 1 .. Len(v) : \E i \in 1 .. Len(l) : v[k] = l[i]
  /\ \A i \in 1 .. Len(l) : l[i].prog /= RG!RPCBPROG => \E k \in 1 .. Len(v) : v[k] = l[i]

LEMMA Weeded ==
  ASSUME NEW S, NEW f, f.l \in Seq(S)
  PROVE  /\ RG!weeded(f) \in Seq(S) /\ Foreign(RG!weeded(f), f.l)
         /\ Unique(f.l) => Unique(RG!weeded(f))
<1> DEFINE s == f.l
           I == {i \in 1 .. Len(s) : s[i].prog /= RG!RPCBPROG}
           K == RG!Keep(s, I)
<1>1. RG!weeded(f) = K
  BY DEF RG!weeded
<1>2. s \in Seq(S) /\ I \subseteq 1 .. Len(s)
  OBVIOUS
<1>3. \A i \in I : i \in 1 .. Len(s) /\ s[i].prog /= RG!RPCBPROG
  OBVIOUS
<1>4. \A i \in 1 .. Len(s) : s[i].prog /= RG!RPCBPROG => i \in I
  OBVIOUS
<1> HIDE DEF s, I
<1>5. K \in Seq(S) /\ \E g : Selects(g, K, s, I)
  BY <1>2, KeepsInOrder
<1>6. Unique(s) => Unique(K)
  BY <1>2, UniqueKeep
<1> HIDE DEF K
<1>7. PICK g : Selects(g, K, s, I)
  BY <1>5
<1>8. \A k \in 1 .. Len(K) : g[k] \in I /\ K[k] = s[g[k]]
  BY <1>7 DEF Selects
<1>9. \A i \in I : \E k \in 1 .. Len(K) : K[k] = s[i]
  BY <1>7 DEF Selects
<1>10. Foreign(K, s)
  BY <1>3, <1>4, <1>8, <1>9 DEF Foreign
<1> QED BY <1>1, <1>5, <1>6, <1>10 DEF s

LEMMA WarmList ==
  ASSUME NEW S, NEW a \in Seq(S), NEW v \in Seq(S), NEW l \in Seq(S),
         \A k \in 1 .. Len(a) : a[k].prog = RG!RPCBPROG,
         Foreign(v, l)
  PROVE  RG!registrations(a \o v) = RG!registrations(l)
<1> DEFINE u == a \o v
<1>1. Len(a) \in Nat /\ Len(v) \in Nat /\ Len(u) = Len(a) + Len(v)
      /\ (\A k \in 1 .. Len(a) : u[k] = a[k]) /\ \A k \in 1 .. Len(v) : u[Len(a) + k] = v[k]
  OBVIOUS
<1>2. ASSUME NEW e \in RG!registrations(u) PROVE e \in RG!registrations(l)
  <2>1. e.prog /= RG!RPCBPROG /\ \E k \in 1 .. Len(u) : e = u[k]
    BY DEF RG!registrations, RG!Range
  <2>2. PICK k \in 1 .. Len(u) : e = u[k]
    BY <2>1
  <2>3. ~(k <= Len(a))
    BY <1>1, <2>1, <2>2
  <2>4. k - Len(a) \in 1 .. Len(v) /\ Len(a) + (k - Len(a)) = k
    BY <1>1, <2>3
  <2>5. u[Len(a) + (k - Len(a))] = v[k - Len(a)]
    BY <1>1, <2>4
  <2>6. e \in RG!Range(l)
    BY <2>2, <2>4, <2>5 DEF RG!Range, Foreign
  <2> QED BY <2>1, <2>6 DEF RG!registrations
<1>3. ASSUME NEW e \in RG!registrations(l) PROVE e \in RG!registrations(u)
  <2>1. e.prog /= RG!RPCBPROG /\ \E i \in 1 .. Len(l) : e = l[i]
    BY DEF RG!registrations, RG!Range
  <2>2. PICK k \in 1 .. Len(v) : e = v[k]
    BY <2>1 DEF Foreign
  <2>3. Len(a) + k \in 1 .. Len(u) /\ u[Len(a) + k] = e
    BY <1>1, <2>2
  <2> QED BY <2>1, <2>3 DEF RG!registrations, RG!Range
<1> HIDE DEF u
<1>4. RG!registrations(u) = RG!registrations(l)
  BY <1>2, <1>3
<1> QED BY <1>4 DEF u

LEMMA RegInitial == ASSUME RG!Init PROVE RegInv
<1>1. rbl = RG!own_rbl_list /\ list_pml = RG!own_pml_list /\ pc = RG!idle
      /\ RPCBFILE = RG!NoFile /\ PMAPFILE = RG!NoFile
  BY DEF RG!Init
<1>2. pc.op = "idle" /\ RPCBFILE.l = <<>> /\ PMAPFILE.l = <<>>
  BY <1>1 DEF RG!idle, RG!NoFile
<1>3. RegTypes
  BY <1>1, <1>2, OwnRegistrations, OwnPorts DEF RegTypes
<1>4. Unique(rbl) /\ Unique(RPCBFILE.l)
  BY <1>1, <1>2, OwnRegistrations, UniqueEmpty
<1>5. FilesWarm
  BY <1>2 DEF FilesWarm
<1> QED BY <1>3, <1>4, <1>5 DEF RegInv

(* A SET adds a service that was not there, and a UNSET is under way.      *)
LEMMA RegSet ==
  ASSUME RegInv, NEW c \in Callers, NEW r \in RG!Regs, RG!Set(c, r)
  PROVE  RegInv'
<1>1. pc = RG!idle /\ RG!map_set(c, r) /\ list_pml' = list_pml /\ RPCBFILE' = RPCBFILE /\ PMAPFILE' = PMAPFILE
      /\ last' = last
  BY DEF RG!Set
<1>2. pc.op = "idle"
  BY <1>1 DEF RG!idle
<1> DEFINE i == RG!find_service(rbl, r.prog, r.vers, r.netid)
           e == [prog |-> r.prog, vers |-> r.vers, netid |-> r.netid,
                 addr |-> r.addr, owner |-> RG!getowner(c), by |-> c.user]
<1>3. CASE i /= 0 /\ rbl[i].vers = r.vers
  <2>1. pc' = [op |-> "reply", ans |-> rbl[i].addr = r.addr, proc |-> "SET"] /\ rbl' = rbl
    BY <1>1, <1>3 DEF RG!map_set
  <2> DEFINE b == rbl[i].addr = r.addr
  <2> HIDE DEF i, b
  <2>2. pc'.op = "reply"
    BY <2>1, Zenon DEF b
  <2> QED BY <1>1, <1>2, <2>1, <2>2 DEF RegInv, RegTypes, FilesWarm
<1>4. CASE ~(i /= 0 /\ rbl[i].vers = r.vers)
  <2>1. rbl' = Append(rbl, e) /\ pc' = [op |-> "add", reg |-> r]
    BY <1>1, <1>4 DEF RG!map_set, RG!map_set_any
  <2>2. rbl \in Seq(RegEntry) /\ Unique(rbl)
    BY DEF RegInv, RegTypes
  <2>3. r.prog \in Progs /\ r.vers \in Vers /\ r.netid \in Netids /\ r.addr \in Addrs
    BY DEF RG!Regs
  <2>4. RG!getowner(c) \in RegOwner /\ c.user \in RegUser
    BY DEF RG!getowner, RegOwner, RegUser
  <2> DEFINE o == RG!getowner(c)
             w == c.user
  <2> HIDE DEF o, w
  <2>5. e \in RegEntry /\ e.prog = r.prog /\ e.vers = r.vers /\ e.netid = r.netid
    BY <2>3, <2>4 DEF RegEntry, RegName, o, w
  <2> HIDE DEF e
  <2>6. ASSUME NEW k \in 1 .. Len(rbl) PROVE ~SameService(rbl[k], e) /\ ~SameService(e, rbl[k])
    <3>1. ASSUME SameService(rbl[k], e) PROVE FALSE
      <4>1. Len(rbl) \in Nat /\ rbl[k].prog = r.prog /\ rbl[k].vers = r.vers /\ RG!strcasecmp(rbl[k].netid, r.netid)
        BY <2>2, <2>5, <3>1 DEF SameService
      <4>2. i \in 1 .. Len(rbl) /\ rbl[i].vers = r.vers
        BY <4>1, FindsExact
      <4> QED BY <1>4, <4>1, <4>2
    <3> QED BY <3>1, SameSymmetric
  <2>7. rbl' \in Seq(RegEntry) /\ Unique(rbl')
    BY <2>1, <2>2, <2>5, <2>6, UniqueAppend
  <2>8. pc'.op = "add" /\ pc'.reg = r
    BY <2>1
  <2> QED BY <1>1, <1>2, <2>7, <2>8 DEF RegInv, RegTypes, FilesWarm
<1> QED BY <1>3, <1>4

LEMMA RegAdd == ASSUME RegInv, RG!add_pmaplist PROVE RegInv'
<1> DEFINE r == pc.reg
           q == RG!pmap_netid2ipprot(r.netid)
           e == [prog |-> r.prog, vers |-> r.vers, prot |-> q, port |-> r.addr]
<1>1. /\ pc.op = "add" /\ pc' = [op |-> "reply", ans |-> TRUE, proc |-> "SET"]
      /\ list_pml' = IF q = "none" \/ r.addr = 0 THEN list_pml ELSE Append(list_pml, e)
      /\ rbl' = rbl /\ RPCBFILE' = RPCBFILE /\ PMAPFILE' = PMAPFILE /\ last' = last
  BY DEF RG!add_pmaplist
<1>2. r \in RG!Regs /\ list_pml \in Seq(PmapEntry)
  BY <1>1 DEF RegInv, RegTypes
<1>3. r.prog \in Progs /\ r.vers \in Vers /\ r.addr \in Addrs
  BY <1>2 DEF RG!Regs
<1>4. q \in {"TCP", "UDP", "none"}
  BY DEF RG!pmap_netid2ipprot
<1> HIDE DEF q, r
<1>5. q /= "none" => e \in PmapEntry
  BY <1>3, <1>4 DEF PmapEntry
<1> HIDE DEF e
<1>6. list_pml' \in Seq(PmapEntry)
  BY <1>1, <1>2, <1>5
<1>7. pc'.op = "reply"
  BY <1>1
<1> QED BY <1>1, <1>6, <1>7 DEF RegInv, RegTypes, FilesWarm

LEMMA RegUnset ==
  ASSUME RegInv, NEW c \in Callers, NEW p \in Progs, NEW v \in Vers,
         NEW todo \in Seq(Netids \cup {"tcp", "udp", RG!NoName}), todo /= <<>>,
         NEW proc \in {"RPCB", "PMAP"}, RG!Unset(c, p, v, todo, proc)
  PROVE  RegInv'
<1> DEFINE o == RG!getowner(c)
           w == c.user
<1>1. /\ pc = RG!idle
      /\ pc' = [op |-> "unset", prog |-> p, vers |-> v, todo |-> todo, owner |-> o,
                by |-> w, proc |-> proc, found |-> FALSE, ans |-> FALSE]
      /\ rbl' = rbl /\ list_pml' = list_pml /\ RPCBFILE' = RPCBFILE /\ PMAPFILE' = PMAPFILE /\ last' = last
  BY DEF RG!Unset
<1>2. pc.op = "idle"
  BY <1>1 DEF RG!idle
<1>3. o \in RegOwner /\ w \in RegUser
  BY DEF RG!getowner, RegOwner, RegUser
<1> HIDE DEF o, w
<1>4. pc' \in UnsetReq /\ pc'.op = "unset" /\ pc'.todo = todo
  BY <1>1, <1>3 DEF UnsetReq
<1> QED BY <1>1, <1>2, <1>4 DEF RegInv, RegTypes, FilesWarm

(* What done leaves of a request: another list to work on, or the reply.   *)
LEMMA DoneRequest ==
  ASSUME NEW q \in UnsetReq, q.todo /= <<>>, NEW ans \in BOOLEAN
  PROVE  LET d == RG!done(q, ans) IN
         /\ d.op \in {"unset", "reply"}
         /\ d.op = "unset" => /\ d \in UnsetReq /\ d.todo /= <<>> /\ d.todo = Tail(q.todo) /\ d.found = FALSE
<1> DEFINE b == q.ans \/ ans
           t == Tail(q.todo)
           N == Netids \cup {"tcp", "udp", RG!NoName}
<1>1. q.todo \in Seq(N) /\ q.ans \in BOOLEAN /\ q.op = "unset"
  BY DEF UnsetReq
<1>2. b \in BOOLEAN
  OBVIOUS
<1>3. Len(q.todo) > 1 => t \in Seq(N) /\ t /= <<>>
  <2> DEFINE u == q.todo
  <2> HIDE DEF N, u
  <2>1. u \in Seq(N) /\ (Len(u) > 1 => Tail(u) \in Seq(N) /\ Len(Tail(u)) = Len(u) - 1)
    BY <1>1 DEF u
  <2>2. Len(u) > 1 => Tail(u) /= <<>>
    BY <2>1
  <2> QED BY <2>1, <2>2 DEF u
<1> HIDE DEF b, t, N
<1>4. CASE Len(q.todo) > 1
  <2> DEFINE d == [q EXCEPT !.todo = t, !.found = FALSE, !.ans = b]
  <2>1. RG!done(q, ans) = d
    BY <1>4 DEF RG!done, b, t
  <2>2. d \in UnsetReq
    BY <1>2, <1>3, <1>4 DEF UnsetReq, N
  <2>3. d.op = "unset" /\ d.todo = t /\ d.found = FALSE
    BY <1>1 DEF UnsetReq
  <2> QED BY <1>3, <1>4, <2>1, <2>2, <2>3 DEF t
<1>5. CASE ~(Len(q.todo) > 1)
  <2>1. RG!done(q, ans) = [op |-> "reply", ans |-> b, proc |-> q.proc, prog |-> q.prog, vers |-> q.vers]
    BY <1>5 DEF RG!done, b
  <2>2. RG!done(q, ans).op = "reply"
    BY <2>1
  <2> QED BY <2>2
<1> QED BY <1>4, <1>5

(* A removal leaves the other registrations, and is of one the caller may  *)
(* remove.                                                                 *)
LEMMA RegMapUnset ==
  ASSUME RegInv, RG!map_unset
  PROVE  RegInv' /\ RG!RemovesOwn
<1> DEFINE I == {i \in 1 .. Len(rbl) : RG!matches(rbl[i])}
           x == RG!First(I)
           J == (1 .. Len(rbl)) \ {x}
           K == RG!Keep(rbl, J)
<1>1. /\ pc.op = "unset" /\ I /= {}
      /\ \/ RG!may_unset(rbl[x]) /\ rbl' = K /\ pc' = [pc EXCEPT !.found = TRUE]
         \/ pc' = RG!done(pc, FALSE) /\ rbl' = rbl
      /\ list_pml' = list_pml /\ RPCBFILE' = RPCBFILE /\ PMAPFILE' = PMAPFILE /\ last' = last
  BY DEF RG!map_unset
<1>2. rbl \in Seq(RegEntry) /\ Unique(rbl) /\ pc \in UnsetReq /\ pc.todo /= <<>>
  BY <1>1 DEF RegInv, RegTypes
<1>3. I \subseteq Nat /\ J \subseteq 1 .. Len(rbl)
  OBVIOUS
<1>4. x \in I
  BY <1>1, <1>3, RegFirst
<1> HIDE DEF I, x
<1>5. K \in Seq(RegEntry) /\ Unique(K) /\ \E g : Selects(g, K, rbl, J)
  BY <1>2, <1>3, KeepsInOrder, UniqueKeep
<1> HIDE DEF K
<1>6. pc'.op = "unset" => pc' \in UnsetReq /\ pc'.todo /= <<>>
  <2>1. CASE pc' = [pc EXCEPT !.found = TRUE]
    BY <1>2, <2>1 DEF UnsetReq
  <2>2. CASE pc' = RG!done(pc, FALSE)
    BY <1>2, <2>2, DoneRequest
  <2> QED BY <1>1, <2>1, <2>2
<1>7. pc'.op \in {"unset", "reply"}
  <2>1. CASE pc' = [pc EXCEPT !.found = TRUE]
    BY <1>2, <2>1 DEF UnsetReq
  <2>2. CASE pc' = RG!done(pc, FALSE)
    BY <1>2, <2>2, DoneRequest
  <2> QED BY <1>1, <2>1, <2>2
<1>8. RegInv'
  <2>1. rbl' \in Seq(RegEntry) /\ Unique(rbl')
    BY <1>1, <1>2, <1>5
  <2> QED BY <1>1, <1>6, <1>7, <2>1 DEF RegInv, RegTypes, FilesWarm
<1>9. ASSUME NEW e \in RG!Range(rbl) \ RG!Range(rbl') PROVE RG!may_unset(e)
  <2>1. PICK i \in 1 .. Len(rbl) : e = rbl[i]
    BY DEF RG!Range
  <2>2. rbl' = K /\ RG!may_unset(rbl[x])
    BY <1>1
  <2>3. i \notin J
    <3>1. PICK g : Selects(g, K, rbl, J)
      BY <1>5
    <3>2. i \in J => \E k \in 1 .. Len(K) : K[k] = rbl[i]
      BY <3>1 DEF Selects
    <3>3. \A k \in 1 .. Len(K) : K[k] \in RG!Range(K)
      BY DEF RG!Range
    <3> QED BY <2>1, <2>2, <3>2, <3>3
  <2> QED BY <2>1, <2>2, <2>3
<1> QED BY <1>8, <1>9 DEF RG!RemovesOwn, RG!may_unset

LEMMA RegMapUnsetEnd == ASSUME RegInv, RG!map_unset_end PROVE RegInv' /\ rbl' = rbl
<1> DEFINE n == Head(pc.todo)
           I == {i \in 1 .. Len(list_pml) : \/ list_pml[i].prog /= pc.prog \/ list_pml[i].vers /= pc.vers
                                            \/ n /= RG!NoName /\ list_pml[i].prot /= RG!pmap_netid2ipprot(n)}
<1>1. /\ pc.op = "unset" /\ pc' = RG!done(pc, TRUE) /\ rbl' = rbl
      /\ list_pml' \in {list_pml, RG!Keep(list_pml, I)}
      /\ RPCBFILE' = RPCBFILE /\ PMAPFILE' = PMAPFILE /\ last' = last
  BY DEF RG!map_unset_end, RG!del_pmaplist
<1>2. list_pml \in Seq(PmapEntry) /\ pc \in UnsetReq /\ pc.todo /= <<>>
  BY <1>1 DEF RegInv, RegTypes
<1>3. I \subseteq 1 .. Len(list_pml)
  OBVIOUS
<1> HIDE DEF I
<1>4. list_pml' \in Seq(PmapEntry)
  BY <1>1, <1>2, <1>3, KeepsInOrder
<1>5. pc'.op \in {"unset", "reply"} /\ (pc'.op = "unset" => pc' \in UnsetReq /\ pc'.todo /= <<>>)
  BY <1>1, <1>2, DoneRequest
<1> QED BY <1>1, <1>4, <1>5 DEF RegInv, RegTypes, FilesWarm

(* rpcbind ends, with the files it writes, or without.                     *)
LEMMA RegEnds ==
  ASSUME RegInv, RG!Terminate \/ RG!Crash
  PROVE  RegInv' /\ pc.op /= "down" /\ pc'.op = "down"
<1>1. /\ pc.op /= "down" /\ pc' = [op |-> "down"] /\ rbl' = <<>> /\ list_pml' = <<>>
      /\ last'.rbl = rbl /\ last'.pml = list_pml
  BY DEF RG!Terminate, RG!terminate, RG!Crash
<1>2. pc'.op = "down"
  BY <1>1
<1>3. /\ rbl \in Seq(RegEntry) /\ list_pml \in Seq(PmapEntry) /\ Unique(rbl) /\ Unique(RPCBFILE.l)
      /\ RPCBFILE.l \in Seq(RegEntry) /\ PMAPFILE.l \in Seq(PmapEntry)
  BY DEF RegInv, RegTypes
<1>4. \A old, l, fault : RG!write_struct(old, l, fault).l \in {old.l, <<>>, l}
                         /\ (fault = "none" => RG!write_struct(old, l, fault).l = l)
  BY DEF RG!write_struct
<1>5. /\ RPCBFILE'.l \in {RPCBFILE.l, <<>>, rbl} /\ PMAPFILE'.l \in {PMAPFILE.l, <<>>, list_pml}
      /\ last'.how = "terminated" => RPCBFILE'.l = rbl /\ PMAPFILE'.l = list_pml
      /\ last'.how = "crashed" => RPCBFILE'.l = RPCBFILE.l /\ PMAPFILE'.l = PMAPFILE.l
  <2>1. CASE RG!Crash
    <3>1. RPCBFILE' = RPCBFILE /\ PMAPFILE' = PMAPFILE /\ last'.how = "crashed"
      BY <2>1 DEF RG!Crash
    <3> QED BY <3>1
  <2>2. CASE RG!Terminate
    <3>1. PICK f1, f2 \in {"none", "open", "disk"} : RG!terminate(f1, f2)
      BY <2>2 DEF RG!Terminate
    <3>2. /\ RPCBFILE' = RG!write_struct(RPCBFILE, rbl, f1) /\ PMAPFILE' = RG!write_struct(PMAPFILE, list_pml, f2)
          /\ last'.how = IF pc = RG!idle /\ f1 = "none" /\ f2 = "none" THEN "terminated" ELSE "disturbed"
      BY <3>1 DEF RG!terminate
    <3> QED BY <1>4, <3>2
  <2> QED BY <2>1, <2>2
<1>6. RPCBFILE'.l \in Seq(RegEntry) /\ PMAPFILE'.l \in Seq(PmapEntry) /\ Unique(RPCBFILE'.l)
  <2>1. RPCBFILE'.l \in Seq(RegEntry) /\ PMAPFILE'.l \in Seq(PmapEntry)
    <3>1. <<>> \in Seq(RegEntry) /\ <<>> \in Seq(PmapEntry)
      OBVIOUS
    <3> QED BY <1>3, <1>5, <3>1, Zenon
  <2>2. Unique(RPCBFILE'.l)
    BY <1>3, <1>5, UniqueEmpty, Zenon
  <2> QED BY <2>1, <2>2
<1>7. RegTypes' /\ Unique(rbl')
  BY <1>1, <1>2, <1>6, UniqueEmpty DEF RegTypes
<1>8. "unlink" \notin Faults => FilesWarm'
  BY <1>1, <1>2, <1>5 DEF RegInv, FilesWarm
<1> QED BY <1>1, <1>2, <1>6, <1>7, <1>8 DEF RegInv

(* rpcbind starts with its own registrations and those of the file.        *)
LEMMA RegStart ==
  ASSUME RegInv, RG!Start
  PROVE  RegInv' /\ pc.op = "down" /\ ("unlink" \notin Faults => RG!StartsWarm)
<1> DEFINE a == RG!own_rbl_list
           b == RG!own_pml_list
           v == RG!weeded(RPCBFILE)
           w == RG!weeded(PMAPFILE)
<1>1. PICK fault \in {"none", "unlink"} : RG!Fault(fault) /\ RG!read_warmstart(fault)
  BY DEF RG!Start
<1>2. /\ pc.op = "down" /\ pc' = RG!idle /\ rbl' = a \o v /\ list_pml' = b \o w
      /\ RPCBFILE' = RG!read_struct(RPCBFILE, fault) /\ PMAPFILE' = RG!read_struct(PMAPFILE, fault)
  BY <1>1 DEF RG!read_warmstart
<1>3. pc'.op = "idle"
  BY <1>2 DEF RG!idle
<1>4. RPCBFILE.l \in Seq(RegEntry) /\ PMAPFILE.l \in Seq(PmapEntry) /\ Unique(RPCBFILE.l)
  BY DEF RegInv, RegTypes
<1>5. /\ a \in Seq(RegEntry) /\ Unique(a) /\ \A k \in 1 .. Len(a) : a[k].prog = RG!RPCBPROG
      /\ b \in Seq(PmapEntry) /\ \A k \in 1 .. Len(b) : b[k].prog = RG!RPCBPROG
  BY OwnRegistrations, OwnPorts
<1>6. v \in Seq(RegEntry) /\ Unique(v) /\ Foreign(v, RPCBFILE.l)
  BY <1>4, Weeded, Zenon
<1>7. w \in Seq(PmapEntry) /\ Foreign(w, PMAPFILE.l)
  BY <1>4, Weeded, Zenon
<1> HIDE DEF a, b, v, w
<1>8. rbl' \in Seq(RegEntry) /\ Unique(rbl')
  <2>1. \A i \in 1 .. Len(a), j \in 1 .. Len(v) : ~SameService(a[i], v[j]) /\ ~SameService(v[j], a[i])
    BY <1>5, <1>6 DEF SameService, Foreign
  <2> QED BY <1>2, <1>5, <1>6, <2>1, UniqueConcat
<1>9. list_pml' \in Seq(PmapEntry)
  BY <1>2, <1>5, <1>7
<1>10. /\ RPCBFILE'.l \in {RPCBFILE.l, <<>>} /\ PMAPFILE'.l \in {PMAPFILE.l, <<>>}
       /\ fault = "none" => RPCBFILE'.l = <<>> /\ PMAPFILE'.l = <<>>
  BY <1>2 DEF RG!read_struct, RG!NoFile
<1>11. "unlink" \notin Faults => fault = "none"
  BY <1>1 DEF RG!Fault
<1>12. RegInv'
  <2>1. RPCBFILE'.l \in Seq(RegEntry) /\ PMAPFILE'.l \in Seq(PmapEntry) /\ Unique(RPCBFILE'.l)
    <3>1. RPCBFILE'.l \in Seq(RegEntry) /\ PMAPFILE'.l \in Seq(PmapEntry)
      <4>1. <<>> \in Seq(RegEntry) /\ <<>> \in Seq(PmapEntry)
        OBVIOUS
      <4> QED BY <1>4, <1>10, <4>1, Zenon
    <3>2. Unique(RPCBFILE'.l)
      BY <1>4, <1>10, UniqueEmpty, Zenon
    <3> QED BY <3>1, <3>2
  <2>2. "unlink" \notin Faults => FilesWarm'
    BY <1>3, <1>10, <1>11 DEF FilesWarm
  <2> QED BY <1>3, <1>8, <1>9, <2>1, <2>2 DEF RegInv, RegTypes
<1>13. RG!registrations(rbl') = RG!registrations(RPCBFILE.l)
  BY <1>2, <1>4, <1>5, <1>6, WarmList
<1>14. RG!registrations(list_pml') = RG!registrations(PMAPFILE.l)
  BY <1>2, <1>4, <1>5, <1>7, WarmList
<1>15. ASSUME "unlink" \notin Faults PROVE RG!StartsWarm
  <2>1. FilesWarm
    BY <1>15 DEF RegInv
  <2>2. RG!registrations(<<>>) = {}
    BY DEF RG!registrations, RG!Range
  <2>3. ASSUME last.how = "crashed" PROVE rbl' = a /\ list_pml' = b
    <3>1. RPCBFILE.l = <<>> /\ PMAPFILE.l = <<>>
      BY <1>2, <2>1, <2>3 DEF FilesWarm
    <3>2. Len(v) = 0 /\ Len(w) = 0
      <4>1. Len(<<>>) = 0 /\ Len(v) \in Nat /\ Len(w) \in Nat
        BY <1>6, <1>7
      <4> QED BY <1>6, <1>7, <3>1, <4>1 DEF Foreign
    <3>3. v = <<>> /\ w = <<>>
      BY <1>6, <1>7, <3>2
    <3> QED BY <1>2, <1>5, <3>3
  <2>4. /\ RG!registrations(rbl') \subseteq RG!registrations(last.rbl)
        /\ RG!registrations(list_pml') \subseteq RG!registrations(last.pml)
        /\ last.how = "terminated" => /\ RG!registrations(rbl') = RG!registrations(last.rbl)
                                      /\ RG!registrations(list_pml') = RG!registrations(last.pml)
    BY <1>2, <1>13, <1>14, <2>1, <2>2 DEF FilesWarm
  <2> QED BY <2>3, <2>4 DEF RG!StartsWarm, a, b
<1> QED BY <1>2, <1>12, <1>15

(* Each step of the registry is one of these.                              *)
RegChange ==
  \/ \E c \in Callers, r \in RG!Regs : RG!Set(c, r)
  \/ \E c \in Callers, p \in Progs, v \in Vers, todo \in Seq(Netids \cup {"tcp", "udp", RG!NoName}),
        proc \in {"RPCB", "PMAP"} :
       /\ \/ \E n \in Netids : todo = <<n>>
          \/ todo = <<RG!tcptrans, RG!udptrans>>
       /\ RG!Unset(c, p, v, todo, proc)

LEMMA RegSteps ==
  ASSUME RG!Next
  PROVE  \/ RegChange \/ RG!add_pmaplist \/ RG!map_unset \/ RG!map_unset_end
         \/ RG!Reply \/ (\E a \in Mortal : RG!Die(a))
         \/ RG!Terminate \/ RG!Crash \/ RG!Start
<1> DEFINE N == Netids \cup {"tcp", "udp", RG!NoName}
<1>1. RG!SetAny => RegChange
  BY DEF RG!SetAny, RegChange
<1>2. RG!UnsetAny => RegChange
  <2> SUFFICES ASSUME NEW c \in Callers, NEW p \in Progs, NEW v \in Vers, NEW n \in Netids,
                      RG!Unset(c, p, v, <<n>>, "RPCB")
               PROVE  RegChange
    BY DEF RG!UnsetAny
  <2>1. <<n>> \in Seq(N) /\ "RPCB" \in {"RPCB", "PMAP"}
    OBVIOUS
  <2> QED BY <2>1, Zenon DEF RegChange
<1>3. RG!pmapproc_change => RegChange
  <2>1. \A r \in RG!PmapRegs : r \in RG!Regs
    BY DEF RG!PmapRegs
  <2>2. ASSUME NEW c \in Callers, NEW p \in Progs, NEW v \in Vers,
               RG!Unset(c, p, v, <<RG!tcptrans, RG!udptrans>>, "PMAP")
        PROVE  RegChange
    <3>1. RG!tcptrans \in N /\ RG!udptrans \in N
      BY DEF RG!tcptrans, RG!udptrans
    <3>2. <<RG!tcptrans, RG!udptrans>> \in Seq(N) /\ "PMAP" \in {"RPCB", "PMAP"}
      BY <3>1
    <3> QED BY <2>2, <3>2, Zenon DEF RegChange
  <2>3. ASSUME NEW c \in Callers, NEW r \in RG!PmapRegs, RG!Set(c, r) PROVE RegChange
    BY <2>1, <2>3, Zenon DEF RegChange
  <2> QED BY <2>2, <2>3, Zenon DEF RG!pmapproc_change
<1> QED BY <1>1, <1>2, <1>3 DEF RG!Next, RG!rpcb_service_3, RG!rpcb_service_4, RG!pmap_service

LEMMA RegNext ==
  ASSUME RegInv, [RG!Next]_(RG!vars)
  PROVE  RegInv' /\ [RG!RespectsOwners]_(RG!vars)
<1>1. ASSUME NEW c \in Callers, NEW r \in RG!Regs, RG!Set(c, r) PROVE RegInv' /\ RG!RespectsOwners
  <2>1. pc.op = "idle"
    BY <1>1 DEF RG!Set, RG!idle
  <2> QED BY <1>1, <2>1, RegSet DEF RG!RespectsOwners, RG!RemovesOwn, RG!StartsWarm
<1>2. ASSUME NEW c \in Callers, NEW p \in Progs, NEW v \in Vers,
             NEW todo \in Seq(Netids \cup {"tcp", "udp", RG!NoName}), NEW proc \in {"RPCB", "PMAP"},
             (\E n \in Netids : todo = <<n>>) \/ todo = <<RG!tcptrans, RG!udptrans>>,
             RG!Unset(c, p, v, todo, proc)
      PROVE  RegInv' /\ RG!RespectsOwners
  <2>1. pc.op = "idle"
    BY <1>2 DEF RG!Unset, RG!idle
  <2>2. todo /= <<>>
    <3>1. \A n : Len(<<n>>) = 1
      OBVIOUS
    <3>2. Len(<<RG!tcptrans, RG!udptrans>>) = 2 /\ Len(<<>>) = 0
      OBVIOUS
    <3>3. Len(todo) \in {1, 2}
      BY <1>2, <3>1, <3>2, Zenon
    <3> QED BY <3>2, <3>3
  <2>3. RegInv'
    BY <1>2, <2>2, RegUnset
  <2> QED BY <2>1, <2>3 DEF RG!RespectsOwners, RG!RemovesOwn, RG!StartsWarm
<1>3. CASE RegChange
  BY <1>1, <1>2, <1>3, Zenon DEF RegChange
<1>4. CASE RG!add_pmaplist
  <2>1. pc.op = "add"
    BY <1>4 DEF RG!add_pmaplist
  <2> QED BY <1>4, <2>1, RegAdd DEF RG!RespectsOwners, RG!RemovesOwn, RG!StartsWarm
<1>5. CASE RG!map_unset
  <2>1. pc.op = "unset"
    BY <1>5 DEF RG!map_unset
  <2> QED BY <1>5, <2>1, RegMapUnset DEF RG!RespectsOwners, RG!StartsWarm
<1>6. CASE RG!map_unset_end
  <2>1. pc.op = "unset"
    BY <1>6 DEF RG!map_unset_end
  <2>2. RegInv' /\ rbl' = rbl
    BY <1>6, RegMapUnsetEnd
  <2> QED BY <2>1, <2>2 DEF RG!RespectsOwners, RG!RemovesOwn, RG!StartsWarm
<1>7. CASE RG!Reply
  <2>1. /\ pc.op = "reply" /\ pc' = RG!idle /\ rbl' = rbl /\ list_pml' = list_pml
        /\ RPCBFILE' = RPCBFILE /\ PMAPFILE' = PMAPFILE /\ last' = last
    BY <1>7 DEF RG!Reply
  <2>2. pc'.op = "idle"
    BY <2>1 DEF RG!idle
  <2>3. RegInv'
    BY <2>1, <2>2 DEF RegInv, RegTypes, FilesWarm
  <2> QED BY <2>1, <2>3 DEF RG!RespectsOwners, RG!RemovesOwn, RG!StartsWarm
<1>8. CASE \E a \in Mortal : RG!Die(a)
  <2>1. /\ pc = RG!idle /\ pc' = pc /\ rbl' = rbl /\ list_pml' = list_pml
        /\ RPCBFILE' = RPCBFILE /\ PMAPFILE' = PMAPFILE /\ last' = last
    BY <1>8 DEF RG!Die
  <2>2. pc.op = "idle"
    BY <2>1 DEF RG!idle
  <2>3. RegInv'
    BY <2>1 DEF RegInv, RegTypes, FilesWarm
  <2> QED BY <2>2, <2>3 DEF RG!RespectsOwners, RG!RemovesOwn, RG!StartsWarm
<1>9. CASE RG!Terminate \/ RG!Crash
  BY <1>9, RegEnds DEF RG!RespectsOwners, RG!RemovesOwn, RG!StartsWarm
<1>10. CASE RG!Start
  BY <1>10, RegStart DEF RG!RespectsOwners, RG!RemovesOwn
<1>11. CASE UNCHANGED RG!vars
  BY <1>11 DEF RG!vars, RegInv, RegTypes, FilesWarm
<1> QED BY <1>3, <1>4, <1>5, <1>6, <1>7, <1>8, <1>9, <1>10, <1>11, RegSteps

LEMMA RegAlways == RG!Spec => []RegInv
<1>1. RG!Init => RegInv
  BY RegInitial
<1>2. RegInv /\ [RG!Next]_(RG!vars) => RegInv'
  BY RegNext
<1> QED BY <1>1, <1>2, PTL DEF RG!Spec

(* For any transports, callers, programs and addresses, and however SETs,  *)
(* UNSETs, signals, crashes and starts with failing files follow each      *)
(* other: a UNSET removes a registration only for its owner or the         *)
(* superuser (map_unset), and a start after a termination between requests *)
(* has the registrations of that moment, after a crash none, and never one *)
(* that was not there, where the files that were read are removed          *)
(* (read_warmstart, write_struct).                                         *)
THEOREM RegistryRespectsOwners == RG!Spec => RG!OwnersRespected
<1>1. RegInv /\ [RG!Next]_(RG!vars) => [RG!RespectsOwners]_(RG!vars)
  BY RegNext
<1> QED BY <1>1, RegAlways, PTL DEF RG!Spec, RG!OwnersRespected

-----------------------------------------------------------------------------
(* The two lists of registrations, where requests name transports that     *)
(* rpcbind has and no signal arrives: what is registered over TCP or UDP   *)
(* in the one is registered in the other, in the same order.               *)
Plain == {"tcp", "udp", "local"}
HasPort(e) == RG!pmap_netid2ipprot(e.netid) /= "none"
SamePort(e, q) ==
  /\ e.prog = q.prog /\ e.vers = q.vers /\ RG!pmap_netid2ipprot(e.netid) = q.prot /\ e.addr = q.port

(* The first n registrations of b and those of m.                          *)
Agree(b, n, m) ==
  /\ \A i \in 1 .. n : HasPort(b[i]) => \E k \in 1 .. Len(m) : SamePort(b[i], m[k])
  /\ \A k \in 1 .. Len(m) : \E i \in 1 .. n : SamePort(b[i], m[k])
  /\ \A i, j \in 1 .. n, k, l \in 1 .. Len(m) :
       SamePort(b[i], m[k]) /\ SamePort(b[j], m[l]) => (i < j => k < l) /\ (i = j => k = l)

LEMMA PlainTransports ==
  ASSUME RG!PlainNames
  PROVE  /\ RG!tcptrans = "tcp" /\ RG!udptrans = "udp" /\ RG!NoName \notin Plain
         /\ RG!pmap_netid2ipprot("tcp") = "TCP" /\ RG!pmap_netid2ipprot("udp") = "UDP"
         /\ RG!pmap_netid2ipprot("local") = "none"
         /\ RG!pmap_ipprot2netid("TCP") = "tcp" /\ RG!pmap_ipprot2netid("UDP") = "udp"
         /\ \A m, n \in Plain : RG!strcasecmp(m, n) <=> m = n
<1>1. RG!tcptrans = "tcp" /\ RG!udptrans = "udp"
  BY DEF RG!PlainNames, RG!tcptrans, RG!udptrans
<1>2. RG!NoName \notin Plain
  BY DEF RG!NoName, Plain
<1>3. \A m, n \in Plain : RG!strcasecmp(m, n) <=> m = n
  BY DEF RG!strcasecmp, Plain
<1> QED BY <1>1, <1>2, <1>3 DEF RG!pmap_netid2ipprot, RG!pmap_ipprot2netid

(* Removing what corresponds to each other leaves lists that agree.        *)
LEMMA AgreeKeep ==
  ASSUME NEW S, NEW T, NEW b \in Seq(S), NEW m \in Seq(T), Agree(b, Len(b), m),
         NEW I, I \subseteq 1 .. Len(b), NEW J, J \subseteq 1 .. Len(m),
         \A i \in 1 .. Len(b), k \in 1 .. Len(m) : SamePort(b[i], m[k]) => (i \in I <=> k \in J)
  PROVE  Agree(RG!Keep(b, I), Len(RG!Keep(b, I)), RG!Keep(m, J))
<1> DEFINE c == RG!Keep(b, I)
           n == RG!Keep(m, J)
<1>1. c \in Seq(S) /\ \E f : Selects(f, c, b, I)
  BY KeepsInOrder
<1>2. n \in Seq(T) /\ \E f : Selects(f, n, m, J)
  BY KeepsInOrder
<1> HIDE DEF c, n
<1>3. PICK f : Selects(f, c, b, I)
  BY <1>1
<1>4. PICK h : Selects(h, n, m, J)
  BY <1>2
<1>5. /\ \A i \in 1 .. Len(c) : f[i] \in I /\ f[i] \in 1 .. Len(b) /\ c[i] = b[f[i]]
      /\ \A i \in I : \E k \in 1 .. Len(c) : f[k] = i
      /\ \A i, j \in 1 .. Len(c) : i < j => f[i] < f[j]
  BY <1>3 DEF Selects
<1>6. /\ \A k \in 1 .. Len(n) : h[k] \in J /\ h[k] \in 1 .. Len(m) /\ n[k] = m[h[k]]
      /\ \A k \in J : \E l \in 1 .. Len(n) : h[l] = k
      /\ \A k, l \in 1 .. Len(n) : k < l => h[k] < h[l]
  BY <1>4 DEF Selects
<1>7. Len(c) \in Nat /\ Len(n) \in Nat /\ Len(b) \in Nat /\ Len(m) \in Nat
  BY <1>1, <1>2
<1>8. ASSUME NEW i \in 1 .. Len(c), HasPort(c[i])
      PROVE  \E k \in 1 .. Len(n) : SamePort(c[i], n[k])
  <2>1. PICK k \in 1 .. Len(m) : SamePort(b[f[i]], m[k])
    BY <1>5, <1>8 DEF Agree
  <2>2. k \in J
    BY <1>5, <2>1
  <2>3. PICK l \in 1 .. Len(n) : h[l] = k
    BY <1>6, <2>2
  <2> QED BY <1>5, <1>6, <2>1, <2>3
<1>9. ASSUME NEW k \in 1 .. Len(n)
      PROVE  \E i \in 1 .. Len(c) : SamePort(c[i], n[k])
  <2>1. PICK i \in 1 .. Len(b) : SamePort(b[i], m[h[k]])
    BY <1>6 DEF Agree
  <2>2. i \in I
    BY <1>6, <2>1
  <2>3. PICK j \in 1 .. Len(c) : f[j] = i
    BY <1>5, <2>2
  <2> QED BY <1>5, <1>6, <2>1, <2>3
<1>10. ASSUME NEW i \in 1 .. Len(c), NEW j \in 1 .. Len(c), NEW k \in 1 .. Len(n), NEW l \in 1 .. Len(n),
              SamePort(c[i], n[k]), SamePort(c[j], n[l])
       PROVE  (i < j => k < l) /\ (i = j => k = l)
  <2>1. SamePort(b[f[i]], m[h[k]]) /\ SamePort(b[f[j]], m[h[l]])
    BY <1>5, <1>6, <1>10
  <2>2. (f[i] < f[j] => h[k] < h[l]) /\ (f[i] = f[j] => h[k] = h[l])
    <3>1. \A x, y \in 1 .. Len(b), u, v \in 1 .. Len(m) :
            SamePort(b[x], m[u]) /\ SamePort(b[y], m[v]) => (x < y => u < v) /\ (x = y => u = v)
      BY DEF Agree
    <3>2. f[i] \in 1 .. Len(b) /\ f[j] \in 1 .. Len(b) /\ h[k] \in 1 .. Len(m) /\ h[l] \in 1 .. Len(m)
      BY <1>5, <1>6
    <3> QED BY <2>1, <3>1, <3>2
  <2>3. h[k] \in Nat /\ h[l] \in Nat /\ k \in Nat /\ l \in Nat
    BY <1>6, <1>7
  <2>4. (k < l => h[k] < h[l]) /\ (l < k => h[l] < h[k]) /\ (k = l => h[k] = h[l])
    BY <1>6
  <2>5. i < j => f[i] < f[j]
    BY <1>5
  <2> QED BY <2>2, <2>3, <2>4, <2>5
<1>11. Agree(c, Len(c), n)
  BY <1>8, <1>9, <1>10 DEF Agree
<1> QED BY <1>11 DEF c, n

(* So does a registration that is added to both; one without a port is     *)
(* added to the first only.                                                *)
LEMMA AgreeAppend ==
  ASSUME NEW T, NEW b, NEW n \in Nat, NEW m \in Seq(T), NEW q \in T, Agree(b, n, m),
         SamePort(b[n + 1], q), HasPort(b[n + 1]),
         \A i \in 1 .. n : ~SameService(b[i], b[n + 1]),
         \A i \in 1 .. n + 1 : b[i].netid \in Plain, RG!PlainNames
  PROVE  Agree(b, n + 1, Append(m, q))
<1> DEFINE w == Append(m, q)
<1>1. Len(m) \in Nat /\ Len(w) = Len(m) + 1 /\ w[Len(m) + 1] = q /\ \A k \in 1 .. Len(m) : w[k] = m[k]
  OBVIOUS
<1> HIDE DEF w
<1>2. \A d, e : d.netid \in Plain /\ e.netid \in Plain /\ HasPort(e)
                /\ RG!pmap_netid2ipprot(d.netid) = RG!pmap_netid2ipprot(e.netid) => d.netid = e.netid
  BY PlainTransports DEF Plain, HasPort
<1>3. \A i \in 1 .. n : ~SamePort(b[i], q)
  <2> SUFFICES ASSUME NEW i \in 1 .. n, SamePort(b[i], q) PROVE FALSE
    OBVIOUS
  <2>1. b[i].netid \in Plain /\ b[n + 1].netid \in Plain /\ ~SameService(b[i], b[n + 1])
    OBVIOUS
  <2>2. b[i].netid = b[n + 1].netid
    BY <1>2, <2>1 DEF SamePort
  <2> QED BY <2>1, <2>2, PlainTransports DEF SamePort, SameService
<1>4. \A k \in 1 .. Len(m) : ~SamePort(b[n + 1], m[k])
  <2> SUFFICES ASSUME NEW k \in 1 .. Len(m), SamePort(b[n + 1], m[k]) PROVE FALSE
    OBVIOUS
  <2>1. PICK i \in 1 .. n : SamePort(b[i], m[k])
    BY DEF Agree
  <2>2. SamePort(b[i], q)
    BY <2>1 DEF SamePort
  <2> QED BY <1>3, <2>2
<1>5. ASSUME NEW i \in 1 .. n + 1, HasPort(b[i]) PROVE \E k \in 1 .. Len(w) : SamePort(b[i], w[k])
  <2>1. CASE i = n + 1
    BY <1>1, <2>1
  <2>2. CASE i \in 1 .. n
    <3>1. PICK k \in 1 .. Len(m) : SamePort(b[i], m[k])
      BY <1>5, <2>2 DEF Agree
    <3> QED BY <1>1, <3>1
  <2> QED BY <2>1, <2>2
<1>6. ASSUME NEW k \in 1 .. Len(w) PROVE \E i \in 1 .. n + 1 : SamePort(b[i], w[k])
  <2>1. CASE k = Len(m) + 1
    BY <1>1, <2>1
  <2>2. CASE k \in 1 .. Len(m)
    <3>1. PICK i \in 1 .. n : SamePort(b[i], m[k])
      BY <2>2 DEF Agree
    <3> QED BY <1>1, <2>2, <3>1
  <2> QED BY <1>1, <2>1, <2>2
<1>7. ASSUME NEW i \in 1 .. n + 1, NEW j \in 1 .. n + 1, NEW k \in 1 .. Len(w), NEW l \in 1 .. Len(w),
             SamePort(b[i], w[k]), SamePort(b[j], w[l])
      PROVE  (i < j => k < l) /\ (i = j => k = l)
  <2>1. \/ i = n + 1 /\ k = Len(m) + 1
        \/ i \in 1 .. n /\ k \in 1 .. Len(m) /\ SamePort(b[i], m[k])
    BY <1>1, <1>3, <1>4, <1>7
  <2>2. \/ j = n + 1 /\ l = Len(m) + 1
        \/ j \in 1 .. n /\ l \in 1 .. Len(m) /\ SamePort(b[j], m[l])
    BY <1>1, <1>3, <1>4, <1>7
  <2>3. CASE /\ i \in 1 .. n /\ k \in 1 .. Len(m) /\ SamePort(b[i], m[k])
             /\ j \in 1 .. n /\ l \in 1 .. Len(m) /\ SamePort(b[j], m[l])
    BY <2>3 DEF Agree
  <2> QED BY <1>1, <2>1, <2>2, <2>3
<1>8. Agree(b, n + 1, w)
  BY <1>5, <1>6, <1>7 DEF Agree
<1> QED BY <1>8 DEF w

LEMMA AgreeAppendLocal ==
  ASSUME NEW T, NEW b, NEW n \in Nat, NEW m \in Seq(T), Agree(b, n, m), ~HasPort(b[n + 1]),
         \A k \in 1 .. Len(m) : m[k].prot /= "none"
  PROVE  Agree(b, n + 1, m)
<1>1. \A k \in 1 .. Len(m) : ~SamePort(b[n + 1], m[k])
  BY DEF SamePort, HasPort
<1>2. \A i \in 1 .. n + 1 : i = n + 1 \/ i \in 1 .. n
  OBVIOUS
<1>3. ASSUME NEW i \in 1 .. n + 1, HasPort(b[i]) PROVE \E k \in 1 .. Len(m) : SamePort(b[i], m[k])
  BY <1>2, <1>3 DEF Agree
<1>4. ASSUME NEW k \in 1 .. Len(m) PROVE \E i \in 1 .. n + 1 : SamePort(b[i], m[k])
  BY DEF Agree
<1>5. ASSUME NEW i \in 1 .. n + 1, NEW j \in 1 .. n + 1, NEW k \in 1 .. Len(m), NEW l \in 1 .. Len(m),
             SamePort(b[i], m[k]), SamePort(b[j], m[l])
      PROVE  (i < j => k < l) /\ (i = j => k = l)
  BY <1>1, <1>2, <1>5 DEF Agree
<1> QED BY <1>3, <1>4, <1>5 DEF Agree

(* Lists that agree give the same port and address, for a version that is  *)
(* registered and, with the last of the other versions, for one that is    *)
(* not: find_service and find_service_pmap.                                *)
LEMMA RegLast ==
  ASSUME NEW I, NEW n \in Nat, I \subseteq 1 .. n, I /= {}
  PROVE  RG!Last(I) \in I /\ \A j \in I : RG!Last(I) >= j
<1> DEFINE M == {n - i : i \in I}
<1>1. M \subseteq Nat /\ M /= {}
  OBVIOUS
<1>2. PICK k \in M : \A j \in M : k <= j
  BY <1>1, LeastExists
<1>3. PICK x \in I : k = n - x
  BY <1>2
<1>4. ASSUME NEW j \in I PROVE x >= j
  <2>1. n - j \in M
    OBVIOUS
  <2>2. k <= n - j
    BY <1>2, <2>1
  <2>3. x \in Nat /\ j \in Nat
    OBVIOUS
  <2> QED BY <1>3, <2>2, <2>3
<1>5. \E i \in I : \A j \in I : i >= j
  BY <1>4
<1> QED BY <1>5 DEF RG!Last

SameAnswer(b, m, p, v, prot) ==
  LET i == RG!find_service(b, p, v, RG!pmap_ipprot2netid(prot))
      k == RG!find_service_pmap(m, p, v, prot)
  IN \/ i = 0 /\ k = 0
     \/ i \in 1 .. Len(b) /\ k \in 1 .. Len(m) /\ b[i].addr = m[k].port

LEMMA AgreeLookup ==
  ASSUME NEW S, NEW T, NEW b \in Seq(S), NEW m \in Seq(T), Agree(b, Len(b), m), RG!PlainNames,
         \A i \in 1 .. Len(b) : b[i].netid \in Plain,
         NEW p, NEW v, NEW prot \in {"TCP", "UDP"}
  PROVE  SameAnswer(b, m, p, v, prot)
<1> DEFINE n == RG!pmap_ipprot2netid(prot)
           I == {i \in 1 .. Len(b) : b[i].prog = p /\ RG!strcasecmp(b[i].netid, n)}
           E == {i \in I : b[i].vers = v}
           K == {k \in 1 .. Len(m) : m[k].prog = p /\ m[k].prot = prot}
           F == {k \in K : m[k].vers = v}
<1>1. /\ RG!find_service(b, p, v, n) = RG!hit(I, E)
      /\ RG!find_service_pmap(m, p, v, prot) = RG!hit(K, F)
  BY DEF RG!find_service, RG!find_service_pmap
<1>2. n \in Plain /\ RG!pmap_netid2ipprot(n) = prot
      /\ \A x \in Plain : RG!pmap_netid2ipprot(x) = prot <=> RG!strcasecmp(x, n)
  BY PlainTransports DEF Plain
<1>3. \A i \in 1 .. Len(b), k \in 1 .. Len(m) : SamePort(b[i], m[k]) => (i \in I <=> k \in K) /\ (i \in E <=> k \in F)
  BY <1>2 DEF SamePort
<1>4. \A i \in I : HasPort(b[i])
  BY <1>2 DEF HasPort
<1>5. I \subseteq 1 .. Len(b) /\ E \subseteq I /\ K \subseteq 1 .. Len(m) /\ F \subseteq K
  OBVIOUS
<1>6. Len(b) \in Nat /\ Len(m) \in Nat
  OBVIOUS
<1> HIDE DEF n, I, E, K, F
<1>7. /\ \A i \in I : \E k \in K : SamePort(b[i], m[k])
      /\ \A i \in E : \E k \in F : SamePort(b[i], m[k])
  BY <1>3, <1>4, <1>5 DEF Agree
<1>8. /\ \A k \in K : \E i \in I : SamePort(b[i], m[k])
      /\ \A k \in F : \E i \in E : SamePort(b[i], m[k])
  BY <1>3, <1>5 DEF Agree
<1>9. \A x, y \in 1 .. Len(b), u, w \in 1 .. Len(m) :
        SamePort(b[x], m[u]) /\ SamePort(b[y], m[w]) => (x < y => u < w) /\ (x = y => u = w)
  BY DEF Agree
<1>10. CASE E /= {}
  <2> DEFINE x == RG!First(E)
             u == RG!First(F)
  <2>1. F /= {} /\ E \subseteq Nat /\ F \subseteq Nat
    <3>1. F /= {}
      BY <1>7, <1>10
    <3>2. \A i \in E : i \in Nat
      BY <1>5, <1>6
    <3>3. \A k \in F : k \in Nat
      BY <1>5, <1>6
    <3> QED BY <3>1, <3>2, <3>3
  <2>2. x \in E /\ (\A j \in E : x <= j) /\ u \in F /\ \A j \in F : u <= j
    BY <1>10, <2>1, RegFirst
  <2> HIDE DEF x, u
  <2>3. PICK w \in F : SamePort(b[x], m[w])
    BY <1>7, <2>2
  <2>4. PICK y \in E : SamePort(b[y], m[u])
    BY <1>8, <2>2
  <2>5. x \in 1 .. Len(b) /\ y \in 1 .. Len(b) /\ u \in 1 .. Len(m) /\ w \in 1 .. Len(m)
    BY <1>5, <2>2
  <2>6. x <= y /\ u <= w /\ (x < y => w < u)
    BY <1>9, <2>2, <2>3, <2>4, <2>5
  <2>7. x = y
    BY <1>6, <2>5, <2>6
  <2>8. b[x].addr = m[u].port
    BY <2>4, <2>7 DEF SamePort
  <2>9. RG!hit(I, E) = x /\ RG!hit(K, F) = u
    BY <1>10, <2>1 DEF RG!hit, x, u
  <2> QED BY <1>1, <2>5, <2>8, <2>9 DEF n, SameAnswer
<1>11. CASE E = {} /\ I /= {}
  <2> DEFINE x == RG!Last(I)
             u == RG!Last(K)
  <2>1. F = {} /\ K /= {}
    BY <1>7, <1>8, <1>11
  <2>2. x \in I /\ (\A j \in I : x >= j) /\ u \in K /\ \A j \in K : u >= j
    BY <1>5, <1>6, <1>11, <2>1, RegLast
  <2> HIDE DEF x, u
  <2>3. PICK w \in K : SamePort(b[x], m[w])
    BY <1>7, <2>2
  <2>4. PICK y \in I : SamePort(b[y], m[u])
    BY <1>8, <2>2
  <2>5. x \in 1 .. Len(b) /\ y \in 1 .. Len(b) /\ u \in 1 .. Len(m) /\ w \in 1 .. Len(m)
    BY <1>5, <2>2
  <2>6. x >= y /\ u >= w /\ (y < x => u < w)
    BY <1>9, <2>2, <2>3, <2>4, <2>5
  <2>7. x = y
    BY <1>6, <2>5, <2>6
  <2>8. b[x].addr = m[u].port
    BY <2>4, <2>7 DEF SamePort
  <2>9. RG!hit(I, E) = x /\ RG!hit(K, F) = u
    BY <1>11, <2>1 DEF RG!hit, x, u
  <2> QED BY <1>1, <2>5, <2>8, <2>9 DEF n, SameAnswer
<1>12. CASE E = {} /\ I = {}
  <2>1. F = {} /\ K = {}
    BY <1>8, <1>12
  <2>2. RG!hit(I, E) = 0 /\ RG!hit(K, F) = 0
    BY <1>12, <2>1 DEF RG!hit
  <2> QED BY <1>1, <2>2 DEF n, SameAnswer
<1> QED BY <1>10, <1>11, <1>12

(* The lists agree between requests; while a SET is under way but for its  *)
(* registration; while a UNSET is, but for what it is going to remove.     *)
Others ==
  LET n == Head(pc.todo) IN
  {i \in 1 .. Len(list_pml) : \/ list_pml[i].prog /= pc.prog \/ list_pml[i].vers /= pc.vers
                              \/ n /= RG!NoName /\ list_pml[i].prot /= RG!pmap_netid2ipprot(n)}
AgreeInv ==
  /\ pc.op /= "down"
  /\ \A i \in 1 .. Len(rbl) : rbl[i].netid \in Plain
  /\ pc.op \in {"idle", "reply"} => Agree(rbl, Len(rbl), list_pml)
  /\ pc.op = "add" => /\ Len(rbl) >= 1 /\ Agree(rbl, Len(rbl) - 1, list_pml)
                      /\ rbl[Len(rbl)].prog = pc.reg.prog /\ rbl[Len(rbl)].vers = pc.reg.vers
                      /\ rbl[Len(rbl)].netid = pc.reg.netid /\ rbl[Len(rbl)].addr = pc.reg.addr
  /\ pc.op = "unset" => /\ pc.todo \in Seq(Plain)
                        /\ ~pc.found => Agree(rbl, Len(rbl), list_pml)
                        /\ pc.found => /\ ~\E i \in 1 .. Len(rbl) : RG!matches(rbl[i])
                                       /\ Agree(rbl, Len(rbl), RG!Keep(list_pml, Others))

LEMMA AgreeInitial == ASSUME RG!PlainNames, RG!Init PROVE AgreeInv
<1> DEFINE b == RG!own_rbl_list
           m == RG!own_pml_list
           vers(k) == IF k <= 3 THEN 5 - k ELSE 8 - k
           own(n) == [k \in 1 .. 3 |-> RG!rbllist_add(5 - k, n)]
           ports(q) == [k \in 1 .. 3 |-> RG!own_pml(5 - k, q)]
           l == RG!init_rbl("local")
<1>1. rbl = b /\ list_pml = m /\ pc = RG!idle
  BY DEF RG!Init
<1>2. pc.op = "idle"
  BY <1>1 DEF RG!idle
<1>3. RG!init_rbl("tcp") = own("tcp") /\ RG!init_rbl("udp") = own("udp")
  <2>1. "tcp" \in Transports /\ "udp" \in Transports
    BY DEF RG!PlainNames
  <2>2. ASSUME NEW n \in {"tcp", "udp"} PROVE RG!init_rbl(n) = own(n)
    <3>1. RG!own_versions(n) = <<4, 3, 2>>
      BY DEF RG!own_versions
    <3>2. Len(<<4, 3, 2>>) = 3 /\ \A k \in 1 .. 3 : <<4, 3, 2>>[k] = 5 - k
      OBVIOUS
    <3>3. RG!init_rbl(n) = [k \in 1 .. 3 |-> RG!rbllist_add(<<4, 3, 2>>[k], n)]
      BY <2>1, <3>1, <3>2 DEF RG!init_rbl
    <3> QED BY <3>2, <3>3
  <2> QED BY <2>2
<1>4. RG!init_pml("tcp") = ports("TCP") /\ RG!init_pml("udp") = ports("UDP")
  <2>1. "tcp" \in Transports /\ "udp" \in Transports
    BY DEF RG!PlainNames
  <2>2. ASSUME NEW n \in {"tcp", "udp"} PROVE RG!init_pml(n) = ports(RG!pmap_netid2ipprot(n))
    <3>1. RG!own_versions(n) = <<4, 3, 2>>
      BY DEF RG!own_versions
    <3>2. \A k \in 1 .. 3 : <<4, 3, 2>>[k] = 5 - k
      OBVIOUS
    <3>3. RG!init_pml(n) = [k \in 1 .. 3 |-> RG!own_pml(<<4, 3, 2>>[k], RG!pmap_netid2ipprot(n))]
      BY <2>1, <3>1, <3>2 DEF RG!init_pml
    <3> QED BY <3>2, <3>3
  <2> QED BY <2>2, PlainTransports
<1>5. l \in Seq(RegEntry) /\ \A k \in 1 .. Len(l) : l[k].netid = "local"
  BY OwnTransport
<1>6. \A v, n : /\ RG!rbllist_add(v, n).prog = 0 /\ RG!rbllist_add(v, n).vers = v
                /\ RG!rbllist_add(v, n).netid = n /\ RG!rbllist_add(v, n).addr = 111
  BY DEF RG!rbllist_add, RG!RPCBPROG, RG!PMAPPORT
<1>7. \A v, q : /\ RG!own_pml(v, q).prog = 0 /\ RG!own_pml(v, q).vers = v
                /\ RG!own_pml(v, q).prot = q /\ RG!own_pml(v, q).port = 111
  BY DEF RG!own_pml, RG!RPCBPROG, RG!PMAPPORT
<1>8. /\ own("tcp") \in Seq(RegEntry) /\ own("udp") \in Seq(RegEntry)
      /\ ports("TCP") \in Seq(PmapEntry) /\ ports("UDP") \in Seq(PmapEntry)
  <2>1. ASSUME NEW v \in 2 .. 4, NEW n \in {"tcp", "udp"} PROVE RG!rbllist_add(v, n) \in RegEntry
    BY DEF RG!rbllist_add, RegEntry, RegName, RegOwner, RegUser
  <2>2. ASSUME NEW v \in 2 .. 4, NEW q \in {"TCP", "UDP"} PROVE RG!own_pml(v, q) \in PmapEntry
    BY DEF RG!own_pml, PmapEntry
  <2>3. \A k \in 1 .. 3 : 5 - k \in 2 .. 4
    OBVIOUS
  <2> QED BY <2>1, <2>2, <2>3
<1>9. b = own("tcp") \o own("udp") \o l /\ m = ports("TCP") \o ports("UDP")
  BY <1>3, <1>4 DEF RG!own_rbl_list, RG!own_pml_list
<1> HIDE DEF l, b, m
<1>10. Len(l) \in Nat /\ Len(b) = 6 + Len(l) /\ Len(m) = 6
  BY <1>5, <1>8, <1>9
<1>11. \A k \in 1 .. 6 : /\ b[k].prog = 0 /\ b[k].vers = vers(k) /\ b[k].addr = 111
                         /\ b[k].netid = IF k <= 3 THEN "tcp" ELSE "udp"
  <2>1. \A k \in 1 .. 3 : b[k] = RG!rbllist_add(5 - k, "tcp")
    BY <1>5, <1>8, <1>9
  <2>2. \A k \in 4 .. 6 : b[k] = RG!rbllist_add(8 - k, "udp")
    BY <1>5, <1>8, <1>9
  <2> QED BY <1>6, <2>1, <2>2
<1>12. \A k \in 1 .. 6 : /\ m[k].prog = 0 /\ m[k].vers = vers(k) /\ m[k].port = 111
                         /\ m[k].prot = IF k <= 3 THEN "TCP" ELSE "UDP"
  <2>1. \A k \in 1 .. 3 : m[k] = RG!own_pml(5 - k, "TCP")
    BY <1>8, <1>9
  <2>2. \A k \in 4 .. 6 : m[k] = RG!own_pml(8 - k, "UDP")
    BY <1>8, <1>9
  <2> QED BY <1>7, <2>1, <2>2
<1>13. \A k \in 7 .. Len(b) : b[k].netid = "local"
  <2> SUFFICES ASSUME NEW k \in 7 .. Len(b) PROVE b[k].netid = "local"
    OBVIOUS
  <2>1. b[k] = l[k - 6] /\ k - 6 \in 1 .. Len(l)
    BY <1>5, <1>8, <1>9, <1>10
  <2> QED BY <1>5, <2>1
<1>14. \A i \in 1 .. Len(b) : i \in 1 .. 6 \/ i \in 7 .. Len(b)
  BY <1>10
<1>15. \A i \in 1 .. Len(b) : b[i].netid \in Plain
  BY <1>11, <1>13, <1>14 DEF Plain
<1>16. \A i \in 1 .. 6 : SamePort(b[i], m[i])
  BY <1>11, <1>12, PlainTransports DEF SamePort
<1>17. \A i \in 7 .. Len(b) : ~HasPort(b[i]) /\ \A k \in 1 .. 6 : ~SamePort(b[i], m[k])
  BY <1>12, <1>13, PlainTransports DEF SamePort, HasPort
<1>18. \A i, k \in 1 .. 6 : SamePort(b[i], m[k]) => i = k
  <2> SUFFICES ASSUME NEW i \in 1 .. 6, NEW k \in 1 .. 6, SamePort(b[i], m[k]) PROVE i = k
    OBVIOUS
  <2>1. vers(i) = vers(k) /\ (i <= 3 <=> k <= 3)
    BY <1>11, <1>12, PlainTransports DEF SamePort
  <2> QED BY <2>1
<1>19. Agree(b, Len(b), m)
  <2>1. \A i \in 1 .. Len(b), k \in 1 .. 6 : SamePort(b[i], m[k]) => i = k
    BY <1>14, <1>17, <1>18
  <2>2. \A i \in 1 .. Len(b) : HasPort(b[i]) => \E k \in 1 .. 6 : SamePort(b[i], m[k])
    BY <1>14, <1>16, <1>17
  <2>3. \A k \in 1 .. 6 : k \in 1 .. Len(b) /\ SamePort(b[k], m[k])
    BY <1>10, <1>16
  <2> QED BY <1>10, <2>1, <2>2, <2>3 DEF Agree
<1> QED BY <1>1, <1>2, <1>15, <1>19 DEF AgreeInv

LEMMA AgreeSet ==
  ASSUME RG!PlainNames, RegInv, AgreeInv, NEW c \in Callers, NEW r \in RG!Regs, RG!Set(c, r)
  PROVE  AgreeInv'
<1>1. pc = RG!idle /\ RG!map_set(c, r) /\ list_pml' = list_pml
  BY DEF RG!Set
<1>2. pc.op = "idle"
  BY <1>1 DEF RG!idle
<1>3. Agree(rbl, Len(rbl), list_pml) /\ \A i \in 1 .. Len(rbl) : rbl[i].netid \in Plain
  BY <1>2 DEF AgreeInv
<1> DEFINE x == RG!find_service(rbl, r.prog, r.vers, r.netid)
           b == rbl[x].addr = r.addr
           e == [prog |-> r.prog, vers |-> r.vers, netid |-> r.netid,
                 addr |-> r.addr, owner |-> RG!getowner(c), by |-> c.user]
<1>4. \/ pc' = [op |-> "reply", ans |-> b, proc |-> "SET"] /\ rbl' = rbl
      \/ rbl' = Append(rbl, e) /\ pc' = [op |-> "add", reg |-> r]
  BY <1>1 DEF RG!map_set, RG!map_set_any
<1> HIDE DEF x, b
<1>5. CASE pc' = [op |-> "reply", ans |-> b, proc |-> "SET"] /\ rbl' = rbl
  <2>1. pc'.op = "reply"
    BY <1>5, Zenon
  <2> QED BY <1>1, <1>3, <1>5, <2>1 DEF AgreeInv
<1>6. CASE rbl' = Append(rbl, e) /\ pc' = [op |-> "add", reg |-> r]
  <2>1. pc'.op = "add" /\ pc'.reg = r
    BY <1>6
  <2>2. e.prog = r.prog /\ e.vers = r.vers /\ e.netid = r.netid /\ e.addr = r.addr
    OBVIOUS
  <2>3. r.netid \in Plain
    BY DEF RG!Regs, RG!PlainNames, Plain
  <2> HIDE DEF e
  <2>4. rbl \in Seq(RegEntry)
    BY DEF RegInv, RegTypes
  <2>5. /\ Len(rbl) \in Nat /\ Len(rbl') = Len(rbl) + 1 /\ rbl'[Len(rbl) + 1] = e
        /\ \A k \in 1 .. Len(rbl) : rbl'[k] = rbl[k]
    BY <1>6, <2>4
  <2>6. Agree(rbl', Len(rbl), list_pml)
    BY <1>3, <2>5 DEF Agree
  <2>7. Len(rbl') - 1 = Len(rbl) /\ Len(rbl') >= 1 /\ rbl'[Len(rbl')] = e
    BY <2>5
  <2>8. \A i \in 1 .. Len(rbl') : rbl'[i].netid \in Plain
    BY <1>3, <2>2, <2>3, <2>5
  <2> QED BY <1>1, <2>1, <2>2, <2>6, <2>7, <2>8 DEF AgreeInv
<1> QED BY <1>4, <1>5, <1>6

LEMMA AgreeAdd == ASSUME RG!PlainNames, RegInv, AgreeInv, RG!add_pmaplist PROVE AgreeInv'
<1> DEFINE r == pc.reg
           q == RG!pmap_netid2ipprot(r.netid)
           e == [prog |-> r.prog, vers |-> r.vers, prot |-> q, port |-> r.addr]
           n == Len(rbl) - 1
<1>1. /\ pc.op = "add" /\ pc' = [op |-> "reply", ans |-> TRUE, proc |-> "SET"] /\ rbl' = rbl
      /\ list_pml' = IF q = "none" \/ r.addr = 0 THEN list_pml ELSE Append(list_pml, e)
  BY DEF RG!add_pmaplist
<1>2. pc'.op = "reply"
  BY <1>1
<1>3. r \in RG!Regs /\ list_pml \in Seq(PmapEntry) /\ rbl \in Seq(RegEntry) /\ Unique(rbl)
  BY <1>1 DEF RegInv, RegTypes
<1>4. r.prog \in Progs /\ r.vers \in Vers /\ r.addr \in Addrs /\ r.addr /= 0
  BY <1>3 DEF RG!Regs, RG!PlainNames
<1>5. q \in {"TCP", "UDP", "none"}
  BY DEF RG!pmap_netid2ipprot
<1> HIDE DEF r
<1>6. /\ Len(rbl) >= 1 /\ Agree(rbl, n, list_pml) /\ \A i \in 1 .. Len(rbl) : rbl[i].netid \in Plain
      /\ rbl[Len(rbl)].prog = r.prog /\ rbl[Len(rbl)].vers = r.vers
      /\ rbl[Len(rbl)].netid = r.netid /\ rbl[Len(rbl)].addr = r.addr
  BY <1>1 DEF AgreeInv, r
<1>7. Len(rbl) \in Nat /\ n \in Nat /\ n + 1 = Len(rbl)
  BY <1>3, <1>6
<1>8. Agree(rbl, n + 1, list_pml')
  <2>1. CASE q = "none"
    <3>1. ~HasPort(rbl[n + 1])
      BY <1>6, <1>7, <2>1 DEF HasPort
    <3>2. \A k \in 1 .. Len(list_pml) : list_pml[k].prot /= "none"
      <4>1. \A k \in 1 .. Len(list_pml) : list_pml[k] \in PmapEntry
        BY <1>3
      <4> QED BY <4>1 DEF PmapEntry
    <3>3. Agree(rbl, n + 1, list_pml)
      BY <1>3, <1>6, <1>7, <3>1, <3>2, AgreeAppendLocal
    <3> QED BY <1>1, <2>1, <3>3
  <2>2. CASE q /= "none"
    <3>1. HasPort(rbl[n + 1]) /\ SamePort(rbl[n + 1], e)
      BY <1>6, <1>7, <2>2 DEF HasPort, SamePort
    <3>2. e \in PmapEntry
      <4> HIDE DEF q
      <4> QED BY <1>4, <1>5, <2>2 DEF PmapEntry
    <3>3. \A i \in 1 .. n : ~SameService(rbl[i], rbl[n + 1])
      BY <1>3, <1>7 DEF Unique
    <3>4. \A i \in 1 .. n + 1 : rbl[i].netid \in Plain
      BY <1>6, <1>7
    <3> HIDE DEF e, n
    <3>5. Agree(rbl, n + 1, Append(list_pml, e))
      BY <1>3, <1>6, <1>7, <3>1, <3>2, <3>3, <3>4, AgreeAppend
    <3> QED BY <1>1, <1>4, <2>2, <3>5
  <2> QED BY <2>1, <2>2
<1> QED BY <1>1, <1>2, <1>6, <1>7, <1>8 DEF AgreeInv

LEMMA AgreeUnset ==
  ASSUME RG!PlainNames, RegInv, AgreeInv, NEW c, NEW p, NEW v, NEW todo, NEW proc,
         (\E n \in Netids : todo = <<n>>) \/ todo = <<RG!tcptrans, RG!udptrans>>,
         RG!Unset(c, p, v, todo, proc)
  PROVE  AgreeInv'
<1> DEFINE o == RG!getowner(c)
           w == c.user
<1>1. /\ pc = RG!idle
      /\ pc' = [op |-> "unset", prog |-> p, vers |-> v, todo |-> todo, owner |-> o,
                by |-> w, proc |-> proc, found |-> FALSE, ans |-> FALSE]
      /\ rbl' = rbl /\ list_pml' = list_pml
  BY DEF RG!Unset
<1>2. pc.op = "idle"
  BY <1>1 DEF RG!idle
<1> HIDE DEF o, w
<1>3. pc'.op = "unset" /\ pc'.todo = todo /\ pc'.found = FALSE
  BY <1>1
<1>4. todo \in Seq(Plain)
  <2>1. \A n \in Netids : n \in Plain
    BY DEF RG!PlainNames, Plain
  <2>2. RG!tcptrans \in Plain /\ RG!udptrans \in Plain
    BY PlainTransports DEF Plain
  <2>3. \A n \in Plain : <<n>> \in Seq(Plain)
    OBVIOUS
  <2>4. <<RG!tcptrans, RG!udptrans>> \in Seq(Plain)
    BY <2>2
  <2> QED BY <2>1, <2>3, <2>4
<1> QED BY <1>1, <1>2, <1>3, <1>4 DEF AgreeInv

(* What a UNSET has removed from the one list is what it is going to       *)
(* remove from the other, as a service is registered once.                 *)
LEMMA AgreeMapUnset == ASSUME RG!PlainNames, RegInv, AgreeInv, RG!map_unset PROVE AgreeInv'
<1> DEFINE I == {i \in 1 .. Len(rbl) : RG!matches(rbl[i])}
           x == RG!First(I)
           J == (1 .. Len(rbl)) \ {x}
           K == RG!Keep(rbl, J)
           n == Head(pc.todo)
<1>1. /\ pc.op = "unset" /\ I /= {} /\ list_pml' = list_pml
      /\ \/ rbl' = K /\ pc' = [pc EXCEPT !.found = TRUE]
         \/ pc' = RG!done(pc, FALSE) /\ rbl' = rbl
  BY DEF RG!map_unset
<1>2. /\ rbl \in Seq(RegEntry) /\ list_pml \in Seq(PmapEntry) /\ Unique(rbl)
      /\ pc \in UnsetReq /\ pc.todo /= <<>>
  BY <1>1 DEF RegInv, RegTypes
<1>3. pc.found \in BOOLEAN /\ pc.op = "unset"
  BY <1>2 DEF UnsetReq
<1>4. pc.todo \in Seq(Plain) /\ ~pc.found /\ Agree(rbl, Len(rbl), list_pml)
      /\ \A i \in 1 .. Len(rbl) : rbl[i].netid \in Plain
  BY <1>1, <1>3 DEF AgreeInv
<1>5. n \in Plain
  BY <1>2, <1>4
<1>6. x \in I
  <2>1. I \subseteq Nat
    OBVIOUS
  <2> QED BY <1>1, <2>1, RegFirst
<1>7. \A i \in 1 .. Len(rbl) : RG!matches(rbl[i]) <=>
        rbl[i].prog = pc.prog /\ rbl[i].vers = pc.vers /\ rbl[i].netid = n
  <2>1. n /= RG!NoName
    BY <1>5, PlainTransports
  <2>2. \A i \in 1 .. Len(rbl) : RG!strcasecmp(n, rbl[i].netid) <=> rbl[i].netid = n
    BY <1>4, <1>5, PlainTransports
  <2> HIDE DEF n
  <2> QED BY <2>1, <2>2 DEF RG!matches, n
<1>8. x \in 1 .. Len(rbl) /\ RG!matches(rbl[x])
  BY <1>6
<1>9. \A i \in J : ~RG!matches(rbl[i])
  <2> SUFFICES ASSUME NEW i \in J, RG!matches(rbl[i]) PROVE FALSE
    OBVIOUS
  <2>1. i \in 1 .. Len(rbl) /\ i /= x
    OBVIOUS
  <2> HIDE DEF x, I, J, n
  <2>2. SameService(rbl[i], rbl[x])
    BY <1>7, <1>8, <2>1 DEF SameService, RG!strcasecmp
  <2> QED BY <1>2, <1>8, <2>1, <2>2 DEF Unique
<1>10. CASE pc' = RG!done(pc, FALSE) /\ rbl' = rbl
  <2>1. /\ pc'.op \in {"unset", "reply"}
        /\ pc'.op = "unset" => pc'.todo = Tail(pc.todo) /\ pc'.todo /= <<>> /\ pc'.found = FALSE
    BY <1>2, <1>10, DoneRequest
  <2>2. Tail(pc.todo) \in Seq(Plain)
    BY <1>2, <1>4
  <2> QED BY <1>1, <1>4, <1>10, <2>1, <2>2 DEF AgreeInv
<1>11. CASE rbl' = K /\ pc' = [pc EXCEPT !.found = TRUE]
  <2>1. /\ pc'.op = "unset" /\ pc'.found = TRUE /\ pc'.todo = pc.todo /\ pc'.prog = pc.prog /\ pc'.vers = pc.vers
    BY <1>2, <1>11 DEF UnsetReq
  <2>2. Others' = Others
    BY <1>1, <2>1 DEF Others
  <2>3. J \subseteq 1 .. Len(rbl) /\ Others \subseteq 1 .. Len(list_pml)
    BY DEF Others
  <2>4. \A i \in 1 .. Len(rbl) : i \in J <=> ~RG!matches(rbl[i])
    BY <1>8, <1>9
  <2> HIDE DEF x, I, J, n
  <2>5. K \in Seq(RegEntry) /\ \E g : Selects(g, K, rbl, J)
    BY <1>2, <2>3, KeepsInOrder
  <2>6. \A k \in 1 .. Len(list_pml) : list_pml[k].prot \in {"TCP", "UDP"}
    <3>1. \A k \in 1 .. Len(list_pml) : list_pml[k] \in PmapEntry
      BY <1>2
    <3> QED BY <3>1 DEF PmapEntry
  <2>7. ASSUME NEW i \in 1 .. Len(rbl), NEW k \in 1 .. Len(list_pml), SamePort(rbl[i], list_pml[k])
        PROVE  i \in J <=> k \in Others
    <3>1. k \in Others <=> \/ list_pml[k].prog /= pc.prog \/ list_pml[k].vers /= pc.vers
                           \/ list_pml[k].prot /= RG!pmap_netid2ipprot(n)
      <4>1. n /= RG!NoName
        BY <1>5, PlainTransports
      <4> QED BY <4>1 DEF Others, n
    <3>2. \A y, z \in Plain : RG!pmap_netid2ipprot(y) \in {"TCP", "UDP"} =>
            (y = z <=> RG!pmap_netid2ipprot(y) = RG!pmap_netid2ipprot(z))
      BY PlainTransports DEF Plain
    <3>3. rbl[i].netid = n <=> list_pml[k].prot = RG!pmap_netid2ipprot(n)
      BY <1>4, <1>5, <2>6, <2>7, <3>2 DEF SamePort
    <3> QED BY <1>7, <2>4, <2>7, <3>1, <3>3 DEF SamePort
  <2>8. Agree(K, Len(K), RG!Keep(list_pml, Others))
    BY <1>2, <1>4, <2>3, <2>7, AgreeKeep
  <2> HIDE DEF K
  <2>9. PICK g : Selects(g, K, rbl, J)
    BY <2>5
  <2>10. \A k \in 1 .. Len(K) : g[k] \in J /\ g[k] \in 1 .. Len(rbl) /\ K[k] = rbl[g[k]]
    BY <2>3, <2>9 DEF Selects
  <2>11. \A k \in 1 .. Len(K) : K[k].netid \in Plain /\ ~RG!matches(K[k])
    BY <1>4, <2>4, <2>10
  <2>12. (~\E i \in 1 .. Len(rbl) : RG!matches(rbl[i]))'
    BY <1>11, <2>1, <2>11 DEF RG!matches
  <2>13. Agree(rbl, Len(rbl), RG!Keep(list_pml, Others))'
    BY <1>1, <1>11, <2>2, <2>8
  <2> QED BY <1>4, <1>11, <2>1, <2>11, <2>12, <2>13 DEF AgreeInv
<1> QED BY <1>1, <1>10, <1>11

LEMMA AgreeMapUnsetEnd == ASSUME RG!PlainNames, RegInv, AgreeInv, RG!map_unset_end PROVE AgreeInv'
<1>1. /\ pc.op = "unset" /\ pc' = RG!done(pc, TRUE) /\ rbl' = rbl
      /\ list_pml' = IF pc.found THEN RG!Keep(list_pml, Others) ELSE list_pml
  BY DEF RG!map_unset_end, RG!del_pmaplist, Others
<1>2. pc \in UnsetReq /\ pc.todo /= <<>>
  BY <1>1 DEF RegInv, RegTypes
<1>3. pc.found \in BOOLEAN
  BY <1>2 DEF UnsetReq
<1>4. /\ pc.todo \in Seq(Plain) /\ \A i \in 1 .. Len(rbl) : rbl[i].netid \in Plain
      /\ pc.found => Agree(rbl, Len(rbl), RG!Keep(list_pml, Others))
      /\ ~pc.found => Agree(rbl, Len(rbl), list_pml)
  BY <1>1 DEF AgreeInv
<1>5. Agree(rbl', Len(rbl'), list_pml')
  BY <1>1, <1>3, <1>4
<1>6. /\ pc'.op \in {"unset", "reply"}
      /\ pc'.op = "unset" => pc'.todo = Tail(pc.todo) /\ pc'.found = FALSE
  BY <1>1, <1>2, DoneRequest
<1>7. Tail(pc.todo) \in Seq(Plain)
  BY <1>2, <1>4
<1> QED BY <1>1, <1>4, <1>5, <1>6, <1>7 DEF AgreeInv

LEMMA AgreeNext ==
  ASSUME RG!PlainNames, RegInv, AgreeInv, [RG!Next]_(RG!vars)
  PROVE  AgreeInv'
<1>1. CASE RegChange
  BY <1>1, AgreeSet, AgreeUnset, Zenon DEF RegChange
<1>2. CASE RG!add_pmaplist
  BY <1>2, AgreeAdd
<1>3. CASE RG!map_unset
  BY <1>3, AgreeMapUnset
<1>4. CASE RG!map_unset_end
  BY <1>4, AgreeMapUnsetEnd
<1>5. CASE RG!Reply
  <2>1. pc.op = "reply" /\ pc' = RG!idle /\ rbl' = rbl /\ list_pml' = list_pml
    BY <1>5 DEF RG!Reply
  <2>2. pc'.op = "idle"
    BY <2>1 DEF RG!idle
  <2> QED BY <2>1, <2>2 DEF AgreeInv
<1>6. CASE \E a \in Mortal : RG!Die(a)
  <2>1. pc = RG!idle /\ pc' = pc /\ rbl' = rbl /\ list_pml' = list_pml
    BY <1>6 DEF RG!Die
  <2>2. pc.op = "idle"
    BY <2>1 DEF RG!idle
  <2> QED BY <2>1, <2>2 DEF AgreeInv
<1>7. CASE RG!Terminate \/ RG!Crash
  BY <1>7 DEF RG!PlainNames, RG!Terminate, RG!terminate, RG!Crash
<1>8. CASE RG!Start
  BY <1>8 DEF RG!Start, RG!read_warmstart, AgreeInv
<1>9. CASE UNCHANGED RG!vars
  BY <1>9 DEF RG!vars, AgreeInv, Others, RG!matches
<1> QED BY <1>1, <1>2, <1>3, <1>4, <1>5, <1>6, <1>7, <1>8, <1>9, RegSteps

LEMMA PortsGiven == ASSUME RG!PlainNames, RegInv, AgreeInv PROVE RG!PortsAgree
<1> SUFFICES ASSUME pc = RG!idle, NEW p, NEW v, NEW prot \in {"TCP", "UDP"}
             PROVE  RG!pmapproc_getport(p, v, prot)
                    = RG!rpcbproc_getaddr_com(p, v, RG!pmap_ipprot2netid(prot), FALSE)
  BY DEF RG!PortsAgree
<1> DEFINE n == RG!pmap_ipprot2netid(prot)
           i == RG!find_service(rbl, p, v, n)
           k == RG!find_service_pmap(list_pml, p, v, prot)
<1>1. pc.op = "idle"
  BY DEF RG!idle
<1>2. /\ rbl \in Seq(RegEntry) /\ list_pml \in Seq(PmapEntry) /\ Agree(rbl, Len(rbl), list_pml)
      /\ \A x \in 1 .. Len(rbl) : rbl[x].netid \in Plain
  BY <1>1 DEF RegInv, RegTypes, AgreeInv
<1>3. (i = 0 /\ k = 0) \/ (i \in 1 .. Len(rbl) /\ k \in 1 .. Len(list_pml) /\ rbl[i].addr = list_pml[k].port)
  <2>1. SameAnswer(rbl, list_pml, p, v, prot)
    BY <1>2, AgreeLookup
  <2> QED BY <2>1 DEF SameAnswer
<1>4. (i = 0 /\ k = 0) \/ (i /= 0 /\ k /= 0 /\ rbl[i].addr = list_pml[k].port)
  BY <1>2, <1>3
<1>5. /\ RG!pmapproc_getport(p, v, prot) = IF k = 0 THEN {} ELSE {list_pml[k].port}
      /\ RG!rpcbproc_getaddr_com(p, v, n, FALSE) = IF i = 0 THEN {} ELSE {rbl[i].addr}
  BY DEF RG!pmapproc_getport, RG!rpcbproc_getaddr_com, RG!is_bound
<1> HIDE DEF i, k
<1> QED BY <1>4, <1>5

(* For any transports, callers, programs and addresses: whatever is set,   *)
(* removed, saved, lost and read back, a program has one address at most   *)
(* for a version and transport (map_set, map_unset, read_warmstart); and   *)
(* while the requests name the transports rpcbind has, and no signal ends  *)
(* it within one, version 2 of the protocol gives the port that versions 3 *)
(* and 4 give, also for a version that is not registered (find_service,    *)
(* find_service_pmap).                                                     *)
THEOREM RegistriesAgree == RG!Spec => []RG!RegistrationsAgree
<1> DEFINE Inv == RegInv /\ (RG!PlainNames => AgreeInv)
<1>1. RG!Init => Inv
  BY RegInitial, AgreeInitial
<1>2. Inv /\ [RG!Next]_(RG!vars) => Inv'
  <2>1. RG!PlainNames' <=> RG!PlainNames
    BY DEF RG!PlainNames
  <2> QED BY <2>1, RegNext, AgreeNext
<1>3. Inv => RG!RegistrationsAgree
  <2>1. RegInv => RG!OneAddress
    BY DEF RegInv, Unique, SameService, RG!OneAddress
  <2> QED BY <2>1, PortsGiven DEF RG!RegistrationsAgree
<1> QED BY <1>1, <1>2, <1>3, PTL DEF RG!Spec
=============================================================================
