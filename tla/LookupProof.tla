----------------------------- MODULE LookupProof -----------------------------
(***************************************************************************)
(* Proofs about finding services: the cache of addresses and the client    *)
(* handles of RpcbClnt, and the sessions of NetConfig, for any number of   *)
(* threads, hosts and entries of the configuration.                        *)
(***************************************************************************)
EXTENDS RpcbClnt, FiniteSetTheorems, SequenceTheorems, WellFoundedInduction, TLAPS

-----------------------------------------------------------------------------
(* A thread that tries a cached address has the read lock.                 *)
ReadLocked == \A t \in Threads : th[t].pc = "cached" => t \in readers

(* Where a thread may have which handle: while it looks for one, it has    *)
(* none but the one it will ask version 2 beside.                          *)
Fits(r) ==
  /\ r.phase /= "v2" => ~r.h2
  /\ r.pc \in {"lookup", "cached", "delete", "resolve", "add"} => ~r.h2 /\ (r.phase /= "v2" => r.h = 0)
  /\ r.pc \in {"idle", "local"} => r.h = 0 /\ ~r.h2
HandlesFit == \A t \in Threads : Fits(th[t])

LookupInv == AddressCacheSound /\ ReadLocked /\ HandlesFit

-----------------------------------------------------------------------------
(* A set that differs in one element.                                      *)
LEMMA CountOne ==
  ASSUME NEW A, NEW B, NEW t, IsFiniteSet(A), A \ {t} = B \ {t}
  PROVE  /\ IsFiniteSet(B) /\ Cardinality(A) \in Nat /\ Cardinality(B) \in Nat
         /\ Cardinality(B) = Cardinality(A) - (IF t \in A THEN 1 ELSE 0) + (IF t \in B THEN 1 ELSE 0)
<1>1. CASE (t \in A) = (t \in B)
  <2>1. A = B
    BY <1>1
  <2> QED BY <2>1, FS_CardinalityType
<1>2. CASE t \in A /\ t \notin B
  <2>1. B = A \ {t}
    BY <1>2
  <2> QED BY <1>2, <2>1, FS_RemoveElement, FS_CardinalityType
<1>3. CASE t \notin A /\ t \in B
  <2>1. B = A \cup {t}
    BY <1>3
  <2> QED BY <1>3, <2>1, FS_AddElement, FS_CardinalityType
<1> QED BY <1>1, <1>2, <1>3

(* The handles a thread accounts for.                                      *)
held(r) == (IF r.h /= 0 THEN 1 ELSE 0) + (IF r.h2 THEN 1 ELSE 0) + (IF r.pc = "add" THEN 1 ELSE 0)

(* A step of one thread keeps the account if live and kept change as what  *)
(* the thread holds.                                                       *)
LEMMA Accounting ==
  ASSUME TypeOK, HandlesAccounted, NEW t \in Threads, NEW r \in Thread,
         th' = [th EXCEPT ![t] = r], live' \in Int, kept' \in Nat,
         live' - kept' = live - kept + held(r) - held(th[t])
  PROVE  HandlesAccounted'
<1> DEFINE A1 == {u \in Threads : th[u].h /= 0}   B1 == {u \in Threads : th'[u].h /= 0}
           A2 == {u \in Threads : th[u].h2}       B2 == {u \in Threads : th'[u].h2}
           A3 == {u \in Threads : th[u].pc = "add"}  B3 == {u \in Threads : th'[u].pc = "add"}
<1>1. th \in [Threads -> Thread] /\ live \in Int /\ kept \in Nat
  BY DEF TypeOK
<1>2. \A u \in Threads : th'[u] = IF u = t THEN r ELSE th[u]
  BY <1>1
<1>3. IsFiniteSet(A1) /\ IsFiniteSet(A2) /\ IsFiniteSet(A3)
  BY CacheAssumption, FS_Subset
<1>4. A1 \ {t} = B1 \ {t} /\ A2 \ {t} = B2 \ {t} /\ A3 \ {t} = B3 \ {t}
  BY <1>2
<1>5. /\ t \in A1 <=> th[t].h /= 0
      /\ t \in A2 <=> th[t].h2
      /\ t \in A3 <=> th[t].pc = "add"
      /\ t \in B1 <=> r.h /= 0
      /\ t \in B2 <=> r.h2
      /\ t \in B3 <=> r.pc = "add"
  BY <1>2
<1>6. live = kept + Cardinality(A1) + Cardinality(A2) + Cardinality(A3)
  BY DEF HandlesAccounted
<1> HIDE DEF A1, A2, A3, B1, B2, B3
<1>7. /\ Cardinality(A1) \in Nat /\ Cardinality(B1) \in Nat
      /\ Cardinality(B1) = Cardinality(A1) - (IF t \in A1 THEN 1 ELSE 0) + (IF t \in B1 THEN 1 ELSE 0)
  BY <1>3, <1>4, CountOne
<1>8. /\ Cardinality(A2) \in Nat /\ Cardinality(B2) \in Nat
      /\ Cardinality(B2) = Cardinality(A2) - (IF t \in A2 THEN 1 ELSE 0) + (IF t \in B2 THEN 1 ELSE 0)
  BY <1>3, <1>4, CountOne
<1>9. /\ Cardinality(A3) \in Nat /\ Cardinality(B3) \in Nat
      /\ Cardinality(B3) = Cardinality(A3) - (IF t \in A3 THEN 1 ELSE 0) + (IF t \in B3 THEN 1 ELSE 0)
  BY <1>3, <1>4, CountOne
<1> DEFINE a1 == IF t \in A1 THEN 1 ELSE 0   b1 == IF t \in B1 THEN 1 ELSE 0
           a2 == IF t \in A2 THEN 1 ELSE 0   b2 == IF t \in B2 THEN 1 ELSE 0
           a3 == IF t \in A3 THEN 1 ELSE 0   b3 == IF t \in B3 THEN 1 ELSE 0
<1>10. {a1, a2, a3, b1, b2, b3} \subseteq Int
  OBVIOUS
<1>11. held(th[t]) = a1 + a2 + a3 /\ held(r) = b1 + b2 + b3
  BY <1>5 DEF held
<1> HIDE DEF a1, a2, a3, b1, b2, b3
<1>12. live' = kept' + Cardinality(B1) + Cardinality(B2) + Cardinality(B3)
  BY <1>1, <1>6, <1>7, <1>8, <1>9, <1>10, <1>11 DEF a1, a2, a3, b1, b2, b3
<1> QED BY <1>12 DEF HandlesAccounted, B1, B2, B3

(* A step of one thread that leaves the cache and its readers alone.       *)
LEMMA OneThread ==
  ASSUME LookupInv, NEW t \in Threads, NEW r \in Thread,
         th' = [th EXCEPT ![t] = r], UNCHANGED <<front, cachesize, readers>>,
         live' \in Int, kept' \in Nat, begun' \in Nat,
         live' - kept' = live - kept + held(r) - held(th[t]),
         Fits(r), r.pc /= "cached"
  PROVE  LookupInv'
<1>1. TypeOK /\ HandlesAccounted /\ CacheBounded /\ EntryHeld
  BY DEF LookupInv, AddressCacheSound
<1>2. HandlesAccounted'
  BY <1>1, Accounting
<1>3. \A u \in Threads : th'[u] = IF u = t THEN r ELSE th[u]
  BY <1>1 DEF TypeOK
<1>4. TypeOK'
  BY <1>1 DEF TypeOK
<1>5. CacheBounded'
  BY <1>1 DEF CacheBounded
<1>6. EntryHeld'
  BY <1>1, <1>3 DEF EntryHeld, Elements
<1>7. ReadLocked'
  BY <1>3 DEF LookupInv, ReadLocked
<1>8. HandlesFit'
  BY <1>3 DEF LookupInv, HandlesFit
<1> QED BY <1>2, <1>4, <1>5, <1>6, <1>7, <1>8 DEF LookupInv, AddressCacheSound

-----------------------------------------------------------------------------
(* The operators on the list.                                              *)
LEMMA LeastExists ==
  ASSUME NEW S, S \subseteq Nat, S /= {}
  PROVE  \E k \in S : \A j \in S : k <= j
<1>1. PICK k \in S : \A j \in S : ~(<<j, k>> \in OpToRel(<, Nat))
  BY NatLessThanWellFounded, WFMin
<1>2. ASSUME NEW j \in S PROVE k <= j
  <2>1. ~(j < k)
    BY <1>1 DEF OpToRel
  <2> QED BY <2>1
<1> QED BY <1>2

LEMMA FirstIsLeast ==
  ASSUME NEW I, I \subseteq Nat, I /= {}
  PROVE  First(I) \in I /\ \A j \in I : First(I) <= j
<1>1. \E x \in I : \A y \in I : x <= y
  BY LeastExists
<1> QED BY <1>1 DEF First

(* check_cache finds an entry of the list, or nothing.                     *)
LEMMA CheckCache ==
  ASSUME NEW l \in Seq(Entry), NEW h, NEW n
  PROVE  check_cache(l, h, n) = NoEntry \/ (check_cache(l, h, n) \in Elements(l) /\ check_cache(l, h, n) \in Entry)
<1> DEFINE I == {i \in 1 .. Len(l) : l[i].host = h /\ l[i].netid = n}
<1>1. CASE I = {}
  BY <1>1 DEF check_cache
<1>2. CASE I /= {}
  <2>1. I \subseteq Nat /\ I \subseteq 1 .. Len(l)
    OBVIOUS
  <2>2. First(I) \in I
    BY <1>2, <2>1, FirstIsLeast
  <2>3. check_cache(l, h, n) = l[First(I)]
    BY <1>2 DEF check_cache
  <2>4. First(I) \in 1 .. Len(l)
    BY <2>1, <2>2
  <2> HIDE DEF I
  <2> QED BY <2>3, <2>4 DEF Elements
<1> QED BY <1>1, <1>2

(* delete_cache takes one entry out and counts it.                         *)
LEMMA DeleteCache ==
  ASSUME TypeOK, CacheBounded, NEW a, NEW d, d = delete_cache(front, a)
  PROVE  d.l \in Seq(Entry) /\ d.n = Len(d.l) /\ d.n <= CACHESIZE /\ d.n \in Nat
<1> DEFINE I == {i \in 1 .. Len(front) : front[i].addr = a}
<1>1. front \in Seq(Entry) /\ cachesize = Len(front) /\ cachesize <= CACHESIZE /\ CACHESIZE \in Nat
  BY CacheAssumption DEF TypeOK, CacheBounded
<1>2. CASE I = {}
  <2>1. d = [l |-> front, n |-> cachesize]
    BY <1>2 DEF delete_cache
  <2> QED BY <1>1, <2>1
<1>3. CASE I /= {}
  <2>1. I \subseteq Nat /\ I \subseteq 1 .. Len(front)
    BY <1>1
  <2>2. First(I) \in I
    BY <1>3, <2>1, FirstIsLeast
  <2> DEFINE k == First(I)
  <2>3. d = [l |-> RemoveAt(front, k), n |-> cachesize - 1]
    BY <1>3 DEF delete_cache
  <2>4. k \in 1 .. Len(front)
    BY <2>1, <2>2
  <2> HIDE DEF I, k
  <2> DEFINE s1 == SubSeq(front, 1, k - 1)  s2 == SubSeq(front, k + 1, Len(front))
  <2>5. s1 \in Seq(Entry) /\ Len(s1) = k - 1
    BY <1>1, <2>4
  <2>6. s2 \in Seq(Entry) /\ Len(s2) = Len(front) - k
    BY <1>1, <2>4
  <2>7. RemoveAt(front, k) = s1 \o s2
    BY DEF RemoveAt
  <2> HIDE DEF s1, s2
  <2>8. s1 \o s2 \in Seq(Entry) /\ Len(s1 \o s2) = Len(front) - 1
    BY <1>1, <2>4, <2>5, <2>6
  <2> QED BY <1>1, <2>3, <2>4, <2>7, <2>8
<1> QED BY <1>2, <1>3

(* add_cache puts an entry in, and one out where there is no more room.    *)
LEMMA AddCache ==
  ASSUME TypeOK, CacheBounded, NEW e \in Entry, NEW a, a = add_cache(front, e)
  PROVE  a.l \in Seq(Entry) /\ a.n = Len(a.l) /\ a.n <= CACHESIZE /\ a.n \in Nat
<1>1. /\ front \in Seq(Entry) /\ cachesize = Len(front) /\ cachesize <= CACHESIZE
      /\ CACHESIZE \in Nat \ {0}
  BY CacheAssumption DEF TypeOK, CacheBounded
<1>2. CASE cachesize < CACHESIZE
  <2>1. a = [l |-> <<e>> \o front, n |-> cachesize + 1]
    BY <1>2 DEF add_cache
  <2>2. <<e>> \o front \in Seq(Entry) /\ Len(<<e>> \o front) = Len(front) + 1
    BY <1>1
  <2> QED BY <1>1, <1>2, <2>1, <2>2
<1>3. CASE ~(cachesize < CACHESIZE)
  <2> DEFINE s == SubSeq(front, 1, Len(front) - 1)
  <2>1. a = [l |-> <<e>> \o s, n |-> cachesize]
    BY <1>3 DEF add_cache
  <2>2. s \in Seq(Entry) /\ Len(s) = Len(front) - 1
    BY <1>1, <1>3
  <2> HIDE DEF s
  <2>3. <<e>> \o s \in Seq(Entry) /\ Len(<<e>> \o s) = Len(front)
    BY <1>1, <2>2
  <2> QED BY <1>1, <2>1, <2>3
<1> QED BY <1>2, <1>3

-----------------------------------------------------------------------------
(* getclnthandle.                                                          *)
LEMMA NoEntryTyped == NoEntry \in Entry
BY DEF NoEntry, Entry, HostNames, NetidNames

LEMMA ThreadTyped ==
  ASSUME TypeOK, NEW t \in Threads
  PROVE  th[t] \in Thread
BY DEF TypeOK

(* A step in which handles stay as they are.                               *)
LEMMA Same ==
  ASSUME TypeOK, NEW r, NEW q, held(r) = held(q), UNCHANGED <<live, kept, begun>>
  PROVE  live' \in Int /\ kept' \in Nat /\ begun' \in Nat /\ live' - kept' = live - kept + held(r) - held(q)
<1>1. held(q) \in Int /\ live \in Int /\ kept \in Nat /\ begun \in Nat
  BY DEF held, TypeOK
<1> QED BY <1>1

LEMMA RdlockSafe ==
  ASSUME LookupInv, NEW t \in Threads, rdlock(t)
  PROVE  LookupInv'
<1>1. TypeOK /\ HandlesAccounted /\ CacheBounded /\ EntryHeld /\ HandlesFit /\ ReadLocked
  BY DEF LookupInv, AddressCacheSound
<1>2. th[t] \in Thread /\ th[t].pc = "lookup"
  BY <1>1, ThreadTyped DEF rdlock
<1> DEFINE e == check_cache(front, th[t].host, th[t].netid)
<1>3. e = NoEntry \/ (e \in Elements(front) /\ e \in Entry)
  BY <1>1, CheckCache DEF TypeOK
<1>4. CASE e = NoEntry
  <2> DEFINE r == [th[t] EXCEPT !.pc = "resolve"]
  <2>1. th' = [th EXCEPT ![t] = r] /\ UNCHANGED <<front, cachesize, readers, live, kept, begun>>
    BY <1>4 DEF rdlock, go
  <2>2. r \in Thread /\ r.pc = "resolve" /\ Fits(r) /\ held(r) = held(th[t])
    BY <1>1, <1>2 DEF Thread, Fits, HandlesFit, held
  <2> HIDE DEF r
  <2>3. live' \in Int /\ kept' \in Nat /\ begun' \in Nat /\ live' - kept' = live - kept + held(r) - held(th[t])
    BY <1>1, <1>2, <2>1, <2>2, Same
  <2> QED BY <2>1, <2>2, <2>3, OneThread
<1>5. CASE e /= NoEntry
  <2> DEFINE r == [th[t] EXCEPT !.pc = "cached", !.entry = e]
  <2>1. /\ th' = [th EXCEPT ![t] = r] /\ UNCHANGED <<front, cachesize, live, kept, begun>>
        /\ readers' = readers \cup {t}
    BY <1>5 DEF rdlock, go
  <2> HIDE DEF e
  <2>2. /\ r \in Thread /\ r.pc = "cached" /\ r.entry \in Elements(front)
        /\ Fits(r) /\ held(r) = held(th[t])
    BY <1>1, <1>2, <1>3, <1>5 DEF Thread, Fits, HandlesFit, held
  <2> HIDE DEF r
  <2>3. \A u \in Threads : th'[u] = IF u = t THEN r ELSE th[u]
    BY <1>1, <2>1 DEF TypeOK
  <2>4. TypeOK'
    BY <1>1, <2>1, <2>2 DEF TypeOK
  <2>5. live' \in Int /\ kept' \in Nat /\ live' - kept' = live - kept + held(r) - held(th[t])
    BY <1>1, <1>2, <2>1, <2>2, Same
  <2>6. HandlesAccounted'
    BY <1>1, <2>1, <2>2, <2>5, Accounting
  <2>7. EntryHeld'
    BY <1>1, <2>1, <2>2, <2>3 DEF EntryHeld, Elements
  <2>8. ReadLocked' /\ HandlesFit' /\ CacheBounded'
    BY <1>1, <2>1, <2>2, <2>3 DEF ReadLocked, HandlesFit, CacheBounded
  <2> QED BY <2>4, <2>6, <2>7, <2>8 DEF LookupInv, AddressCacheSound
<1> QED BY <1>4, <1>5

(* The handle that was made is the thread's.                               *)
LEMMA WithHandle ==
  ASSUME NEW r \in Thread, r.pc \in {"cached", "add"}, Fits(r), NEW u \in BOOLEAN
  PROVE  /\ with_handle(r, u) \in Thread /\ with_handle(r, u).pc = "got" /\ Fits(with_handle(r, u))
         /\ held(with_handle(r, u)) = held(r) + (IF r.pc = "add" THEN 0 ELSE 1)
<1> DEFINE q == with_handle(r, u)
<1>1. CASE r.phase = "v2"
  <2>1. q = [r EXCEPT !.pc = "got", !.h2 = TRUE]
    BY <1>1 DEF with_handle
  <2>2. q \in Thread /\ q.pc = "got" /\ q.h2 = TRUE /\ q.h = r.h /\ q.phase = "v2"
    BY <1>1, <2>1 DEF Thread
  <2> QED BY <1>1, <2>2 DEF Fits, held
<1>2. CASE r.phase /= "v2"
  <2>1. q = [r EXCEPT !.pc = "got", !.h = 4, !.uaddr = u]
    BY <1>2 DEF with_handle
  <2>2. q \in Thread /\ q.pc = "got" /\ q.h2 = r.h2 /\ q.h = 4 /\ q.phase = r.phase
    BY <1>2, <2>1 DEF Thread
  <2> QED BY <1>2, <2>2 DEF Fits, held
<1> QED BY <1>1, <1>2

(* A thread leaves its cached entry: the read lock goes.                   *)
LEMMA TryCachedSafe ==
  ASSUME LookupInv, NEW t \in Threads, try_cached(t)
  PROVE  LookupInv'
<1>1. TypeOK /\ HandlesAccounted /\ CacheBounded /\ EntryHeld /\ HandlesFit /\ ReadLocked
  BY DEF LookupInv, AddressCacheSound
<1>2. th[t] \in Thread /\ th[t].pc = "cached" /\ Fits(th[t])
  BY <1>1, ThreadTyped DEF try_cached, HandlesFit
<1>3. UNCHANGED <<front, cachesize, kept, begun>> /\ readers' = readers \ {t}
  BY DEF try_cached
<1>4. \E r \in Thread : /\ th' = [th EXCEPT ![t] = r] /\ r.pc /= "cached" /\ Fits(r)
                        /\ live' = live + held(r) - held(th[t])
  <2>1. held(th[t]) \in Int /\ live \in Int
    BY <1>1, <1>2 DEF held, TypeOK
  <2>2. CASE live' = live + 1 /\ go(t, with_handle(th[t], th[t].targ /\ th[t].entry.uaddr))
    <3>1. (th[t].targ /\ th[t].entry.uaddr) \in BOOLEAN
      BY <1>2 DEF Thread, Entry
    <3> DEFINE r == with_handle(th[t], th[t].targ /\ th[t].entry.uaddr)
    <3>2. r \in Thread /\ r.pc = "got" /\ Fits(r) /\ held(r) = held(th[t]) + 1
      BY <1>2, <3>1, WithHandle
    <3> HIDE DEF r
    <3>3. th' = [th EXCEPT ![t] = r]
      BY <2>2 DEF go, r
    <3>4. live' = live + held(r) - held(th[t])
      BY <2>1, <2>2, <3>2
    <3> QED BY <3>2, <3>3, <3>4
  <2>3. CASE live' = live /\ go(t, [th[t] EXCEPT !.pc = "delete", !.cf = "SYSTEMERROR"])
    <3> DEFINE r == [th[t] EXCEPT !.pc = "delete", !.cf = "SYSTEMERROR"]
    <3> HIDE DEF r
    <3>0. r = [th[t] EXCEPT !.pc = "delete", !.cf = "SYSTEMERROR"] /\ "SYSTEMERROR" \in Createerrs
      BY DEF r, Createerrs
    <3>1. /\ r \in Thread /\ r.pc = "delete" /\ r.h = th[t].h /\ r.h2 = th[t].h2
          /\ r.phase = th[t].phase
      BY <1>2, <3>0 DEF Thread
    <3>2. th' = [th EXCEPT ![t] = r]
      BY <2>3, <3>0 DEF go
    <3>3. Fits(r) /\ held(r) = held(th[t])
      BY <1>2, <3>1 DEF Fits, held
    <3>4. live' = live + held(r) - held(th[t])
      BY <2>1, <2>3, <3>3
    <3> QED BY <3>1, <3>2, <3>3, <3>4
  <2> QED BY <2>2, <2>3 DEF try_cached
<1>5. PICK r \in Thread : /\ th' = [th EXCEPT ![t] = r] /\ r.pc /= "cached" /\ Fits(r)
                          /\ live' = live + held(r) - held(th[t])
  BY <1>4
<1>6. held(th[t]) \in Int /\ held(r) \in Int /\ live \in Int /\ kept \in Nat
  BY <1>1, <1>2 DEF held, TypeOK
<1>7. live' \in Int /\ kept' \in Nat /\ live' - kept' = live - kept + held(r) - held(th[t])
  BY <1>3, <1>5, <1>6
<1>8. HandlesAccounted'
  BY <1>1, <1>5, <1>7, Accounting
<1>9. \A u \in Threads : th'[u] = IF u = t THEN r ELSE th[u]
  BY <1>1, <1>5 DEF TypeOK
<1>10. TypeOK'
  BY <1>1, <1>3, <1>5, <1>7 DEF TypeOK
<1>11. EntryHeld'
  BY <1>1, <1>3, <1>5, <1>9 DEF EntryHeld, Elements
<1>12. ReadLocked' /\ HandlesFit' /\ CacheBounded'
  BY <1>1, <1>3, <1>5, <1>9 DEF ReadLocked, HandlesFit, CacheBounded
<1> QED BY <1>8, <1>10, <1>11, <1>12 DEF LookupInv, AddressCacheSound

(* Without readers the list changes under nobody.                          *)
LEMMA WriteSafe ==
  ASSUME LookupInv, NEW t \in Threads, NEW r \in Thread,
         readers = {}, th' = [th EXCEPT ![t] = r], r.pc /= "cached", Fits(r),
         held(r) = held(th[t]), UNCHANGED <<readers, live, kept, begun>>,
         front' \in Seq(Entry), cachesize' = Len(front'), cachesize' <= CACHESIZE
  PROVE  LookupInv'
<1>1. TypeOK /\ HandlesAccounted /\ CacheBounded /\ EntryHeld /\ HandlesFit /\ ReadLocked
  BY DEF LookupInv, AddressCacheSound
<1>2. live' \in Int /\ kept' \in Nat /\ live' - kept' = live - kept + held(r) - held(th[t])
  BY <1>1, Same
<1>3. HandlesAccounted'
  BY <1>1, <1>2, Accounting
<1>4. \A u \in Threads : th'[u] = IF u = t THEN r ELSE th[u]
  BY <1>1 DEF TypeOK
<1>5. TypeOK'
  BY <1>1 DEF TypeOK
<1>6. \A u \in Threads : th'[u].pc /= "cached"
  BY <1>1, <1>4 DEF ReadLocked
<1>7. EntryHeld' /\ ReadLocked' /\ CacheBounded'
  BY <1>6 DEF EntryHeld, ReadLocked, CacheBounded
<1>8. HandlesFit'
  BY <1>1, <1>4 DEF HandlesFit
<1> QED BY <1>3, <1>5, <1>7, <1>8 DEF LookupInv, AddressCacheSound

LEMMA DeleteSafe ==
  ASSUME LookupInv, NEW t \in Threads, delete_outdated(t)
  PROVE  LookupInv'
<1>1. TypeOK /\ CacheBounded /\ HandlesFit
  BY DEF LookupInv, AddressCacheSound
<1>2. th[t] \in Thread /\ th[t].pc = "delete"
  BY <1>1, ThreadTyped DEF delete_outdated
<1> DEFINE r == [th[t] EXCEPT !.pc = "resolve"]  d == delete_cache(front, th[t].entry.addr)
<1>3. /\ readers = {} /\ th' = [th EXCEPT ![t] = r] /\ UNCHANGED <<readers, live, kept, begun>>
      /\ front' = d.l /\ cachesize' = d.n
  BY DEF delete_outdated, go
<1>4. r \in Thread /\ r.pc = "resolve" /\ Fits(r) /\ held(r) = held(th[t])
  BY <1>1, <1>2 DEF Thread, Fits, HandlesFit, held
<1> HIDE DEF r
<1>5. d.l \in Seq(Entry) /\ d.n = Len(d.l) /\ d.n <= CACHESIZE
  BY <1>1, DeleteCache
<1> HIDE DEF d
<1> QED BY <1>3, <1>4, <1>5, WriteSafe

LEMMA AddSafe ==
  ASSUME LookupInv, NEW t \in Threads, wrlock_add(t)
  PROVE  LookupInv'
<1>1. TypeOK /\ CacheBounded /\ HandlesFit
  BY DEF LookupInv, AddressCacheSound
<1>2. th[t] \in Thread /\ th[t].pc = "add" /\ th[t].entry \in Entry /\ th[t].targ \in BOOLEAN
  BY <1>1, ThreadTyped DEF wrlock_add, Thread
<1> DEFINE r == with_handle(th[t], th[t].targ)  a == add_cache(front, th[t].entry)
<1>3. /\ readers = {} /\ th' = [th EXCEPT ![t] = r] /\ UNCHANGED <<readers, live, kept, begun>>
      /\ front' = a.l /\ cachesize' = a.n
  BY DEF wrlock_add, go
<1>4. held(th[t]) \in Int /\ Fits(th[t])
  BY <1>1, <1>2 DEF held, HandlesFit
<1>5. r \in Thread /\ r.pc = "got" /\ Fits(r) /\ held(r) = held(th[t])
  BY <1>2, <1>4, WithHandle
<1> HIDE DEF r
<1>6. a.l \in Seq(Entry) /\ a.n = Len(a.l) /\ a.n <= CACHESIZE
  BY <1>1, <1>2, AddCache
<1> HIDE DEF a
<1> QED BY <1>3, <1>5, <1>6, WriteSafe

LEMMA LookupTyped ==
  ASSUME NEW r \in Thread, NEW host \in HostNames, NEW netid \in NetidNames, NEW targ \in BOOLEAN,
         NEW phase \in {"main", "v2"}, ~r.h2, phase = "main" => r.h = 0, r.pc /= "add"
  PROVE  /\ lookup(r, host, netid, targ, phase) \in Thread
         /\ lookup(r, host, netid, targ, phase).pc = "lookup"
         /\ Fits(lookup(r, host, netid, targ, phase))
         /\ held(lookup(r, host, netid, targ, phase)) = held(r)
<1> DEFINE q == lookup(r, host, netid, targ, phase)
<1>1. NoEntry \in Entry
  BY NoEntryTyped
<1>2. q = [r EXCEPT !.pc = "lookup", !.host = host, !.netid = netid, !.targ = targ, !.phase = phase,
                    !.uaddr = FALSE, !.entry = NoEntry]
  BY DEF lookup
<1> HIDE DEF q
<1>3. q \in Thread
  BY <1>1, <1>2 DEF Thread
<1>4. q.pc = "lookup" /\ q.phase = phase /\ q.h = r.h /\ q.h2 = r.h2
  BY <1>1, <1>2 DEF Thread
<1>5. Fits(q)
  BY <1>4 DEF Fits
<1>6. held(q) = held(r)
  BY <1>4 DEF held
<1> QED BY <1>3, <1>4, <1>5, <1>6 DEF q

(* getaddrinfo: a handle for one of the addresses, or none.                *)
LEMMA ResolveSafe ==
  ASSUME LookupInv, NEW t \in Threads, resolve(t)
  PROVE  LookupInv'
<1>1. TypeOK /\ HandlesFit
  BY DEF LookupInv, AddressCacheSound
<1>2. /\ th[t] \in Thread /\ th[t].pc = "resolve" /\ Fits(th[t])
      /\ th[t].host \in HostNames /\ th[t].netid \in NetidNames /\ th[t].targ \in BOOLEAN
  BY <1>1, ThreadTyped DEF resolve, HandlesFit, Thread
<1>3. UNCHANGED <<front, cachesize, readers, kept, begun>>
  BY DEF resolve
<1>4. held(th[t]) \in Int /\ live \in Int /\ kept \in Nat /\ begun \in Nat
  BY <1>1 DEF held, TypeOK
<1>5. ASSUME NEW c \in Createerrs, th' = [th EXCEPT ![t] = [th[t] EXCEPT !.pc = "got", !.cf = c]], live' = live
      PROVE  LookupInv'
  <2> DEFINE r == [th[t] EXCEPT !.pc = "got", !.cf = c]
  <2>1. r \in Thread /\ r.pc = "got" /\ r.h = th[t].h /\ r.h2 = th[t].h2 /\ r.phase = th[t].phase
    BY <1>2 DEF Thread
  <2> HIDE DEF r
  <2>2. Fits(r) /\ held(r) = held(th[t])
    BY <1>2, <2>1 DEF Fits, held
  <2>3. live' \in Int /\ kept' \in Nat /\ begun' \in Nat /\ live' - kept' = live - kept + held(r) - held(th[t])
    BY <1>3, <1>4, <1>5, <2>2
  <2>4. th' = [th EXCEPT ![t] = r]
    BY <1>5 DEF r
  <2> QED BY <1>3, <2>1, <2>2, <2>3, <2>4, OneThread
<1>6. ASSUME NEW i \in 1 .. Len(Resolve[th[t].host]), live' = live + 1,
             th' = [th EXCEPT ![t] = [th[t] EXCEPT !.pc = "add",
                         !.entry = [host |-> th[t].host, netid |-> th[t].netid,
                                    addr |-> Resolve[th[t].host][i], uaddr |-> th[t].targ]]]
      PROVE  LookupInv'
  <2> DEFINE e == [host |-> th[t].host, netid |-> th[t].netid,
                   addr |-> Resolve[th[t].host][i], uaddr |-> th[t].targ]
             r == [th[t] EXCEPT !.pc = "add", !.entry = e]
  <2>1. Resolve[th[t].host] \in Seq(Nat)
    BY <1>2, CacheAssumption DEF HostNames
  <2>2. e \in Entry
    BY <1>2, <2>1 DEF Entry
  <2> HIDE DEF e
  <2>3. r \in Thread /\ r.pc = "add" /\ r.h = th[t].h /\ r.h2 = th[t].h2 /\ r.phase = th[t].phase
    BY <1>2, <2>2 DEF Thread
  <2>4. th' = [th EXCEPT ![t] = r]
    BY <1>6 DEF e
  <2> HIDE DEF r
  <2>5. Fits(r) /\ held(r) = held(th[t]) + 1
    BY <1>2, <2>3 DEF Fits, held
  <2>6. live' \in Int /\ kept' \in Nat /\ begun' \in Nat /\ live' - kept' = live - kept + held(r) - held(th[t])
    BY <1>3, <1>4, <1>6, <2>5
  <2> QED BY <1>3, <2>3, <2>4, <2>5, <2>6, OneThread
<1>7. "SYSTEMERROR" \in Createerrs /\ "UNKNOWNHOST" \in Createerrs
  BY DEF Createerrs
<1> QED BY <1>5, <1>6, <1>7 DEF resolve, go

LEMMA LocalSafe ==
  ASSUME LookupInv, NEW t \in Threads, local_rpcb(t)
  PROVE  LookupInv'
<1>1. TypeOK /\ HandlesFit
  BY DEF LookupInv, AddressCacheSound
<1>2. /\ th[t] \in Thread /\ th[t].pc = "local" /\ Fits(th[t])
      /\ th[t].h = 0 /\ th[t].h2 = FALSE
  BY <1>1, ThreadTyped DEF local_rpcb, HandlesFit, Fits, Thread
<1>3. UNCHANGED <<front, cachesize, readers, kept, begun>>
  BY DEF local_rpcb
<1>4. held(th[t]) = 0 /\ live \in Int /\ kept \in Nat /\ begun \in Nat
  BY <1>1, <1>2 DEF held, TypeOK
<1>5. CASE live' = live + 1 /\ go(t, [th[t] EXCEPT !.pc = "got", !.h = 3])
  <2> DEFINE r == [th[t] EXCEPT !.pc = "got", !.h = 3]
  <2>1. r \in Thread /\ r.pc = "got" /\ r.h = 3 /\ r.h2 = FALSE /\ r.phase = th[t].phase
    BY <1>2 DEF Thread
  <2>2. th' = [th EXCEPT ![t] = r]
    BY <1>5 DEF go
  <2> HIDE DEF r
  <2>3. Fits(r) /\ held(r) = 1
    BY <2>1 DEF Fits, held
  <2>4. live' \in Int /\ kept' \in Nat /\ begun' \in Nat /\ live' - kept' = live - kept + held(r) - held(th[t])
    BY <1>3, <1>4, <1>5, <2>3
  <2> QED BY <1>3, <2>1, <2>2, <2>3, <2>4, OneThread
<1>6. ASSUME live' = live, NEW r \in Thread, th' = [th EXCEPT ![t] = r], Fits(r), held(r) = 0,
             r.pc \in {"got", "lookup"}
      PROVE  LookupInv'
  <2>1. live' \in Int /\ kept' \in Nat /\ begun' \in Nat /\ live' - kept' = live - kept + held(r) - held(th[t])
    BY <1>3, <1>4, <1>6
  <2> QED BY <1>3, <1>6, <2>1, OneThread
<1>7. CASE live' = live /\ LoopNetid = "none" /\ go(t, [th[t] EXCEPT !.pc = "got", !.cf = "UNKNOWNPROTO"])
  <2> DEFINE r == [th[t] EXCEPT !.pc = "got", !.cf = "UNKNOWNPROTO"]
  <2>0. "UNKNOWNPROTO" \in Createerrs
    BY DEF Createerrs
  <2>1. r \in Thread /\ r.pc = "got" /\ r.h = 0 /\ r.h2 = FALSE /\ r.phase = th[t].phase
    BY <1>2, <2>0 DEF Thread
  <2>2. th' = [th EXCEPT ![t] = r]
    BY <1>7 DEF go
  <2> HIDE DEF r
  <2>3. Fits(r) /\ held(r) = 0
    BY <2>1 DEF Fits, held
  <2> QED BY <1>6, <1>7, <2>1, <2>2, <2>3
<1>8. CASE live' = live /\ go(t, lookup(th[t], LOCALHOST, LoopNetid, FALSE, "main"))
  <2> DEFINE r == lookup(th[t], LOCALHOST, LoopNetid, FALSE, "main")
  <2>1. LOCALHOST \in HostNames /\ LoopNetid \in NetidNames
    BY DEF HostNames, NetidNames
  <2>2. r \in Thread /\ r.pc = "lookup" /\ Fits(r) /\ held(r) = held(th[t])
    BY <1>2, <2>1, LookupTyped
  <2>3. th' = [th EXCEPT ![t] = r]
    BY <1>8 DEF go
  <2> HIDE DEF r
  <2> QED BY <1>4, <1>6, <1>8, <2>2, <2>3
<1> QED BY <1>5, <1>7, <1>8 DEF local_rpcb

-----------------------------------------------------------------------------
(* The routines.                                                           *)
LEMMA IdleTyped == Idle \in Thread
<1>1. NoEntry \in Entry /\ LOCALHOST \in HostNames /\ "none" \in NetidNames /\ "old" \in Createerrs
  BY NoEntryTyped DEF HostNames, NetidNames, Createerrs
<1> QED BY <1>1 DEF Thread, Idle

(* A routine returns: its handles are destroyed or given to the caller.    *)
LEMMA ReturnSafe ==
  ASSUME LookupInv, NEW t \in Threads, th[t].pc = "got", NEW res \in {"none", "found", "failed"},
         NEW cf \in Createerrs, return(t, res, cf), UNCHANGED <<front, cachesize, readers, begun>>
  PROVE  LookupInv'
<1>1. TypeOK
  BY DEF LookupInv, AddressCacheSound
<1>2. th[t] \in Thread
  BY <1>1, ThreadTyped
<1> DEFINE q == [th[t] EXCEPT !.res = res, !.cf = cf]
           r == [Idle EXCEPT !.pc = "idle", !.op = q.op, !.targ = q.targ, !.uaddr = q.uaddr,
                             !.cf = q.cf, !.res = q.res]
           n == handles(th[t])
<1>3. th' = [th EXCEPT ![t] = r] /\ \/ kept' = kept + 1 /\ live' = live - n + 1
                                    \/ kept' = kept /\ live' = live - n
  BY DEF return, done, go
<1>4. q.op \in Routines \cup {"none"} /\ q.targ \in BOOLEAN /\ q.uaddr \in BOOLEAN /\ q.cf = cf /\ q.res = res
  BY <1>2 DEF Thread
<1> HIDE DEF q
<1>5. r \in Thread /\ Fits(r) /\ held(r) = 0 /\ r.pc = "idle"
  <2>1. r \in Thread
    BY <1>4, IdleTyped DEF Thread
  <2>2. r.pc = "idle" /\ r.h = 0 /\ r.h2 = FALSE /\ r.phase = "none"
    BY DEF Idle
  <2> HIDE DEF r
  <2> QED BY <2>1, <2>2 DEF Fits, held
<1> HIDE DEF r
<1>6. n \in Int /\ held(th[t]) = n
  BY DEF handles, held
<1> HIDE DEF n
<1>7. live \in Int /\ kept \in Nat /\ begun \in Nat
  BY <1>1 DEF TypeOK
<1>8. live' \in Int /\ kept' \in Nat /\ begun' \in Nat /\ live' - kept' = live - kept + held(r) - held(th[t])
  BY <1>3, <1>5, <1>6, <1>7
<1> QED BY <1>3, <1>5, <1>8, OneThread

(* A routine asks again in version 3 with the same handle.                 *)
LEMMA AgainSafe ==
  ASSUME LookupInv, NEW t \in Threads, th[t].pc = "got", th[t].h = 4,
         go(t, [th[t] EXCEPT !.h = 3]), UNCHANGED <<front, cachesize, readers, begun, live, kept>>
  PROVE  LookupInv'
<1>1. TypeOK /\ HandlesFit
  BY DEF LookupInv, AddressCacheSound
<1>2. th[t] \in Thread /\ Fits(th[t])
  BY <1>1, ThreadTyped DEF HandlesFit
<1> DEFINE r == [th[t] EXCEPT !.h = 3]
<1>3. r \in Thread /\ r.pc = "got" /\ r.h = 3 /\ r.h2 = th[t].h2 /\ r.phase = th[t].phase
  BY <1>2 DEF Thread
<1>4. th' = [th EXCEPT ![t] = r]
  BY DEF go
<1> HIDE DEF r
<1>5. Fits(r) /\ held(r) = held(th[t])
  BY <1>2, <1>3 DEF Fits, held
<1>6. live' \in Int /\ kept' \in Nat /\ begun' \in Nat /\ live' - kept' = live - kept + held(r) - held(th[t])
  BY <1>1, <1>5, Same
<1> QED BY <1>3, <1>4, <1>5, <1>6, OneThread

(* A routine looks for a handle of another transport or version.           *)
LEMMA RelookSafe ==
  ASSUME LookupInv, NEW t \in Threads, th[t].pc = "got", th[t].phase /= "v2",
         NEW n \in NetidNames, NEW targ \in BOOLEAN, NEW phase \in {"main", "v2"},
         phase = "main" => th[t].h = 0,
         go(t, lookup(th[t], th[t].host, n, targ, phase)),
         UNCHANGED <<front, cachesize, readers, begun, live, kept>>
  PROVE  LookupInv'
<1>1. TypeOK /\ HandlesFit
  BY DEF LookupInv, AddressCacheSound
<1>2. th[t] \in Thread /\ ~th[t].h2 /\ th[t].host \in HostNames
  BY <1>1, ThreadTyped DEF HandlesFit, Fits, Thread
<1> DEFINE r == lookup(th[t], th[t].host, n, targ, phase)
<1>3. r \in Thread /\ r.pc = "lookup" /\ Fits(r) /\ held(r) = held(th[t])
  BY <1>2, LookupTyped
<1>4. th' = [th EXCEPT ![t] = r]
  BY DEF go
<1> HIDE DEF r
<1>5. live' \in Int /\ kept' \in Nat /\ begun' \in Nat /\ live' - kept' = live - kept + held(r) - held(th[t])
  BY <1>1, <1>3, Same
<1> QED BY <1>3, <1>4, <1>5, OneThread

(* What one call of a routine does to its thread.                          *)
Returning(t) == \E res \in {"found", "failed"}, cf \in Createerrs : return(t, res, cf)
AskingAgain(t) == th[t].h = 4 /\ go(t, [th[t] EXCEPT !.h = 3]) /\ UNCHANGED <<live, kept>>
LookingAgain(t) ==
  /\ UNCHANGED <<live, kept>>
  /\ \/ go(t, lookup(th[t], th[t].host, "udp", TRUE, "v2"))
     \/ th[t].h = 0 /\ go(t, lookup(th[t], th[t].host, "tcp", FALSE, "main"))

LEMMA FallBack ==
  ASSUME NEW t, NEW st, NEW cf \in Createerrs, th[t].cf \in Createerrs, fall_back(t, st, cf)
  PROVE  Returning(t) \/ AskingAgain(t)
BY DEF fall_back, Returning, AskingAgain

LEMMA CallCases ==
  ASSUME TypeOK, NEW t \in Threads, call(t)
  PROVE  \/ Returning(t) \/ AskingAgain(t)
         \/ th[t].phase /= "v2" /\ LookingAgain(t)
<1> DEFINE r == th[t]
<1>1. r \in Thread /\ r.cf \in Createerrs /\ r.op \in Routines \cup {"none"}
  BY ThreadTyped DEF Thread
<1>2. {"PMAPFAILURE", "PROGNOTREGISTERED", "N2AXLATEFAILURE", "TIMEDOUT", "RPCBFAILURE"} \subseteq Createerrs
  BY DEF Createerrs
<1>3. ASSUME NEW st, __try_protocol_version_2(t, st) PROVE Returning(t)
  BY <1>1, <1>2, <1>3 DEF __try_protocol_version_2, Returning
<1>4. ASSUME NEW st, __rpcb_findaddr_timed(t, st) PROVE Returning(t) \/ AskingAgain(t) \/ LookingAgain(t)
  <2>1. CASE st = "SUCCESS"
    <3>1. \/ return(t, "found", r.cf) \/ return(t, "failed", "N2AXLATEFAILURE")
          \/ return(t, "failed", "PROGNOTREGISTERED")
      BY <1>4, <2>1 DEF __rpcb_findaddr_timed, retries
    <3> QED BY <1>1, <1>2, <3>1 DEF Returning
  <2>2. CASE st = "TOONEW" \/ st = "TIMEDOUT"
    <3>1. return(t, "failed", r.cf) \/ return(t, "failed", "TIMEDOUT")
      BY <1>4, <2>2 DEF __rpcb_findaddr_timed, retries
    <3> QED BY <1>1, <1>2, <3>1 DEF Returning
  <2>3. CASE st \notin {"SUCCESS", "TOONEW", "TIMEDOUT"} /\ retries(st) /\ r.h = 4
    BY <1>4, <2>3 DEF __rpcb_findaddr_timed, AskingAgain
  <2>4. CASE st \notin {"SUCCESS", "TOONEW", "TIMEDOUT"} /\ ~(retries(st) /\ r.h = 4)
    BY <1>1, <1>2, <1>4, <2>4 DEF __rpcb_findaddr_timed, Returning, LookingAgain
  <2> QED BY <2>1, <2>2, <2>3, <2>4
<1>5. ASSUME NEW st, \/ rpcb_set(t, st) \/ rpcb_taddr2uaddr(t, st) PROVE Returning(t)
  BY <1>1, <1>5 DEF rpcb_set, rpcb_taddr2uaddr, Returning
<1>6. ASSUME NEW st, \/ rpcb_gettime(t, st) \/ rpcb_rmtcall(t, st) \/ rpcb_getmaps(t, st)
      PROVE  Returning(t) \/ AskingAgain(t)
  <2>1. CASE \E cf \in Createerrs : fall_back(t, st, cf)
    BY <1>1, <2>1, FallBack
  <2>2. CASE return(t, "failed", r.cf)
    BY <1>1, <2>2 DEF Returning
  <2> QED BY <1>1, <1>2, <1>6, <2>1, <2>2 DEF rpcb_gettime, rpcb_rmtcall, rpcb_getmaps
<1>7. CASE r.phase = "v2"
  <2>1. CASE return(t, "failed", r.cf)
    BY <1>1, <2>1 DEF Returning
  <2> QED BY <1>3, <1>7, <2>1 DEF call
<1>8. CASE r.phase /= "v2" /\ r.h = 0
  <2>1. CASE return(t, "failed", r.cf)
    BY <1>1, <2>1 DEF Returning
  <2> QED BY <1>8, <2>1 DEF call, LookingAgain
<1>9. CASE r.phase /= "v2" /\ r.h /= 0
  <2>1. PICK st : \/ __rpcb_findaddr_timed(t, st) \/ rpcb_set(t, st) \/ rpcb_taddr2uaddr(t, st)
                  \/ rpcb_gettime(t, st) \/ rpcb_rmtcall(t, st) \/ rpcb_getmaps(t, st)
    BY <1>9 DEF call
  <2> QED BY <1>4, <1>5, <1>6, <1>9, <2>1
<1> QED BY <1>7, <1>8, <1>9

LEMMA CallSafe ==
  ASSUME LookupInv, NEW t \in Threads, call(t)
  PROVE  LookupInv'
<1>1. TypeOK /\ th[t].pc = "got" /\ UNCHANGED <<front, cachesize, readers, begun>>
  BY DEF LookupInv, AddressCacheSound, call
<1>2. CASE Returning(t)
  BY <1>1, <1>2, ReturnSafe DEF Returning
<1>3. CASE AskingAgain(t)
  BY <1>1, <1>3, AgainSafe DEF AskingAgain
<1>4. CASE th[t].phase /= "v2" /\ LookingAgain(t)
  <2>1. "udp" \in NetidNames /\ "tcp" \in NetidNames
    BY DEF NetidNames
  <2>2. UNCHANGED <<front, cachesize, readers, begun, live, kept>>
    BY <1>1, <1>4 DEF LookingAgain
  <2>3. CASE go(t, lookup(th[t], th[t].host, "udp", TRUE, "v2"))
    BY <1>1, <1>4, <2>1, <2>2, <2>3, RelookSafe
  <2>4. CASE th[t].h = 0 /\ go(t, lookup(th[t], th[t].host, "tcp", FALSE, "main"))
    BY <1>1, <1>4, <2>1, <2>2, <2>4, RelookSafe
  <2> QED BY <1>4, <2>3, <2>4 DEF LookingAgain
<1> QED BY <1>1, <1>2, <1>3, <1>4, CallCases

LEMMA BeginSafe ==
  ASSUME LookupInv, NEW t \in Threads, Begin(t)
  PROVE  LookupInv'
<1>1. TypeOK /\ HandlesFit
  BY DEF LookupInv, AddressCacheSound
<1>2. th[t] \in Thread /\ th[t].pc = "idle" /\ th[t].h = 0 /\ ~th[t].h2
  BY <1>1, ThreadTyped DEF Begin, HandlesFit, Fits, Thread
<1>3. UNCHANGED <<front, cachesize, readers, live, kept>> /\ begun' = begun + 1
  BY DEF Begin
<1>4. held(th[t]) = 0 /\ live \in Int /\ kept \in Nat /\ begun \in Nat
  BY <1>1, <1>2 DEF held, TypeOK
<1>5. PICK op \in Ops, h \in Hosts, n \in Netids :
        \/ op \in Local /\ go(t, [[Idle EXCEPT !.op = op] EXCEPT !.pc = "local", !.host = h, !.netid = n])
        \/ op \notin Local /\ go(t, lookup([Idle EXCEPT !.op = op], h, n, op \in {"findaddr", "findaddr_clpp"}, "main"))
  BY DEF Begin
<1>6. op \in Routines /\ h \in HostNames /\ n \in NetidNames
  BY <1>5, CacheAssumption DEF HostNames, NetidNames
<1> DEFINE q == [Idle EXCEPT !.op = op]
<1>7. q \in Thread
  BY <1>6, IdleTyped DEF Thread
<1>8. q.pc = "idle" /\ q.h = 0 /\ q.h2 = FALSE /\ q.phase = "none"
  BY DEF Idle
<1> HIDE DEF q
<1>9. \E r \in Thread : th' = [th EXCEPT ![t] = r] /\ Fits(r) /\ held(r) = 0 /\ r.pc /= "cached"
  <2>1. CASE go(t, [q EXCEPT !.pc = "local", !.host = h, !.netid = n])
    <3> DEFINE r == [q EXCEPT !.pc = "local", !.host = h, !.netid = n]
    <3>1. r \in Thread /\ r.pc = "local" /\ r.h = q.h /\ r.h2 = q.h2 /\ r.phase = q.phase
      BY <1>6, <1>7 DEF Thread
    <3>2. th' = [th EXCEPT ![t] = r]
      BY <2>1 DEF go
    <3> HIDE DEF r
    <3>3. Fits(r) /\ held(r) = 0
      BY <1>8, <3>1 DEF Fits, held
    <3> QED BY <3>1, <3>2, <3>3
  <2>2. CASE go(t, lookup(q, h, n, op \in {"findaddr", "findaddr_clpp"}, "main"))
    <3> DEFINE targ == op \in {"findaddr", "findaddr_clpp"}
    <3>1. targ \in BOOLEAN
      OBVIOUS
    <3> DEFINE r == lookup(q, h, n, targ, "main")
    <3>2. th' = [th EXCEPT ![t] = r]
      BY <2>2 DEF go
    <3> HIDE DEF targ
    <3>3. r \in Thread /\ r.pc = "lookup" /\ Fits(r) /\ held(r) = held(q)
      BY <1>6, <1>7, <1>8, <3>1, LookupTyped
    <3>4. held(q) = 0
      BY <1>8 DEF held
    <3> HIDE DEF r
    <3> QED BY <3>2, <3>3, <3>4
  <2> QED BY <1>5, <2>1, <2>2 DEF q
<1>10. PICK r \in Thread : th' = [th EXCEPT ![t] = r] /\ Fits(r) /\ held(r) = 0 /\ r.pc /= "cached"
  BY <1>9
<1>11. live' \in Int /\ kept' \in Nat /\ begun' \in Nat /\ live' - kept' = live - kept + held(r) - held(th[t])
  BY <1>3, <1>4, <1>10
<1> QED BY <1>3, <1>10, <1>11, OneThread

LEMMA LookupInit == Init => LookupInv
<1> SUFFICES ASSUME Init PROVE LookupInv
  OBVIOUS
<1>1. th = [t \in Threads |-> Idle] /\ front = <<>> /\ cachesize = 0 /\ readers = {}
      /\ live = 0 /\ kept = 0 /\ begun = 0
  BY DEF Init
<1>2. TypeOK
  BY <1>1, IdleTyped DEF TypeOK
<1>3. \A t \in Threads : th[t].pc = "idle" /\ th[t].h = 0 /\ th[t].h2 = FALSE /\ th[t].phase = "none"
  BY <1>1 DEF Idle
<1>4. CacheBounded
  BY <1>1, CacheAssumption DEF CacheBounded
<1>5. EntryHeld /\ ReadLocked /\ HandlesFit
  BY <1>3 DEF EntryHeld, ReadLocked, HandlesFit, Fits
<1>6. /\ {t \in Threads : th[t].h /= 0} = {} /\ {t \in Threads : th[t].h2} = {}
      /\ {t \in Threads : th[t].pc = "add"} = {}
  BY <1>3
<1>7. HandlesAccounted
  BY <1>1, <1>6, FS_EmptySet DEF HandlesAccounted
<1> QED BY <1>2, <1>4, <1>5, <1>7 DEF LookupInv, AddressCacheSound

LEMMA LookupNext == LookupInv /\ [Next]_vars => LookupInv'
<1> SUFFICES ASSUME LookupInv, [Next]_vars PROVE LookupInv'
  OBVIOUS
<1>1. CASE UNCHANGED vars
  BY <1>1 DEF vars, LookupInv, AddressCacheSound, TypeOK, CacheBounded, EntryHeld, HandlesAccounted,
              ReadLocked, HandlesFit, Elements
<1>2. ASSUME NEW t \in Threads, Begin(t) \/ Step(t) PROVE LookupInv'
  BY <1>2, BeginSafe, RdlockSafe, TryCachedSafe, DeleteSafe, ResolveSafe, AddSafe, LocalSafe, CallSafe
     DEF Step
<1> QED BY <1>1, <1>2 DEF Next

(* The cache of addresses is counted and bounded, no entry goes under a    *)
(* thread that connects to it, and every client handle has one owner, for  *)
(* any number of threads, hosts, versions and faults.                      *)
THEOREM AddressCache == Spec => []AddressCacheSound
<1>1. LookupInv => AddressCacheSound
  BY DEF LookupInv
<1> QED BY <1>1, LookupInit, LookupNext, PTL DEF Spec

-----------------------------------------------------------------------------
(* The sessions of NetConfig.                                              *)
CONSTANTS File, NETPATH, Nettypes, CanFail, MaxOpens
VARIABLES nc_file, ni, session, tsd, copies, opens

NC == INSTANCE NetConfig

(* The cardinality of the instance is the cardinality.                     *)
LEMMA SameCardinality ==
  /\ \A S : NC!IsFiniteSet(S) <=> IsFiniteSet(S)
  /\ \A S : NC!Cardinality(S) = Cardinality(S)
<1>1. \A S : NC!IsFiniteSet(S) <=> IsFiniteSet(S)
  BY DEF NC!IsFiniteSet, IsFiniteSet
<1>2. \A S : NC!Cardinality(S) = Cardinality(S)
  BY DEF NC!Cardinality, Cardinality
<1> QED BY <1>1, <1>2

Session == [open : BOOLEAN, type : Nettypes \cup {"none"}, conf : BOOLEAN, flag : {0, 1},
            cur : Nat, gen : Nat, at : Nat, chain : Nat, seen : Seq(Nat), missed : SUBSET Nat,
            ended : BOOLEAN]
NetTyped ==
  /\ nc_file \in -1 .. Len(File)
  /\ ni \in [eof : BOOLEAN, ref : Nat, list : Seq(Nat), gen : Nat]
  /\ session \in [Threads -> Session]

(* The list holds the entries of the lines read, in their order.           *)
ListRead(file, l, eof) ==
  /\ NC!Increasing(l) /\ NC!Elements(l) = {i \in NC!Entries : i <= file}
  /\ eof => file = Len(File)

(* A session of getnetconfig has returned what it selects of the list up   *)
(* to where it stands, and ends at the end of the whole file.              *)
Enumerating(s, l, eof) ==
  /\ s.flag = 0 => s.cur = 0 /\ s.seen = <<>> /\ ~s.ended
  /\ s.flag = 1 /\ ~s.ended => s.cur > 0
  /\ s.cur <= Len(l) /\ s.missed = {}
  /\ NC!Increasing(s.seen)
  /\ NC!Elements(s.seen) = {i \in {l[k] : k \in 1 .. s.cur} : NC!selected(File[i], s.type)}
  /\ NC!Parses /\ s.ended => eof /\ s.cur = Len(l)

(* A session over NETPATH: the same of the components up to where it is,   *)
(* but those for which the file did not open.                              *)
AlongPath(s) ==
  /\ s.at <= Len(NETPATH) /\ \A k \in s.missed : k <= s.at
  /\ s.ended => s.at = Len(NETPATH)
  /\ NC!Parses => /\ NC!Increasing(s.seen)
                  /\ NC!Elements(s.seen) = {k \in NC!Positions(s.type) \ s.missed : k <= s.at}

SessionOK(s, l, eof) ==
  /\ ~s.open => ~s.ended /\ ~s.conf
  /\ s.open => (s.conf <=> ~NC!by_path(s.type) \/ NC!unset)
  /\ s.open /\ s.conf => Enumerating(s, l, eof)
  /\ s.open /\ ~s.conf => AlongPath(s)

(* A session of getnetconfig, which the list must outlive.                 *)
InList(s) == s.open /\ s.conf

SessionsInv ==
  /\ NetTyped /\ NC!Counted /\ ListRead(nc_file, ni.list, ni.eof)
  /\ \A t \in Threads : SessionOK(session[t], ni.list, ni.eof) /\ (InList(session[t]) => session[t].gen = ni.gen)

LEMMA SessionsInit == ASSUME NC!FileAssumption PROVE NC!Init => SessionsInv
<1> SUFFICES ASSUME NC!Init PROVE SessionsInv
  OBVIOUS
<1>1. Len(File) \in Nat /\ IsFiniteSet(Threads)
  BY SameCardinality DEF NC!FileAssumption
<1>2. NC!Closed \in Session
  BY DEF NC!Closed, Session
<1>3. ~NC!Closed.open /\ ~NC!Closed.conf /\ ~NC!Closed.ended
  BY DEF NC!Closed
<1>4. /\ nc_file = -1 /\ ni = [eof |-> FALSE, ref |-> 0, list |-> <<>>, gen |-> 0]
      /\ session = [t \in Threads |-> NC!Closed]
  BY DEF NC!Init
<1>5. NetTyped
  BY <1>1, <1>2, <1>4 DEF NetTyped
<1>6. {t \in Threads : session[t].open /\ session[t].conf} = {}
  BY <1>3, <1>4
<1>7. NC!Counted
  BY <1>4, <1>6, FS_EmptySet, SameCardinality DEF NC!Counted
<1>8. ListRead(nc_file, ni.list, ni.eof)
  <2>1. NC!Elements(<<>>) = {}
    BY DEF NC!Elements
  <2>2. {i \in NC!Entries : i <= -1} = {}
    BY <1>1 DEF NC!Entries
  <2> QED BY <1>4, <2>1, <2>2 DEF ListRead, NC!Increasing
<1>9. \A t \in Threads : SessionOK(session[t], ni.list, ni.eof) /\ ~InList(session[t])
  BY <1>3, <1>4 DEF SessionOK, InList
<1> QED BY <1>5, <1>7, <1>8, <1>9 DEF SessionsInv

LEMMA IncreasingAppend ==
  ASSUME NEW l \in Seq(Nat), NEW i \in Nat, NC!Increasing(l), \A j \in NC!Elements(l) : j < i
  PROVE  /\ Append(l, i) \in Seq(Nat) /\ NC!Increasing(Append(l, i))
         /\ NC!Elements(Append(l, i)) = NC!Elements(l) \cup {i}
<1> DEFINE m == Append(l, i)
<1>1. m \in Seq(Nat) /\ Len(m) = Len(l) + 1 /\ m[Len(l) + 1] = i /\ \A k \in 1 .. Len(l) : m[k] = l[k]
  OBVIOUS
<1>2. Len(l) \in Nat /\ \A k \in 1 .. Len(l) : l[k] \in NC!Elements(l) /\ l[k] \in Nat
  BY DEF NC!Elements
<1> HIDE DEF m
<1>3. NC!Increasing(m)
  <2>1. SUFFICES ASSUME NEW j \in 1 .. Len(m), NEW k \in 1 .. Len(m), j < k PROVE m[j] < m[k]
    BY DEF NC!Increasing
  <2>2. CASE k = Len(l) + 1
    <3>1. j \in 1 .. Len(l)
      BY <1>1, <1>2, <2>1, <2>2
    <3> QED BY <1>1, <1>2, <2>2, <3>1
  <2>3. CASE k /= Len(l) + 1
    <3>1. Len(l) \in Nat /\ Len(m) = Len(l) + 1
      BY <1>1, <1>2
    <3>2. j \in 1 .. Len(l) /\ k \in 1 .. Len(l)
      BY <2>1, <2>3, <3>1
    <3> QED BY <1>1, <2>1, <3>2 DEF NC!Increasing
  <2> QED BY <2>2, <2>3
<1>4. NC!Elements(m) = NC!Elements(l) \cup {i}
  <2>1. 1 .. Len(m) = (1 .. Len(l)) \cup {Len(l) + 1}
    BY <1>1, <1>2
  <2> QED BY <1>1, <2>1 DEF NC!Elements
<1> QED BY <1>1, <1>3, <1>4 DEF m

(* next_line finds the next line that is no comment.                       *)
LEMMA NextLine ==
  ASSUME NC!FileAssumption, NEW f \in 0 .. Len(File), NEW i, i = NC!next_line(f)
  PROVE  \/ /\ i = 0 /\ \A j \in 1 .. Len(File) : j > f => j \notin NC!Entries
         \/ /\ i \in f + 1 .. Len(File)
            /\ NC!parse_ncp(i) <=> i \in NC!Entries
            /\ NC!Parses => NC!parse_ncp(i)
            /\ \A j \in 1 .. Len(File) : j > f /\ j < i => j \notin NC!Entries
<1> DEFINE I == {j \in f + 1 .. Len(File) : File[j].kind /= "comment"}
<1>1. Len(File) \in Nat /\ \A j \in 1 .. Len(File) : File[j].kind \in {"entry", "comment", "bad"}
  BY DEF NC!FileAssumption
<1>2. i = IF I = {} THEN 0 ELSE NC!First(I)
  BY DEF NC!next_line
<1>3. I \subseteq Nat /\ I \subseteq f + 1 .. Len(File)
  BY <1>1
<1>4. \A j \in 1 .. Len(File) : j > f /\ j \in NC!Entries => j \in I
  BY <1>1 DEF NC!Entries
<1>5. \A j \in I : File[j].kind /= "comment"
  OBVIOUS
<1> HIDE DEF I
<1>6. CASE I = {}
  BY <1>2, <1>4, <1>6
<1>7. CASE I /= {}
  <2>1. First(I) \in I /\ \A j \in I : First(I) <= j
    BY <1>3, <1>7, FirstIsLeast
  <2>2. i = First(I)
    BY <1>2, <1>7 DEF First, NC!First
  <2>3. i \in I /\ \A j \in I : i <= j
    BY <2>1, <2>2
  <2>4. i \in f + 1 .. Len(File) /\ i \in 1 .. Len(File) /\ i \in Nat
    BY <1>1, <1>3, <2>3
  <2>5. \A j \in 1 .. Len(File) : j > f /\ j < i => j \notin NC!Entries
    BY <1>1, <1>4, <2>3, <2>4
  <2>6. NC!parse_ncp(i) <=> i \in NC!Entries
    BY <2>4 DEF NC!parse_ncp, NC!Entries
  <2>7. NC!Parses => NC!parse_ncp(i)
    BY <1>1, <1>5, <2>3, <2>4 DEF NC!Parses, NC!parse_ncp
  <2> QED BY <2>4, <2>5, <2>6, <2>7
<1> QED BY <1>6, <1>7

(* What a line read adds to the list.                                      *)
LEMMA LineRead ==
  ASSUME NC!FileAssumption, NEW f \in 0 .. Len(File), NEW l \in Seq(Nat), ListRead(f, l, FALSE),
         NEW i \in f + 1 .. Len(File), \A j \in 1 .. Len(File) : j > f /\ j < i => j \notin NC!Entries
  PROVE  /\ i \in NC!Entries => /\ Append(l, i) \in Seq(Nat) /\ ListRead(i, Append(l, i), FALSE)
         /\ i \notin NC!Entries => ListRead(i, l, FALSE)
<1>1. Len(File) \in Nat /\ i \in Nat /\ f \in Nat /\ i > f
  BY DEF NC!FileAssumption
<1>2. NC!Elements(l) = {j \in NC!Entries : j <= f} /\ NC!Increasing(l)
  BY DEF ListRead
<1>3. NC!Entries \subseteq 1 .. Len(File)
  BY DEF NC!Entries
<1>4. ASSUME NEW j \in NC!Elements(l) PROVE j < i
  <2>1. j \in 1 .. Len(File) /\ j <= f
    BY <1>2, <1>3
  <2> QED BY <1>1, <2>1
<1>5. {j \in NC!Entries : j <= i} = {j \in NC!Entries : j <= f} \cup (IF i \in NC!Entries THEN {i} ELSE {})
  <2>1. ASSUME NEW j \in NC!Entries PROVE j <= i <=> j <= f \/ j = i
    BY <1>1, <1>3
  <2> QED BY <2>1
<1>6. /\ Append(l, i) \in Seq(Nat) /\ NC!Increasing(Append(l, i))
      /\ NC!Elements(Append(l, i)) = NC!Elements(l) \cup {i}
  BY <1>1, <1>2, <1>4, IncreasingAppend
<1> QED BY <1>2, <1>5, <1>6 DEF ListRead

(* getnetconfig goes on by one entry of the list, which it may extend, or  *)
(* is at the end.                                                          *)
LEMMA Getnetconfig ==
  ASSUME NC!FileAssumption, NetTyped, ListRead(nc_file, ni.list, ni.eof), nc_file /= -1,
         NEW s \in Session, Enumerating(s, ni.list, ni.eof), ~s.ended,
         NEW g, g = NC!getnetconfig(NC!N, s)
  PROVE  /\ g.n.file \in 0 .. Len(File) /\ g.n.ni \in [eof : BOOLEAN, ref : Nat, list : Seq(Nat), gen : Nat]
         /\ g.n.ni.ref = ni.ref /\ g.n.ni.gen = ni.gen
         /\ ListRead(g.n.file, g.n.ni.list, g.n.ni.eof)
         /\ Len(ni.list) <= Len(g.n.ni.list) /\ \A k \in 1 .. Len(ni.list) : g.n.ni.list[k] = ni.list[k]
         /\ ni.eof => g.n.ni.eof /\ g.n.ni.list = ni.list
         /\ g.cur \in Nat /\ g.cur <= Len(g.n.ni.list)
         /\ g.got /= 0 => g.got = g.cur /\ g.cur = s.cur + 1
         /\ g.got = 0 => g.cur = s.cur /\ (NC!Parses => g.n.ni.eof /\ g.cur = Len(g.n.ni.list))
<1> DEFINE n == NC!N   l == ni.list   i == NC!next_line(nc_file)
           more == IF s.flag = 0 THEN l /= <<>> ELSE s.cur /= 0 /\ s.cur < Len(l)
           next == IF s.flag = 0 THEN 1 ELSE s.cur + 1
           cur == IF s.flag = 0 THEN 0 ELSE s.cur
<1>1. Len(File) \in Nat /\ nc_file \in 0 .. Len(File) /\ l \in Seq(Nat) /\ Len(l) \in Nat
      /\ ni \in [eof : BOOLEAN, ref : Nat, list : Seq(Nat), gen : Nat]
  BY DEF NC!FileAssumption, NetTyped
<1>2. n = [file |-> nc_file, ni |-> ni]
  BY DEF NC!N
<1>3. s.flag \in {0, 1} /\ s.cur \in Nat /\ s.cur <= Len(l) /\ (s.flag = 0 => s.cur = 0) /\ (s.flag = 1 => s.cur > 0)
  BY DEF Session, Enumerating
<1>4. cur = s.cur /\ next = s.cur + 1 /\ (more <=> s.cur < Len(l))
  BY <1>1, <1>3
<1>5. g = IF more THEN [n |-> n, cur |-> next, got |-> next]
          ELSE IF n.ni.eof THEN [n |-> n, cur |-> cur, got |-> 0]
          ELSE IF i = 0 THEN [n |-> [file |-> Len(File), ni |-> [n.ni EXCEPT !.eof = TRUE]], cur |-> cur, got |-> 0]
          ELSE IF ~NC!parse_ncp(i) THEN [n |-> [n EXCEPT !.file = i], cur |-> cur, got |-> 0]
          ELSE [n |-> [file |-> i, ni |-> [n.ni EXCEPT !.list = Append(@, i)]],
                cur |-> Len(n.ni.list) + 1, got |-> Len(n.ni.list) + 1]
  BY <1>2 DEF NC!getnetconfig
<1>6. \/ /\ i = 0 /\ \A j \in 1 .. Len(File) : j > nc_file => j \notin NC!Entries
      \/ /\ i \in nc_file + 1 .. Len(File)
         /\ NC!parse_ncp(i) <=> i \in NC!Entries
         /\ NC!Parses => NC!parse_ncp(i)
         /\ \A j \in 1 .. Len(File) : j > nc_file /\ j < i => j \notin NC!Entries
  BY <1>1, NextLine
<1> HIDE DEF n, i, more, next, cur
<1>7. CASE more
  <2>1. g = [n |-> n, cur |-> next, got |-> next]
    BY <1>5, <1>7
  <2>2. g.n.file = nc_file /\ g.n.ni = ni /\ g.cur = s.cur + 1 /\ g.got = s.cur + 1
    BY <1>2, <1>4, <2>1
  <2> QED BY <1>1, <1>3, <1>4, <1>7, <2>2
<1>8. CASE ~more /\ ni.eof
  <2>1. g = [n |-> n, cur |-> cur, got |-> 0]
    BY <1>2, <1>5, <1>8
  <2>2. g.n.file = nc_file /\ g.n.ni = ni /\ g.cur = s.cur /\ g.got = 0
    BY <1>2, <1>4, <2>1
  <2>3. s.cur = Len(l)
    BY <1>1, <1>3, <1>4, <1>8
  <2> QED BY <1>1, <1>3, <1>8, <2>2, <2>3
<1>9. CASE ~more /\ ~ni.eof
  <2>1. s.cur = Len(l) /\ NC!Elements(l) = {j \in NC!Entries : j <= nc_file} /\ NC!Increasing(l)
    BY <1>1, <1>3, <1>4, <1>9 DEF ListRead
  <2>2. CASE i = 0
    <3> DEFINE m == [ni EXCEPT !.eof = TRUE]
    <3>1. g = [n |-> [file |-> Len(File), ni |-> m], cur |-> cur, got |-> 0]
      BY <1>2, <1>5, <1>9, <2>2
    <3>a. m \in [eof : BOOLEAN, ref : Nat, list : Seq(Nat), gen : Nat]
          /\ m.eof /\ m.list = l /\ m.ref = ni.ref /\ m.gen = ni.gen
      BY <1>1
    <3> HIDE DEF m
    <3>2. g.n.file = Len(File) /\ g.cur = s.cur /\ g.got = 0 /\ g.n.ni = m
      BY <1>4, <3>1
    <3>3. /\ g.n.ni \in [eof : BOOLEAN, ref : Nat, list : Seq(Nat), gen : Nat]
          /\ g.n.ni.eof /\ g.n.ni.list = l /\ g.n.ni.ref = ni.ref /\ g.n.ni.gen = ni.gen
      BY <3>a, <3>2
    <3>4. {j \in NC!Entries : j <= nc_file} = {j \in NC!Entries : j <= Len(File)}
      <4>1. NC!Entries \subseteq 1 .. Len(File)
        BY DEF NC!Entries
      <4>2. ASSUME NEW j \in NC!Entries PROVE j <= nc_file /\ j <= Len(File)
        BY <1>1, <1>6, <2>2, <4>1
      <4> QED BY <4>2
    <3>5. ListRead(g.n.file, g.n.ni.list, g.n.ni.eof)
      BY <2>1, <3>2, <3>3, <3>4 DEF ListRead
    <3>6. g.n.file \in 0 .. Len(File) /\ g.cur \in Nat /\ g.cur = Len(g.n.ni.list)
      BY <1>1, <1>3, <2>1, <3>2, <3>3
    <3>7. Len(ni.list) <= Len(g.n.ni.list) /\ \A k \in 1 .. Len(ni.list) : g.n.ni.list[k] = ni.list[k]
      BY <1>1, <3>3
    <3>8. g.cur <= Len(g.n.ni.list)
      BY <3>6
    <3>9. ~ni.eof
      BY <1>9
    <3> QED BY <3>2, <3>3, <3>5, <3>6, <3>7, <3>8, <3>9
  <2>3. CASE i /= 0
    <3>1. /\ i \in nc_file + 1 .. Len(File)
          /\ NC!parse_ncp(i) <=> i \in NC!Entries
          /\ NC!Parses => NC!parse_ncp(i)
          /\ \A j \in 1 .. Len(File) : j > nc_file /\ j < i => j \notin NC!Entries
      BY <1>6, <2>3
    <3>2. i \in Nat /\ i \in 0 .. Len(File)
      BY <1>1, <3>1
    <3>3. ListRead(nc_file, l, FALSE)
      BY DEF ListRead
    <3>4. /\ i \in NC!Entries => /\ Append(l, i) \in Seq(Nat) /\ ListRead(i, Append(l, i), FALSE)
          /\ i \notin NC!Entries => ListRead(i, l, FALSE)
      BY <1>1, <3>1, <3>3, LineRead
    <3>5. CASE ~NC!parse_ncp(i)
      <4>1. g = [n |-> [n EXCEPT !.file = i], cur |-> cur, got |-> 0]
        BY <1>2, <1>5, <1>9, <2>3, <3>5
      <4>2. g.n.file = i /\ g.n.ni = ni /\ g.cur = s.cur /\ g.got = 0
        BY <1>2, <1>4, <4>1
      <4>3. ni.eof = FALSE
        BY <1>1, <1>9
      <4>4. ListRead(g.n.file, g.n.ni.list, g.n.ni.eof)
        BY <3>1, <3>4, <3>5, <4>2, <4>3
      <4> QED BY <1>1, <1>3, <3>1, <3>2, <3>5, <4>2, <4>4
    <3>6. CASE NC!parse_ncp(i)
      <4>1. g = [n |-> [file |-> i, ni |-> [ni EXCEPT !.list = Append(@, i)]], cur |-> Len(l) + 1, got |-> Len(l) + 1]
        BY <1>2, <1>5, <1>9, <2>3, <3>6
      <4>2. g.n.file = i /\ g.cur = Len(l) + 1 /\ g.got = Len(l) + 1 /\ g.n.ni = [ni EXCEPT !.list = Append(@, i)]
        BY <4>1
      <4>3. Append(l, i) \in Seq(Nat) /\ ListRead(i, Append(l, i), FALSE)
        BY <3>1, <3>4, <3>6
      <4>4. /\ g.n.ni \in [eof : BOOLEAN, ref : Nat, list : Seq(Nat), gen : Nat]
            /\ g.n.ni.eof = FALSE /\ g.n.ni.list = Append(l, i) /\ g.n.ni.ref = ni.ref /\ g.n.ni.gen = ni.gen
        BY <1>1, <1>9, <4>2, <4>3
      <4>5. ListRead(g.n.file, g.n.ni.list, g.n.ni.eof)
        BY <4>2, <4>3, <4>4
      <4>6. Len(Append(l, i)) = Len(l) + 1 /\ \A k \in 1 .. Len(l) : Append(l, i)[k] = l[k]
        BY <1>1, <3>2
      <4>7. /\ g.n.file \in 0 .. Len(File) /\ g.cur \in Nat /\ g.cur = Len(g.n.ni.list) /\ g.got /= 0
            /\ g.got = g.cur /\ g.cur = s.cur + 1 /\ Len(ni.list) <= Len(g.n.ni.list)
        BY <1>1, <2>1, <3>2, <4>2, <4>4, <4>6
      <4>8. \A k \in 1 .. Len(ni.list) : g.n.ni.list[k] = ni.list[k]
        BY <4>4, <4>6
      <4> QED BY <1>9, <4>4, <4>5, <4>7, <4>8
    <3> QED BY <3>5, <3>6
  <2> QED BY <2>2, <2>3
<1> QED BY <1>7, <1>8, <1>9

(* The list as another session may leave it to one that uses it.           *)
Grown ==
  /\ Len(ni.list) <= Len(ni'.list) /\ \A k \in 1 .. Len(ni.list) : ni'.list[k] = ni.list[k]
  /\ ni.eof => ni'.eof /\ ni'.list = ni.list
  /\ ni'.gen = ni.gen

one(b) == IF b THEN 1 ELSE 0

(* A step of one session.                                                  *)
LEMMA OneSession ==
  ASSUME NC!FileAssumption, SessionsInv, NEW t \in Threads, NEW r \in Session,
         session' = [session EXCEPT ![t] = r],
         nc_file' \in -1 .. Len(File), ni' \in [eof : BOOLEAN, ref : Nat, list : Seq(Nat), gen : Nat],
         ListRead(nc_file', ni'.list, ni'.eof), SessionOK(r, ni'.list, ni'.eof),
         InList(r) => r.gen = ni'.gen,
         \A u \in Threads : u /= t /\ InList(session[u]) => Grown,
         ni'.ref = ni.ref - one(InList(session[t])) + one(InList(r)),
         ni'.ref = 0 <=> nc_file' = -1, ni'.ref = 0 => ni'.list = <<>> /\ ~ni'.eof
  PROVE  SessionsInv'
<1>1. session \in [Threads -> Session] /\ ni \in [eof : BOOLEAN, ref : Nat, list : Seq(Nat), gen : Nat]
  BY DEF SessionsInv, NetTyped
<1>2. \A u \in Threads : session'[u] = IF u = t THEN r ELSE session[u]
  BY <1>1
<1>3. NetTyped'
  BY <1>1 DEF NetTyped
<1>4. NC!Counted'
  <2> DEFINE A == {u \in Threads : session[u].open /\ session[u].conf}
             B == {u \in Threads : session'[u].open /\ session'[u].conf}
  <2>1. IsFiniteSet(A)
    BY SameCardinality, FS_Subset DEF NC!FileAssumption
  <2>2. A \ {t} = B \ {t} /\ (t \in A <=> InList(session[t])) /\ (t \in B <=> InList(r))
    BY <1>2 DEF InList
  <2>3. ni.ref = Cardinality(A) /\ ni.ref \in Nat
    BY <1>1, SameCardinality DEF SessionsInv, NC!Counted
  <2> HIDE DEF A, B
  <2>4. /\ Cardinality(B) \in Nat
        /\ Cardinality(B) = Cardinality(A) - (IF t \in A THEN 1 ELSE 0) + (IF t \in B THEN 1 ELSE 0)
    BY <2>1, <2>2, CountOne
  <2>5. ni'.ref = Cardinality(B)
    BY <2>2, <2>3, <2>4 DEF one
  <2>6. ni'.ref = NC!Cardinality(B)
    BY <2>5, SameCardinality
  <2> QED BY <2>6 DEF NC!Counted, B
<1>5. ASSUME NEW u \in Threads
      PROVE  SessionOK(session'[u], ni'.list, ni'.eof) /\ (InList(session'[u]) => session'[u].gen = ni'.gen)
  <2>1. CASE u = t
    BY <1>2, <2>1
  <2>2. CASE u /= t
    <3> DEFINE s == session[u]
    <3>1. session'[u] = s /\ s \in Session /\ SessionOK(s, ni.list, ni.eof) /\ (InList(s) => s.gen = ni.gen)
      BY <1>1, <1>2, <2>2 DEF SessionsInv
    <3>2. CASE ~InList(s)
      BY <3>1, <3>2 DEF SessionOK, InList
    <3>3. CASE InList(s)
      <4>1. Grown
        BY <2>2, <3>3
      <4>2. Enumerating(s, ni.list, ni.eof) /\ s.open /\ s.conf
        BY <3>1, <3>3 DEF SessionOK, InList
      <4>3. s.cur \in Nat /\ Len(ni.list) \in Nat /\ Len(ni'.list) \in Nat /\ s.cur <= Len(ni.list)
        <5>1. s.cur \in Nat
          BY <3>1 DEF Session
        <5>2. Len(ni.list) \in Nat /\ Len(ni'.list) \in Nat
          BY <1>1
        <5> QED BY <4>2, <5>1, <5>2 DEF Enumerating
      <4>4. s.cur <= Len(ni'.list) /\ \A k \in 1 .. s.cur : ni'.list[k] = ni.list[k]
        BY <4>1, <4>3 DEF Grown
      <4>5. {ni'.list[k] : k \in 1 .. s.cur} = {ni.list[k] : k \in 1 .. s.cur}
        BY <4>4
      <4>6. NC!Parses /\ s.ended => ni'.eof /\ s.cur = Len(ni'.list)
        BY <4>1, <4>2 DEF Grown, Enumerating
      <4>7. Enumerating(s, ni'.list, ni'.eof)
        BY <4>2, <4>4, <4>5, <4>6 DEF Enumerating
      <4>8. SessionOK(s, ni'.list, ni'.eof)
        BY <3>1, <4>2, <4>7 DEF SessionOK
      <4> QED BY <3>1, <4>1, <4>8 DEF Grown
    <3> QED BY <3>2, <3>3
  <2> QED BY <2>1, <2>2
<1> QED BY <1>3, <1>4, <1>5 DEF SessionsInv

(* A session of getnetconfig is counted, and has the file open.            *)
LEMMA Referred ==
  ASSUME NC!FileAssumption, SessionsInv, NEW t \in Threads
  PROVE  /\ ni.ref \in Nat /\ (InList(session[t]) => ni.ref > 0 /\ nc_file /= -1)
         /\ ni.ref = one(InList(session[t])) => \A u \in Threads : u /= t => ~InList(session[u])
<1> DEFINE A == {u \in Threads : session[u].open /\ session[u].conf}
<1>1. IsFiniteSet(A) /\ ni.ref = Cardinality(A) /\ ni.ref \in Nat /\ (ni.ref = 0 <=> nc_file = -1)
  BY SameCardinality, FS_Subset DEF NC!FileAssumption, SessionsInv, NC!Counted, NetTyped
<1>2. \A u \in Threads : u \in A <=> InList(session[u])
  BY DEF InList
<1> HIDE DEF A
<1>3. ASSUME InList(session[t]) PROVE A /= {} /\ ni.ref > 0
  <2>1. t \in A
    BY <1>2, <1>3
  <2>2. ni.ref /= 0
    BY <1>1, <2>1, FS_EmptySet
  <2> QED BY <1>1, <2>1, <2>2
<1>4. ASSUME ni.ref = one(InList(session[t])), NEW u \in Threads, u /= t PROVE ~InList(session[u])
  <2>1. CASE ~InList(session[t])
    <3>1. A = {}
      BY <1>1, <1>4, <2>1, FS_EmptySet DEF one
    <3> QED BY <1>2, <3>1
  <2>2. CASE InList(session[t])
    <3>1. t \in A /\ Cardinality(A) = 1
      BY <1>1, <1>2, <1>4, <2>2 DEF one
    <3>2. IsFiniteSet(A \ {t}) /\ Cardinality(A \ {t}) = 0
      BY <1>1, <3>1, FS_RemoveElement
    <3>3. A \ {t} = {}
      BY <3>2, FS_EmptySet
    <3> QED BY <1>2, <1>4, <3>3
  <2> QED BY <2>1, <2>2
<1> QED BY <1>1, <1>3, <1>4

LEMMA GetconfSafe ==
  ASSUME NC!FileAssumption, SessionsInv, NEW t \in Threads, NC!__rpc_getconf(t)
  PROVE  SessionsInv'
<1> DEFINE s == session[t]   g == NC!getnetconfig(NC!N, s)   m == g.n.ni
           taken == g.got /= 0 /\ NC!selected(NC!entry(g.n, g.got), s.type)
           r == [s EXCEPT !.flag = 1, !.cur = g.cur, !.ended = g.got = 0,
                          !.seen = IF taken THEN Append(@, m.list[g.got]) ELSE @]
<1>1. /\ s.open /\ s.conf /\ ~s.ended
      /\ nc_file' = g.n.file /\ ni' = g.n.ni /\ session' = [session EXCEPT ![t] = r]
  BY DEF NC!__rpc_getconf, NC!now
<1>2. s \in Session /\ SessionOK(s, ni.list, ni.eof) /\ s.gen = ni.gen /\ NetTyped
  BY <1>1 DEF SessionsInv, NetTyped, InList
<1>3. Enumerating(s, ni.list, ni.eof) /\ InList(s)
  BY <1>1, <1>2 DEF SessionOK, InList
<1>4. nc_file /= -1 /\ ni.ref > 0 /\ ni.ref \in Nat
  BY <1>3, Referred
<1>5. ListRead(nc_file, ni.list, ni.eof)
  BY DEF SessionsInv
<1>6. /\ g.n.file \in 0 .. Len(File) /\ m \in [eof : BOOLEAN, ref : Nat, list : Seq(Nat), gen : Nat]
      /\ m.ref = ni.ref /\ m.gen = ni.gen
      /\ ListRead(g.n.file, m.list, m.eof)
      /\ Len(ni.list) <= Len(m.list) /\ \A k \in 1 .. Len(ni.list) : m.list[k] = ni.list[k]
      /\ ni.eof => m.eof /\ m.list = ni.list
      /\ g.cur \in Nat /\ g.cur <= Len(m.list)
      /\ g.got /= 0 => g.got = g.cur /\ g.cur = s.cur + 1
      /\ g.got = 0 => g.cur = s.cur /\ (NC!Parses => m.eof /\ g.cur = Len(m.list))
  BY <1>1, <1>2, <1>3, <1>4, <1>5, Getnetconfig
<1>7. taken <=> g.got /= 0 /\ NC!selected(File[m.list[g.got]], s.type)
  BY DEF NC!entry
<1> HIDE DEF g, m, taken
<1> DEFINE l == m.list   seen == IF taken THEN Append(s.seen, l[g.got]) ELSE s.seen
<1>8. s.cur \in Nat /\ s.seen \in Seq(Nat) /\ s.cur <= Len(l) /\ l \in Seq(Nat) /\ Len(l) \in Nat /\ Len(ni.list) \in Nat
  <2>1. s.cur \in Nat /\ s.seen \in Seq(Nat)
    BY <1>2 DEF Session
  <2>2. s.cur <= Len(ni.list) /\ Len(ni.list) \in Nat /\ l \in Seq(Nat) /\ Len(l) \in Nat
    BY <1>2, <1>3, <1>6 DEF Enumerating, NetTyped
  <2> QED BY <1>6, <2>1, <2>2
<1>9. NC!Elements(s.seen) = {i \in {l[k] : k \in 1 .. s.cur} : NC!selected(File[i], s.type)} /\ NC!Increasing(s.seen)
  <2>1. \A k \in 1 .. s.cur : l[k] = ni.list[k]
    BY <1>3, <1>6, <1>8 DEF Enumerating
  <2>2. {l[k] : k \in 1 .. s.cur} = {ni.list[k] : k \in 1 .. s.cur}
    BY <2>1
  <2> QED BY <1>3, <2>2 DEF Enumerating
<1>10. /\ seen \in Seq(Nat) /\ NC!Increasing(seen)
       /\ NC!Elements(seen) = {i \in {l[k] : k \in 1 .. g.cur} : NC!selected(File[i], s.type)}
  <2>1. CASE g.got = 0
    BY <1>6, <1>7, <1>8, <1>9, <2>1
  <2>2. CASE g.got /= 0
    <3>1. g.got = g.cur /\ g.cur = s.cur + 1 /\ g.cur \in 1 .. Len(l) /\ l[g.cur] \in Nat
      BY <1>6, <1>8, <2>2
    <3>2. {l[k] : k \in 1 .. g.cur} = {l[k] : k \in 1 .. s.cur} \cup {l[g.cur]}
      <4>1. 1 .. g.cur = (1 .. s.cur) \cup {g.cur}
        BY <1>8, <3>1
      <4> QED BY <4>1
    <3>3. CASE ~taken
      BY <1>7, <1>8, <1>9, <2>2, <3>1, <3>2, <3>3
    <3>4. CASE taken
      <4>1. NC!selected(File[l[g.cur]], s.type) /\ seen = Append(s.seen, l[g.cur])
        BY <1>7, <3>1, <3>4
      <4>2. NC!Increasing(l)
        BY <1>6 DEF ListRead
      <4>3. ASSUME NEW j \in NC!Elements(s.seen) PROVE j < l[g.cur]
        <5>1. PICK k \in 1 .. s.cur : j = l[k]
          BY <1>9
        <5>2. k \in 1 .. Len(l) /\ k < g.cur
          BY <1>8, <3>1
        <5> QED BY <3>1, <4>2, <5>1, <5>2 DEF NC!Increasing
      <4>4. /\ seen \in Seq(Nat) /\ NC!Increasing(seen)
            /\ NC!Elements(seen) = NC!Elements(s.seen) \cup {l[g.cur]}
        BY <1>8, <1>9, <3>1, <4>1, <4>3, IncreasingAppend
      <4> QED BY <1>9, <3>2, <4>1, <4>4
    <3> QED BY <3>3, <3>4
  <2> QED BY <2>1, <2>2
<1>11. /\ r \in Session /\ r.open /\ r.conf /\ r.flag = 1 /\ r.cur = g.cur /\ (r.ended <=> g.got = 0)
       /\ r.seen = seen /\ r.type = s.type /\ r.gen = s.gen /\ r.missed = s.missed
  BY <1>1, <1>2, <1>6, <1>10 DEF Session
<1> HIDE DEF r, seen
<1>12. Enumerating(r, l, m.eof)
  <2>1. ~r.ended => r.cur > 0
    BY <1>6, <1>8, <1>11
  <2>2. NC!Parses /\ r.ended => m.eof /\ r.cur = Len(l)
    BY <1>6, <1>11
  <2> QED BY <1>3, <1>6, <1>10, <1>11, <2>1, <2>2 DEF Enumerating
<1>13. SessionOK(r, l, m.eof) /\ InList(r)
  BY <1>1, <1>2, <1>11, <1>12 DEF SessionOK, InList
<1>14. ni' = m
  BY <1>1 DEF m
<1>15. Grown
  BY <1>6, <1>14 DEF Grown
<1>16. ni'.ref = ni.ref - one(InList(session[t])) + one(InList(r))
  BY <1>3, <1>4, <1>6, <1>13, <1>14 DEF one
<1>17. nc_file' \in -1 .. Len(File) /\ nc_file' /= -1 /\ ni'.ref /= 0
  BY <1>1, <1>4, <1>6, <1>14 DEF NC!FileAssumption
<1> QED BY <1>1, <1>2, <1>6, <1>11, <1>13, <1>14, <1>15, <1>16, <1>17, OneSession

(* getnetconfigent finds the first entry of a name, in the list or in the  *)
(* file.                                                                   *)
LEMMA Getnetconfigent ==
  ASSUME NC!FileAssumption, NetTyped, ListRead(nc_file, ni.list, ni.eof), NC!Parses,
         NEW p, NEW i, i = NC!getnetconfigent(NC!N, p)
  PROVE  /\ NC!Named(p) = {} => i = 0
         /\ NC!Named(p) /= {} => i = NC!First(NC!Named(p)) /\ i /= 0
<1> DEFINE L == NC!Elements(ni.list)   M == NC!Named(p)   I == {j \in L : File[j].netid = p}
           J == {j \in 1 .. Len(File) : /\ File[j].kind = "entry" /\ File[j].netid = p
                                        /\ \A k \in 1 .. j : File[k].kind /= "bad"}
<1>1. Len(File) \in Nat /\ nc_file \in -1 .. Len(File)
  BY DEF NC!FileAssumption, NetTyped
<1>2. i = IF I /= {} THEN NC!First(I) ELSE IF L /= {} /\ ni.eof THEN 0
          ELSE IF J = {} THEN 0 ELSE NC!First(J)
  BY DEF NC!getnetconfigent, NC!N, NC!Elements
<1>3. J = M
  <2>1. \A j \in 1 .. Len(File) : \A k \in 1 .. j : k \in 1 .. Len(File)
    BY <1>1
  <2> QED BY <2>1 DEF NC!Named, NC!Entries, NC!Parses
<1>4. L = {j \in NC!Entries : j <= nc_file} /\ (ni.eof => nc_file = Len(File))
  BY DEF ListRead
<1>5. M \subseteq 1 .. Len(File) /\ M \subseteq Nat
  BY <1>1 DEF NC!Named, NC!Entries
<1>6. I = {j \in M : j <= nc_file}
  BY <1>4 DEF NC!Named
<1>7. \A S : NC!First(S) = First(S)
  BY DEF NC!First, First
<1> HIDE DEF I, J, L, M
<1>8. CASE I /= {}
  <2>1. I \subseteq M /\ I \subseteq Nat /\ M /= {}
    BY <1>5, <1>6, <1>8
  <2>2. First(I) \in I /\ \A j \in I : First(I) <= j
    BY <1>8, <2>1, FirstIsLeast
  <2>3. First(M) \in M /\ \A j \in M : First(M) <= j
    BY <1>5, <2>1, FirstIsLeast
  <2>4. First(M) <= First(I) /\ First(M) \in Nat /\ First(I) \in Nat /\ First(I) <= nc_file
    BY <1>5, <1>6, <2>1, <2>2, <2>3
  <2>5. First(M) \in I
    BY <1>1, <1>6, <2>3, <2>4
  <2>6. First(I) = First(M)
    BY <2>2, <2>4, <2>5
  <2>7. i = NC!First(M) /\ First(M) \in 1 .. Len(File)
    BY <1>2, <1>5, <1>7, <1>8, <2>3, <2>6
  <2> QED BY <1>7, <2>1, <2>7 DEF M
<1>9. CASE I = {} /\ L /= {} /\ ni.eof
  <2>1. M = {}
    BY <1>1, <1>4, <1>5, <1>6, <1>9
  <2> QED BY <1>2, <1>9, <2>1 DEF M
<1>10. CASE I = {} /\ ~(L /= {} /\ ni.eof)
  <2>1. CASE M = {}
    BY <1>2, <1>3, <1>10, <2>1 DEF M
  <2>2. CASE M /= {}
    <3>1. First(M) \in M
      BY <1>5, <2>2, FirstIsLeast
    <3>2. i = NC!First(M) /\ NC!First(M) \in 1 .. Len(File)
      BY <1>2, <1>3, <1>5, <1>7, <1>10, <2>2, <3>1
    <3> QED BY <2>2, <3>2 DEF M
  <2> QED BY <2>1, <2>2
<1> QED BY <1>8, <1>9, <1>10

(* A step of one session that leaves the list alone.                       *)
LEMMA ListKept ==
  ASSUME NC!FileAssumption, SessionsInv, NEW t \in Threads, NEW r \in Session,
         session' = [session EXCEPT ![t] = r], UNCHANGED <<nc_file, ni>>,
         ~InList(session[t]), ~InList(r), SessionOK(r, ni.list, ni.eof)
  PROVE  SessionsInv'
<1>1. NetTyped /\ NC!Counted /\ ListRead(nc_file, ni.list, ni.eof)
  BY DEF SessionsInv
<1>2. ni.ref \in Nat
  BY <1>1 DEF NetTyped
<1>3. ni'.ref = ni.ref - one(InList(session[t])) + one(InList(r))
  BY <1>2 DEF one
<1>4. Grown
  BY <1>1 DEF Grown, NetTyped
<1>5. (ni'.ref = 0 <=> nc_file' = -1) /\ (ni'.ref = 0 => ni'.list = <<>> /\ ~ni'.eof)
  BY <1>1 DEF NC!Counted
<1>6. nc_file' \in -1 .. Len(File) /\ ni' \in [eof : BOOLEAN, ref : Nat, list : Seq(Nat), gen : Nat]
  BY <1>1 DEF NetTyped
<1> QED BY <1>1, <1>3, <1>4, <1>5, <1>6, OneSession

LEMMA GetnetpathSafe ==
  ASSUME NC!FileAssumption, SessionsInv, NEW t \in Threads, NC!getnetpath(t)
  PROVE  SessionsInv'
<1> DEFINE s == session[t]
           q == [s EXCEPT !.ended = TRUE]
           i(opened) == IF opened THEN NC!getnetconfigent(NC!N, NETPATH[s.at + 1]) ELSE 0
           sel(opened) == i(opened) /= 0 /\ NC!selected(File[i(opened)], s.type)
           rec(opened) == [s EXCEPT !.at = @ + 1,
                          !.chain = IF i(opened) = 0 THEN @ ELSE IF @ < 2 THEN @ + 1 ELSE 2,
                          !.seen = IF sel(opened) THEN Append(@, s.at + 1) ELSE @,
                          !.missed = IF opened THEN @ ELSE @ \cup {s.at + 1}]
<1>1. s.open /\ ~s.conf /\ ~s.ended /\ UNCHANGED <<nc_file, ni>>
  BY DEF NC!getnetpath
<1>2. s \in Session /\ SessionOK(s, ni.list, ni.eof) /\ NetTyped /\ ListRead(nc_file, ni.list, ni.eof)
  BY DEF SessionsInv, NetTyped
<1>3. AlongPath(s) /\ ~InList(s) /\ NC!by_path(s.type) /\ ~NC!unset
  BY <1>1, <1>2 DEF SessionOK, InList
<1>4. s.at \in Nat /\ s.seen \in Seq(Nat) /\ Len(NETPATH) \in Nat /\ s.at <= Len(NETPATH)
      /\ s.missed \subseteq Nat /\ \A k \in s.missed : k <= s.at
  BY <1>2, <1>3 DEF Session, AlongPath, NC!FileAssumption
<1>5. CASE s.at = Len(NETPATH)
  <2>1. session' = [session EXCEPT ![t] = q]
    <3>1. session' = [session EXCEPT ![t].ended = TRUE]
      BY <1>5 DEF NC!getnetpath
    <3> QED BY <3>1
  <2>2. q \in Session /\ q.open /\ ~q.conf /\ q.type = s.type /\ q.at = s.at /\ q.seen = s.seen /\ q.missed = s.missed
    BY <1>1, <1>2 DEF Session
  <2> HIDE DEF q
  <2>3. AlongPath(q)
    BY <1>3, <1>5, <2>2 DEF AlongPath
  <2>4. SessionOK(q, ni.list, ni.eof) /\ ~InList(q)
    BY <1>3, <2>2, <2>3 DEF SessionOK, InList
  <2> QED BY <1>1, <1>3, <2>1, <2>2, <2>4, ListKept
<1>6. CASE s.at /= Len(NETPATH)
  <2>1. PICK opened \in BOOLEAN : session' = [session EXCEPT ![t] = rec(opened)]
    BY <1>6 DEF NC!getnetpath
  <2> DEFINE ok == sel(opened)   r == rec(opened)   found == i(opened) /= 0
             missed == IF opened THEN s.missed ELSE s.missed \cup {s.at + 1}
  <2>2. NC!Parses => (ok <=> s.at + 1 \in NC!Positions(s.type) \ missed)
    <3>1. SUFFICES ASSUME NC!Parses PROVE ok <=> s.at + 1 \in NC!Positions(s.type) \ missed
      OBVIOUS
    <3> DEFINE p == NETPATH[s.at + 1]   j == NC!getnetconfigent(NC!N, p)
    <3>2. /\ NC!Named(p) = {} => j = 0
          /\ NC!Named(p) /= {} => j = NC!First(NC!Named(p)) /\ j /= 0
      BY <1>2, <3>1, Getnetconfigent
    <3>3. s.at + 1 \in 1 .. Len(NETPATH) /\ s.at + 1 \notin s.missed
      BY <1>4, <1>6
    <3>4. CASE opened
      <4>1. ok <=> j /= 0 /\ NC!selected(File[j], s.type)
        BY <3>4
      <4>2. missed = s.missed
        BY <3>4
      <4> HIDE DEF ok, j, missed
      <4> QED BY <1>3, <3>2, <3>3, <4>1, <4>2 DEF NC!Positions
    <3>5. CASE ~opened
      BY <3>5
    <3> QED BY <3>4, <3>5
  <2>3. r = [s EXCEPT !.at = s.at + 1, !.chain = IF ~found THEN s.chain ELSE IF s.chain < 2 THEN s.chain + 1 ELSE 2,
                      !.seen = IF ok THEN Append(s.seen, s.at + 1) ELSE s.seen, !.missed = missed]
    OBVIOUS
  <2>4. missed \subseteq Nat /\ (\A k \in missed : k <= s.at + 1) /\ s.missed \subseteq missed
        /\ \A k \in missed : k <= s.at => k \in s.missed
    BY <1>4
  <2> HIDE DEF ok, found, r, missed
  <2> DEFINE seen == IF ok THEN Append(s.seen, s.at + 1) ELSE s.seen
             P == NC!Positions(s.type)
  <2>5. NC!Parses => NC!Increasing(seen) /\ NC!Elements(seen) = {k \in P \ missed : k <= s.at + 1}
    <3>1. SUFFICES ASSUME NC!Parses
                   PROVE  NC!Increasing(seen) /\ NC!Elements(seen) = {k \in P \ missed : k <= s.at + 1}
      OBVIOUS
    <3>2. NC!Increasing(s.seen) /\ NC!Elements(s.seen) = {k \in P \ s.missed : k <= s.at}
      BY <1>3, <3>1 DEF AlongPath
    <3>3. P \subseteq Nat
      BY <1>3, <1>4 DEF NC!Positions
    <3>4. {k \in P \ missed : k <= s.at + 1}
            = {k \in P \ s.missed : k <= s.at} \cup (IF ok THEN {s.at + 1} ELSE {})
      <4>1. ASSUME NEW k \in P PROVE k <= s.at + 1 <=> k <= s.at \/ k = s.at + 1
        BY <1>4, <3>3
      <4>2. ok <=> s.at + 1 \in P \ missed
        BY <2>2, <3>1
      <4>3. s.at + 1 <= s.at + 1
        BY <1>4
      <4>4. ASSUME NEW k \in P, k <= s.at PROVE k \in missed <=> k \in s.missed
        BY <2>4, <4>4
      <4> HIDE DEF P
      <4> QED BY <4>1, <4>2, <4>3, <4>4
    <3>5. ASSUME NEW j \in NC!Elements(s.seen) PROVE j < s.at + 1
      BY <1>4, <3>2, <3>3
    <3>6. s.at + 1 \in Nat
      BY <1>4
    <3>7. /\ NC!Increasing(Append(s.seen, s.at + 1))
          /\ NC!Elements(Append(s.seen, s.at + 1)) = NC!Elements(s.seen) \cup {s.at + 1}
      BY <1>4, <3>2, <3>5, <3>6, IncreasingAppend
    <3> QED BY <3>2, <3>4, <3>7
  <2>6. /\ r \in Session /\ r.open /\ ~r.conf /\ ~r.ended /\ r.type = s.type /\ r.at = s.at + 1
        /\ r.seen = seen /\ r.missed = missed
    <3> DEFINE chain == IF ~found THEN s.chain ELSE IF s.chain < 2 THEN s.chain + 1 ELSE 2
    <3>1. s.chain \in Nat /\ s.at + 1 \in Nat
      BY <1>2, <1>4 DEF Session
    <3>2. seen \in Seq(Nat) /\ chain \in Nat
      BY <1>4, <3>1
    <3>3. r = [s EXCEPT !.at = s.at + 1, !.chain = chain, !.seen = seen, !.missed = missed]
      BY <2>3
    <3> HIDE DEF seen, chain
    <3> QED BY <1>1, <1>2, <2>4, <3>1, <3>2, <3>3 DEF Session
  <2> HIDE DEF seen
  <2>7. AlongPath(r)
    <3>1. s.at + 1 <= Len(NETPATH)
      BY <1>4, <1>6
    <3>2. \A k \in r.missed : k <= r.at
      BY <2>4, <2>6
    <3>3. NC!Parses => NC!Increasing(r.seen) /\ NC!Elements(r.seen) = {k \in NC!Positions(r.type) \ r.missed : k <= r.at}
      BY <2>5, <2>6
    <3> QED BY <2>6, <3>1, <3>2, <3>3 DEF AlongPath
  <2>8. SessionOK(r, ni.list, ni.eof) /\ ~InList(r)
    BY <1>3, <2>6, <2>7 DEF SessionOK, InList
  <2>9. session' = [session EXCEPT ![t] = r]
    BY <2>1 DEF r
  <2> QED BY <1>1, <1>3, <2>6, <2>8, <2>9, ListKept
<1> QED BY <1>5, <1>6

(* endnetconfig leaves the list to those who use it, and frees it when     *)
(* nobody does.                                                            *)
LEMMA Endnetconfig ==
  ASSUME NC!FileAssumption, NEW n, NEW e, e = NC!endnetconfig(n), n.ni.ref > 0,
         n \in [file : 0 .. Len(File), ni : [eof : BOOLEAN, ref : Nat, list : Seq(Nat), gen : Nat]],
         ListRead(n.file, n.ni.list, n.ni.eof)
  PROVE  /\ e.file \in -1 .. Len(File) /\ e.ni \in [eof : BOOLEAN, ref : Nat, list : Seq(Nat), gen : Nat]
         /\ e.ni.ref = n.ni.ref - 1 /\ ListRead(e.file, e.ni.list, e.ni.eof)
         /\ n.ni.ref > 1 => e.file = n.file /\ e.ni.list = n.ni.list /\ e.ni.eof = n.ni.eof /\ e.ni.gen = n.ni.gen
         /\ n.ni.ref = 1 => e.file = -1 /\ e.ni.list = <<>> /\ ~e.ni.eof
<1> DEFINE T == [eof : BOOLEAN, ref : Nat, list : Seq(Nat), gen : Nat]
           m == [n.ni EXCEPT !.ref = @ - 1]
           z == [eof |-> FALSE, ref |-> 0, list |-> <<>>, gen |-> n.ni.gen + 1]
<1>1. Len(File) \in Nat /\ n.file \in 0 .. Len(File) /\ n.ni \in T /\ n.ni.ref \in Nat /\ n.ni.gen \in Nat
  BY DEF NC!FileAssumption
<1>2. CASE n.ni.ref > 1
  <2>1. e = [n EXCEPT !.ni = m]
    BY <1>2 DEF NC!endnetconfig
  <2>2. m \in T /\ m.ref = n.ni.ref - 1 /\ m.list = n.ni.list /\ m.eof = n.ni.eof /\ m.gen = n.ni.gen
    BY <1>1, <1>2
  <2> HIDE DEF m
  <2>3. e.file = n.file /\ e.ni = m
    BY <2>1
  <2> QED BY <1>1, <1>2, <2>2, <2>3
<1>3. CASE n.ni.ref = 1
  <2>1. e = [file |-> -1, ni |-> z]
    BY <1>3 DEF NC!endnetconfig
  <2>2. z \in T /\ z.ref = 0 /\ z.list = <<>> /\ z.eof = FALSE
    BY <1>1
  <2> HIDE DEF z
  <2>3. e.file = -1 /\ e.ni = z
    BY <2>1
  <2>4. ListRead(-1, <<>>, FALSE)
    <3>1. NC!Elements(<<>>) = {}
      BY DEF NC!Elements
    <3>2. {i \in NC!Entries : i <= -1} = {}
      BY <1>1 DEF NC!Entries
    <3> QED BY <3>1, <3>2 DEF ListRead, NC!Increasing
  <2>5. ListRead(e.file, e.ni.list, e.ni.eof)
    BY <2>2, <2>3, <2>4
  <2> QED BY <1>1, <1>3, <2>2, <2>3, <2>5
<1> QED BY <1>1, <1>2, <1>3

LEMMA ClosedTyped == NC!Closed \in Session /\ (\A l, e : SessionOK(NC!Closed, l, e)) /\ ~InList(NC!Closed)
<1>1. NC!Closed \in Session
  BY DEF NC!Closed, Session
<1>2. ~NC!Closed.open /\ ~NC!Closed.conf /\ ~NC!Closed.ended
  BY DEF NC!Closed
<1> QED BY <1>1, <1>2 DEF SessionOK, InList

LEMMA EndconfSafe ==
  ASSUME NC!FileAssumption, SessionsInv, NEW t \in Threads, NC!__rpc_endconf(t)
  PROVE  SessionsInv'
<1> DEFINE s == session[t]   e == NC!endnetconfig(NC!N)
<1>1. s.open /\ session' = [session EXCEPT ![t] = NC!Closed]
      /\ (s.conf => nc_file' = e.file /\ ni' = e.ni) /\ (~s.conf => UNCHANGED <<nc_file, ni>>)
  BY DEF NC!__rpc_endconf, NC!now
<1>2. CASE ~s.conf
  BY <1>1, <1>2, ClosedTyped, ListKept DEF InList
<1>3. CASE s.conf
  <2>1. NetTyped /\ ListRead(nc_file, ni.list, ni.eof) /\ NC!Counted /\ InList(s)
    BY <1>1, <1>3 DEF SessionsInv, InList
  <2>2. ni.ref \in Nat /\ ni.ref > 0 /\ nc_file /= -1
        /\ (ni.ref = 1 => \A u \in Threads : u /= t => ~InList(session[u]))
    BY <2>1, Referred DEF one
  <2>3. NC!N \in [file : 0 .. Len(File), ni : [eof : BOOLEAN, ref : Nat, list : Seq(Nat), gen : Nat]]
        /\ NC!N.ni = ni /\ NC!N.file = nc_file
    BY <2>1, <2>2 DEF NC!N, NetTyped, NC!FileAssumption
  <2>4. /\ e.file \in -1 .. Len(File) /\ e.ni \in [eof : BOOLEAN, ref : Nat, list : Seq(Nat), gen : Nat]
        /\ e.ni.ref = ni.ref - 1 /\ ListRead(e.file, e.ni.list, e.ni.eof)
        /\ ni.ref > 1 => e.file = nc_file /\ e.ni.list = ni.list /\ e.ni.eof = ni.eof /\ e.ni.gen = ni.gen
        /\ ni.ref = 1 => e.file = -1 /\ e.ni.list = <<>> /\ ~e.ni.eof
    BY <2>1, <2>2, <2>3, Endnetconfig
  <2> HIDE DEF e
  <2>5. nc_file' = e.file /\ ni' = e.ni
    BY <1>1, <1>3
  <2>6. ni'.ref = ni.ref - one(InList(session[t])) + one(InList(NC!Closed))
    BY <2>1, <2>2, <2>4, <2>5, ClosedTyped DEF one
  <2>7. ni'.ref = 0 <=> ni.ref = 1
    BY <2>2, <2>4, <2>5
  <2>8. (ni'.ref = 0 <=> nc_file' = -1) /\ (ni'.ref = 0 => ni'.list = <<>> /\ ~ni'.eof)
    BY <2>2, <2>4, <2>5, <2>7
  <2>9. ASSUME NEW u \in Threads, u /= t, InList(session[u]) PROVE Grown
    <3>1. ni.ref > 1
      BY <2>2, <2>9
    <3>2. Len(ni.list) \in Nat
      BY <2>1 DEF NetTyped
    <3> QED BY <2>4, <2>5, <3>1, <3>2 DEF Grown
  <2>10. /\ nc_file' \in -1 .. Len(File) /\ ni' \in [eof : BOOLEAN, ref : Nat, list : Seq(Nat), gen : Nat]
         /\ ListRead(nc_file', ni'.list, ni'.eof)
    BY <2>4, <2>5
  <2> QED BY <1>1, <2>6, <2>8, <2>9, <2>10, ClosedTyped, OneSession
<1> QED BY <1>2, <1>3

LEMMA SetconfSafe ==
  ASSUME NC!FileAssumption, SessionsInv, NEW t \in Threads, NC!__rpc_setconf(t)
  PROVE  SessionsInv'
<1> DEFINE s == session[t]   n == NC!setnetconfig(NC!N)   T == [eof : BOOLEAN, ref : Nat, list : Seq(Nat), gen : Nat]
<1>1. PICK type \in Nettypes :
        /\ ~s.open /\ LET conf == ~NC!by_path(type) \/ NC!unset IN
             /\ NC!now(IF NC!by_path(type) THEN NC!setnetpath(n) ELSE n)
             /\ session' = [session EXCEPT ![t] = [NC!Closed EXCEPT !.open = TRUE, !.type = type,
                              !.conf = conf, !.gen = ni.gen]]
  BY DEF NC!__rpc_setconf
<1> DEFINE conf == ~NC!by_path(type) \/ NC!unset   e == NC!endnetconfig(n)
           r == [NC!Closed EXCEPT !.open = TRUE, !.type = type, !.conf = conf, !.gen = ni.gen]
<1>2. session' = [session EXCEPT ![t] = r] /\ ~InList(s)
      /\ (conf => nc_file' = n.file /\ ni' = n.ni) /\ (~conf => nc_file' = e.file /\ ni' = e.ni)
  BY <1>1 DEF NC!now, NC!setnetpath, InList
<1>3. NetTyped /\ ListRead(nc_file, ni.list, ni.eof) /\ NC!Counted /\ Len(File) \in Nat /\ Len(NETPATH) \in Nat
  BY DEF SessionsInv, NC!FileAssumption
<1>4. ni \in T /\ ni.ref \in Nat /\ ni.gen \in Nat /\ ni.list \in Seq(Nat) /\ nc_file \in -1 .. Len(File)
  BY <1>3 DEF NetTyped
<1>5. n.file = (IF nc_file = -1 THEN 0 ELSE nc_file) /\ n.ni = [ni EXCEPT !.ref = ni.ref + 1]
      /\ n = [file |-> n.file, ni |-> n.ni]
  BY DEF NC!setnetconfig, NC!N
<1>6. n.ni \in T /\ n.ni.ref = ni.ref + 1 /\ n.ni.list = ni.list /\ n.ni.eof = ni.eof /\ n.ni.gen = ni.gen
  BY <1>4, <1>5
<1>7. n.file \in 0 .. Len(File) /\ (nc_file /= -1 => n.file = nc_file)
  BY <1>3, <1>4, <1>5
<1>8. ListRead(n.file, n.ni.list, n.ni.eof)
  <2>1. CASE nc_file /= -1
    BY <1>3, <1>6, <1>7, <2>1
  <2>2. CASE nc_file = -1
    <3>1. ni.list = <<>> /\ ~ni.eof /\ n.file = 0
      BY <1>3, <1>5, <2>2 DEF NC!Counted
    <3>2. NC!Elements(<<>>) = {}
      BY DEF NC!Elements
    <3>3. {i \in NC!Entries : i <= 0} = {}
      BY <1>3 DEF NC!Entries
    <3> QED BY <1>6, <3>1, <3>2, <3>3 DEF ListRead, NC!Increasing
  <2> QED BY <2>1, <2>2
<1>9. n \in [file : 0 .. Len(File), ni : T]
  <2> DEFINE f == n.file   m == n.ni
  <2>1. f \in 0 .. Len(File) /\ m \in T /\ n = [file |-> f, ni |-> m]
    BY <1>5, <1>6, <1>7
  <2> HIDE DEF f, m
  <2> QED BY <2>1
<1>10. r \in Session /\ r.open /\ (r.conf <=> conf) /\ r.type = type /\ r.gen = ni.gen /\ r.flag = 0 /\ r.cur = 0
       /\ r.at = 0 /\ r.seen = <<>> /\ ~r.ended /\ r.missed = {}
  BY <1>4, ClosedTyped DEF NC!Closed, Session
<1>11. NC!Elements(<<>>) = {} /\ NC!Increasing(<<>>)
  BY DEF NC!Elements, NC!Increasing
<1> HIDE DEF r, n
<1>12. ASSUME NEW l \in Seq(Nat), NEW f PROVE SessionOK(r, l, f)
  <2>1. Enumerating(r, l, f)
    <3>1. {i \in {l[k] : k \in 1 .. 0} : NC!selected(File[i], type)} = {}
      OBVIOUS
    <3>2. 0 <= Len(l)
      OBVIOUS
    <3> QED BY <1>10, <1>11, <3>1, <3>2 DEF Enumerating
  <2>2. CASE conf
    BY <1>10, <2>1, <2>2 DEF SessionOK
  <2>3. CASE ~conf
    <3>1. {k \in NC!Positions(type) \ {} : k <= 0} = {}
      BY <1>3, <2>3 DEF NC!Positions
    <3>2. AlongPath(r)
      BY <1>3, <1>10, <1>11, <3>1 DEF AlongPath
    <3> QED BY <1>10, <2>3, <3>2 DEF SessionOK
  <2> QED BY <2>2, <2>3
<1>13. InList(r) <=> conf
  BY <1>10 DEF InList
<1>14. CASE conf
  <2>1. nc_file' = n.file /\ ni' = n.ni
    BY <1>2, <1>14
  <2>2. ni'.ref = ni.ref - one(InList(session[t])) + one(InList(r))
    BY <1>2, <1>4, <1>6, <1>13, <1>14, <2>1 DEF one
  <2>3. Grown
    BY <1>4, <1>6, <2>1 DEF Grown
  <2>4. nc_file' \in -1 .. Len(File) /\ nc_file' /= -1 /\ ni'.ref /= 0 /\ ni' \in T
    BY <1>3, <1>4, <1>6, <1>7, <2>1
  <2>5. SessionOK(r, ni'.list, ni'.eof) /\ ListRead(nc_file', ni'.list, ni'.eof) /\ r.gen = ni'.gen
    BY <1>4, <1>6, <1>8, <1>10, <1>12, <2>1
  <2> QED BY <1>2, <1>10, <2>2, <2>3, <2>4, <2>5, OneSession
<1>15. CASE ~conf
  <2>1. nc_file' = e.file /\ ni' = e.ni
    BY <1>2, <1>15
  <2>2. n.ni.ref > 0
    BY <1>4, <1>6
  <2>3. /\ e.file \in -1 .. Len(File) /\ e.ni \in T
        /\ e.ni.ref = n.ni.ref - 1 /\ ListRead(e.file, e.ni.list, e.ni.eof)
        /\ n.ni.ref > 1 => e.file = n.file /\ e.ni.list = n.ni.list /\ e.ni.eof = n.ni.eof /\ e.ni.gen = n.ni.gen
        /\ n.ni.ref = 1 => e.file = -1 /\ e.ni.list = <<>> /\ ~e.ni.eof
    BY <1>8, <1>9, <2>2, Endnetconfig
  <2> HIDE DEF e
  <2>4. ni'.ref = ni.ref
    BY <1>4, <1>6, <2>1, <2>3
  <2>5. ni'.ref = ni.ref - one(InList(session[t])) + one(InList(r))
    BY <1>2, <1>4, <1>13, <1>15, <2>4 DEF one
  <2>6. (ni'.ref = 0 <=> nc_file' = -1) /\ (ni'.ref = 0 => ni'.list = <<>> /\ ~ni'.eof)
    <3>1. CASE ni.ref = 0
      BY <1>4, <1>6, <2>1, <2>3, <2>4, <3>1
    <3>2. CASE ni.ref /= 0
      <4>1. n.ni.ref > 1
        BY <1>4, <1>6, <3>2
      <4> QED BY <1>7, <2>1, <2>3, <2>4, <3>2, <4>1
    <3> QED BY <3>1, <3>2
  <2>7. ASSUME NEW u \in Threads, u /= t, InList(session[u]) PROVE Grown
    <3>1. ni.ref > 0
      BY <2>7, Referred
    <3>2. n.ni.ref > 1
      BY <1>4, <1>6, <3>1
    <3> QED BY <1>4, <1>6, <2>1, <2>3, <3>2 DEF Grown
  <2>8. SessionOK(r, ni'.list, ni'.eof) /\ ListRead(nc_file', ni'.list, ni'.eof)
        /\ nc_file' \in -1 .. Len(File) /\ ni' \in T
    BY <1>12, <2>1, <2>3
  <2> QED BY <1>2, <1>10, <1>13, <1>15, <2>5, <2>6, <2>7, <2>8, OneSession
<1> QED BY <1>14, <1>15

LEMMA SessionsNext ==
  ASSUME NC!FileAssumption PROVE SessionsInv /\ [NC!Next]_NC!vars => SessionsInv'
<1> SUFFICES ASSUME SessionsInv, [NC!Next]_NC!vars PROVE SessionsInv'
  OBVIOUS
<1>1. CASE UNCHANGED <<nc_file, ni, session>>
  BY <1>1 DEF SessionsInv, NetTyped, NC!Counted
<1>2. CASE UNCHANGED NC!vars
  BY <1>1, <1>2 DEF NC!vars
<1>3. ASSUME NEW t \in Threads, NC!setconf_fails(t) PROVE SessionsInv'
  BY <1>1, <1>3 DEF NC!setconf_fails
<1> QED BY <1>2, <1>3, SetconfSafe, GetconfSafe, GetnetpathSafe, EndconfSafe DEF NC!Next

LEMMA SessionsInvSound == ASSUME NC!FileAssumption PROVE SessionsInv => NC!SessionsSound
<1> SUFFICES ASSUME SessionsInv PROVE NC!SessionsSound
  OBVIOUS
<1>1. NetTyped /\ NC!Counted /\ ListRead(nc_file, ni.list, ni.eof)
  BY DEF SessionsInv
<1>2. NC!EntryAlive
  BY DEF SessionsInv, NC!EntryAlive, SessionOK, Enumerating, InList
<1>3. ASSUME NC!Parses, NEW t \in Threads, session[t].ended
      PROVE  NC!Increasing(session[t].seen) /\ NC!Elements(session[t].seen) = NC!Positions(session[t].type) \ session[t].missed
  <2> DEFINE s == session[t]
  <2>1. SessionOK(s, ni.list, ni.eof)
    BY DEF SessionsInv
  <2>2. CASE s.conf
    <3>1. Enumerating(s, ni.list, ni.eof) /\ s.open /\ (~NC!by_path(s.type) \/ NC!unset)
      BY <1>3, <2>1, <2>2 DEF SessionOK
    <3>2. ni.eof /\ s.cur = Len(ni.list)
      BY <1>3, <3>1 DEF Enumerating
    <3>3. NC!Elements(ni.list) = NC!Entries
      BY <1>1, <3>2 DEF ListRead, NC!Entries, NC!FileAssumption
    <3>4. NC!Elements(s.seen) = {i \in NC!Entries : NC!selected(File[i], s.type)} /\ NC!Increasing(s.seen)
      BY <3>1, <3>2, <3>3 DEF Enumerating, NC!Elements
    <3>5. NC!Positions(s.type) = {i \in NC!Entries : NC!selected(File[i], s.type)}
      BY <3>1 DEF NC!Positions
    <3>6. s.missed = {}
      BY <3>1 DEF Enumerating
    <3> QED BY <3>4, <3>5, <3>6
  <2>3. CASE ~s.conf
    <3>1. AlongPath(s) /\ NC!by_path(s.type) /\ ~NC!unset
      BY <1>3, <2>1, <2>3 DEF SessionOK
    <3>2. s.at = Len(NETPATH) /\ Len(NETPATH) \in Nat
      BY <1>3, <3>1 DEF AlongPath, NC!FileAssumption
    <3>3. \A k \in NC!Positions(s.type) : k <= s.at
      BY <3>1, <3>2 DEF NC!Positions
    <3> QED BY <1>3, <3>1, <3>3 DEF AlongPath
  <2> QED BY <2>2, <2>3
<1>4. NC!Parses => NC!EnumeratesAll
  BY <1>3 DEF NC!EnumeratesAll
<1> QED BY <1>1, <1>2, <1>4 DEF NC!SessionsSound

(* The sessions on the network configuration, for every file, NETPATH and  *)
(* number of threads: they are counted, the last one closes the file, the  *)
(* list outlives the sessions that use it, and where every line parses a   *)
(* session that came to its end returned each entry of its type once and   *)
(* in order, but the components of NETPATH for which getnetconfigent could *)
(* not open the file (getnetconfig.c, getnetpath.c, rpc_generic.c).        *)
THEOREM Sessions ==
  ASSUME NC!FileAssumption PROVE NC!Spec => []NC!SessionsSound
<1>1. NC!Init => SessionsInv
  BY SessionsInit
<1>2. SessionsInv /\ [NC!Next]_NC!vars => SessionsInv'
  BY SessionsNext
<1>3. SessionsInv => NC!SessionsSound
  BY SessionsInvSound
<1> QED BY <1>1, <1>2, <1>3, PTL DEF NC!Spec
=============================================================================
