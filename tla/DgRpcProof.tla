------------------------------ MODULE DgRpcProof ------------------------------
(***************************************************************************)
(* Proofs about RPC on datagrams: the cache of replies of a server, and    *)
(* client and server together as remote calls.                             *)
(***************************************************************************)
EXTENDS DgRpc, FiniteSetTheorems, SequenceTheorems, TLAPS

(* The cache alone: its structures agree, and its buffers are right.       *)
CacheOK == S!CacheTypeOK /\ S!FifoMatchesTable /\ S!CachedReplyRight

(* An xid has a chain (CACHE_LOC).                                         *)
LEMMA LocInTable ==
  ASSUME NEW x \in Nat, UcSize \in Nat, UcSize > 0
  PROVE  S!CACHE_LOC(x) \in S!Locs
<1>1. PICK n \in Nat \ {0} : n = S!SPARSENESS * UcSize
  BY DEF S!SPARSENESS
<1>2. x % n \in 0 .. n - 1
  BY <1>1
<1> QED BY <1>1, <1>2 DEF S!CACHE_LOC, S!Locs

(* Taking one entry out of a chain keeps the others, in order (cache_set). *)
LEMMA RemoveProperties ==
  ASSUME NEW T, NEW c \in Seq(T), NEW p \in 1 .. Len(c)
  PROVE  /\ S!remove(c, p) \in Seq(T)
         /\ Len(S!remove(c, p)) = Len(c) - 1
         /\ \A k \in 1 .. Len(c) - 1 : S!remove(c, p)[k] = IF k < p THEN c[k] ELSE c[k + 1]
<1>1. Len(c) \in Nat /\ Len(c) - 1 \in Nat /\ \A k \in 1 .. Len(c) : c[k] \in T
  BY LenProperties, ElementOfSeq
<1>2. S!remove(c, p) \in [1 .. Len(c) - 1 -> T]
  BY <1>1 DEF S!remove
<1>3. S!remove(c, p) \in Seq(T)
  BY <1>1, <1>2, SeqDef
<1>4. Len(S!remove(c, p)) = Len(c) - 1
  BY <1>1, <1>2, <1>3, LenProperties
<1> QED BY <1>1, <1>3, <1>4 DEF S!remove

(* The victim is in its chain, once: cache_set finds it.                   *)
LEMMA VictimFound ==
  ASSUME CacheOK, UcSize \in Nat, UcSize > 0, S!victim /= S!NoNode
  PROVE  /\ S!CACHE_LOC(S!victim.xid) \in S!Locs /\ ~S!victim_not_found
         /\ \E p \in 1 .. Len(uc_entries[S!CACHE_LOC(S!victim.xid)]) :
              /\ S!Places = {p} /\ uc_entries[S!CACHE_LOC(S!victim.xid)][p] = S!victim
              /\ (CHOOSE q \in S!Places : \A k \in S!Places : q <= k) = p
<1>1. uc_nextvictim \in S!Slots
  BY DEF CacheOK, S!CacheTypeOK, S!Slots
<1>2. S!victim.xid \in Nat
  BY <1>1 DEF CacheOK, S!CacheTypeOK, S!victim
<1>3. S!CACHE_LOC(S!victim.xid) \in S!Locs
  BY <1>2, LocInTable
<1> DEFINE l == S!CACHE_LOC(S!victim.xid)
<1>4. PICK p \in 1 .. Len(uc_entries[l]) : uc_entries[l][p] = S!victim
  BY <1>1 DEF CacheOK, S!FifoMatchesTable, S!victim
<1>5. \A j \in 1 .. Len(uc_entries[l]) : uc_entries[l][j] = S!victim => j = p
  BY <1>3, <1>4 DEF CacheOK, S!FifoMatchesTable
<1>6. S!Places = {p}
  BY <1>4, <1>5 DEF S!Places
<1>7. p \in Nat
  OBVIOUS
<1>8. (CHOOSE q \in S!Places : \A k \in S!Places : q <= k) = p
  <2>1. p \in S!Places /\ \A k \in S!Places : p <= k
    BY <1>6, <1>7
  <2> QED BY <2>1, <1>6
<1> QED BY <1>3, <1>4, <1>6, <1>8 DEF S!victim_not_found

(* What is left in the chains when the victim is out: the entries of the   *)
(* other slots, each in its chain and once (cache_set).                    *)
Rest(l) ==
  /\ \A k \in 1 .. Len(S!without[l]) :
       /\ \E s \in S!Slots \ {uc_nextvictim} :
             uc_fifo[s] /= S!NoNode /\ S!without[l][k] = uc_fifo[s] /\ S!CACHE_LOC(uc_fifo[s].xid) = l
       /\ \A j \in 1 .. Len(S!without[l]) : S!without[l][j] = S!without[l][k] => j = k
  /\ \A s \in S!Slots \ {uc_nextvictim} : uc_fifo[s] /= S!NoNode /\ S!CACHE_LOC(uc_fifo[s].xid) = l
       => \E k \in 1 .. Len(S!without[l]) : S!without[l][k] = uc_fifo[s]
LEMMA WithoutVictim ==
  ASSUME CacheOK, UcSize \in Nat, UcSize > 0
  PROVE  /\ S!without \in [S!Locs -> Seq({uc_fifo[s] : s \in S!Slots})]
         /\ \A l \in S!Locs : Rest(l)
<1> DEFINE F == {uc_fifo[s] : s \in S!Slots}
<1>1. uc_entries \in [S!Locs -> Seq(F)]
  BY DEF CacheOK, S!CacheTypeOK
<1>2. ASSUME NEW l \in S!Locs, NEW k \in 1 .. Len(uc_entries[l])
      PROVE  \E s \in S!Slots : /\ uc_fifo[s] /= S!NoNode /\ uc_entries[l][k] = uc_fifo[s]
                                /\ S!CACHE_LOC(uc_fifo[s].xid) = l
  <2>1. uc_entries[l][k] \in F
    BY <1>1, ElementOfSeq
  <2>2. uc_entries[l][k] /= S!NoNode /\ S!CACHE_LOC(uc_entries[l][k].xid) = l
    BY DEF CacheOK, S!FifoMatchesTable
  <2> QED BY <2>1, <2>2
<1>3. \A l \in S!Locs : \A k, j \in 1 .. Len(uc_entries[l]) :
        uc_entries[l][j] = uc_entries[l][k] => j = k
  BY DEF CacheOK, S!FifoMatchesTable
<1>4. ASSUME NEW s \in S!Slots, uc_fifo[s] /= S!NoNode
      PROVE  \E k \in 1 .. Len(uc_entries[S!CACHE_LOC(uc_fifo[s].xid)]) :
               uc_entries[S!CACHE_LOC(uc_fifo[s].xid)][k] = uc_fifo[s]
  BY <1>4 DEF CacheOK, S!FifoMatchesTable
<1>5. \A s, t \in S!Slots : uc_fifo[s] /= S!NoNode /\ uc_fifo[s] = uc_fifo[t] => s = t
  BY DEF CacheOK, S!CacheTypeOK
<1>6. uc_nextvictim \in S!Slots
  BY DEF CacheOK, S!CacheTypeOK, S!Slots
<1> HIDE DEF F
<1>7. CASE S!victim = S!NoNode
  <2>1. S!without = uc_entries
    BY <1>7 DEF S!without
  <2>2. ASSUME NEW l \in S!Locs PROVE Rest(l)
    BY <1>2, <1>3, <1>4, <1>7, <2>1 DEF Rest, S!victim
  <2> QED BY <1>1, <2>1, <2>2 DEF F
<1>8. CASE S!victim /= S!NoNode
  <2> DEFINE v == S!CACHE_LOC(S!victim.xid)
  <2>1. v \in S!Locs
    BY <1>8, VictimFound
  <2>2. PICK p \in 1 .. Len(uc_entries[v]) :
          /\ uc_entries[v][p] = S!victim
          /\ (CHOOSE q \in S!Places : \A k \in S!Places : q <= k) = p
    BY <1>8, VictimFound
  <2> DEFINE c == uc_entries[v]
  <2> DEFINE d == S!remove(c, p)
  <2>3. S!without = [uc_entries EXCEPT ![v] = d]
    BY <1>8, <2>2 DEF S!without
  <2>4. c \in Seq(F) /\ Len(c) \in Nat
    BY <1>1, <2>1, LenProperties
  <2>5. /\ d \in Seq(F) /\ Len(d) = Len(c) - 1
        /\ \A k \in 1 .. Len(c) - 1 : d[k] = IF k < p THEN c[k] ELSE c[k + 1]
    BY <2>4, RemoveProperties
  <2>6. S!without[v] = d /\ \A l \in S!Locs \ {v} : S!without[l] = uc_entries[l]
    BY <1>1, <2>1, <2>3
  <2>7. S!without \in [S!Locs -> Seq(F)]
    BY <1>1, <2>1, <2>3, <2>5
  <2>8. S!victim = uc_fifo[uc_nextvictim]
    BY DEF S!victim
  <2>9. ASSUME NEW l \in S!Locs \ {v} PROVE Rest(l)
    <3>1. S!without[l] = uc_entries[l]
      BY <2>6
    <3>2. \A s \in S!Slots : S!CACHE_LOC(uc_fifo[s].xid) = l => s /= uc_nextvictim
      BY <2>8
    <3>3. ASSUME NEW k \in 1 .. Len(uc_entries[l])
          PROVE  \E s \in S!Slots \ {uc_nextvictim} : /\ uc_fifo[s] /= S!NoNode
                   /\ uc_entries[l][k] = uc_fifo[s] /\ S!CACHE_LOC(uc_fifo[s].xid) = l
      <4>1. l \in S!Locs
        OBVIOUS
      <4> QED BY <1>2, <3>2, <4>1
    <3>4. \A k, j \in 1 .. Len(uc_entries[l]) : uc_entries[l][j] = uc_entries[l][k] => j = k
      BY <1>3
    <3>5. \A s \in S!Slots : uc_fifo[s] /= S!NoNode /\ S!CACHE_LOC(uc_fifo[s].xid) = l
            => \E k \in 1 .. Len(uc_entries[l]) : uc_entries[l][k] = uc_fifo[s]
      BY <1>4
    <3> QED BY <3>1, <3>3, <3>4, <3>5 DEF Rest
  <2>10. \A k \in 1 .. Len(d) : \E i \in 1 .. Len(c) : i /= p /\ d[k] = c[i] /\ (i = IF k < p THEN k ELSE k + 1)
    BY <2>4, <2>5
  <2>11. \A i \in 1 .. Len(c) : i /= p => \E k \in 1 .. Len(d) : d[k] = c[i]
    <3> SUFFICES ASSUME NEW i \in 1 .. Len(c), i /= p PROVE \E k \in 1 .. Len(d) : d[k] = c[i]
      OBVIOUS
    <3>1. CASE i < p
      <4>1. i \in 1 .. Len(d) /\ d[i] = c[i]
        BY <2>4, <2>5, <3>1
      <4> QED BY <4>1
    <3>2. CASE i > p
      <4>1. i - 1 \in 1 .. Len(d) /\ d[i - 1] = c[i]
        BY <2>4, <2>5, <3>2
      <4> QED BY <4>1
    <3> QED BY <3>1, <3>2
  <2> HIDE DEF d
  <2>12. Rest(v)
    <3>1. ASSUME NEW k \in 1 .. Len(d)
          PROVE  \E s \in S!Slots \ {uc_nextvictim} :
                   uc_fifo[s] /= S!NoNode /\ d[k] = uc_fifo[s] /\ S!CACHE_LOC(uc_fifo[s].xid) = v
      <4>1. PICK i \in 1 .. Len(c) : i /= p /\ d[k] = c[i]
        BY <2>10
      <4>2. PICK s \in S!Slots : /\ uc_fifo[s] /= S!NoNode /\ c[i] = uc_fifo[s]
                               /\ S!CACHE_LOC(uc_fifo[s].xid) = v
        BY <1>2, <2>1
      <4>3. s /= uc_nextvictim
        BY <1>3, <2>1, <2>2, <2>8, <4>1, <4>2
      <4> QED BY <4>1, <4>2, <4>3
    <3>2. ASSUME NEW k \in 1 .. Len(d), NEW j \in 1 .. Len(d), d[j] = d[k]
          PROVE  j = k
      <4>1. PICK i \in 1 .. Len(c) : i /= p /\ d[k] = c[i] /\ (i = IF k < p THEN k ELSE k + 1)
        BY <2>10
      <4>2. PICK h \in 1 .. Len(c) : h /= p /\ d[j] = c[h] /\ (h = IF j < p THEN j ELSE j + 1)
        BY <2>10
      <4>3. h = i
        BY <1>3, <2>1, <3>2, <4>1, <4>2
      <4> QED BY <2>4, <2>5, <4>1, <4>2, <4>3
    <3>3. ASSUME NEW s \in S!Slots \ {uc_nextvictim}, uc_fifo[s] /= S!NoNode,
                 S!CACHE_LOC(uc_fifo[s].xid) = v
          PROVE  \E k \in 1 .. Len(d) : d[k] = uc_fifo[s]
      <4>1. PICK i \in 1 .. Len(c) : c[i] = uc_fifo[s]
        BY <1>4, <3>3
      <4>2. i /= p
        BY <1>5, <1>6, <2>2, <2>8, <3>3, <4>1
      <4> QED BY <2>11, <4>1, <4>2
    <3> QED BY <2>6, <3>1, <3>2, <3>3 DEF Rest
  <2> QED BY <2>7, <2>9, <2>12 DEF F
<1> QED BY <1>7, <1>8

(* There is a buffer for the transport: the victim's, or, as long as there *)
(* are unused slots, one that is not in use (cache_set, mem_alloc).        *)
LEMMA NewBuffer ==
  ASSUME CacheOK, UcSize \in Nat, UcSize > 0
  PROVE  /\ S!newbuf \in S!Buffers /\ S!newbuf /= rpc_buffer
         /\ \A s \in S!Slots \ {uc_nextvictim} : uc_fifo[s] /= S!NoNode => uc_fifo[s].buf /= S!newbuf
<1>1. uc_nextvictim \in S!Slots
  BY DEF CacheOK, S!CacheTypeOK, S!Slots
<1>2. CASE S!victim /= S!NoNode
  BY <1>1, <1>2 DEF CacheOK, S!CacheTypeOK, S!CachedReplyRight, S!newbuf, S!victim
<1>3. CASE S!victim = S!NoNode
  <2> DEFINE Free(b) == b /= rpc_buffer /\ \A s \in S!Slots : uc_fifo[s] = S!NoNode \/ uc_fifo[s].buf /= b
  <2>1. \E b \in S!Buffers : Free(b)
    <3> SUFFICES ASSUME \A b \in S!Buffers : ~Free(b) PROVE FALSE
      OBVIOUS
    <3> DEFINE Of(b) == CHOOSE s \in S!Slots : uc_fifo[s] /= S!NoNode /\ uc_fifo[s].buf = b
    <3> DEFINE f == [b \in S!Buffers |-> IF b = rpc_buffer THEN uc_nextvictim ELSE Of(b)]
    <3>1. ASSUME NEW b \in S!Buffers, b /= rpc_buffer
          PROVE  Of(b) \in S!Slots /\ uc_fifo[Of(b)] /= S!NoNode /\ uc_fifo[Of(b)].buf = b
      <4>1. \E s \in S!Slots : uc_fifo[s] /= S!NoNode /\ uc_fifo[s].buf = b
        BY <3>1
      <4> QED BY <4>1
    <3> HIDE DEF Of
    <3>2. f \in [S!Buffers -> S!Slots]
      BY <1>1, <3>1
    <3>3. IsFiniteSet(S!Slots) /\ Cardinality(S!Slots) = UcSize
      BY FS_Interval DEF S!Slots
    <3>4. IsFiniteSet(S!Buffers) /\ Cardinality(S!Buffers) = UcSize + 1
      BY FS_Interval DEF S!Buffers
    <3>5. PICK x, y \in S!Buffers : x /= y /\ f[x] = f[y]
      <4>1. Cardinality(S!Slots) < Cardinality(S!Buffers)
        BY <3>3, <3>4
      <4> HIDE DEF f
      <4> QED BY <3>2, <3>3, <3>4, <4>1, FS_PigeonHole
    <3>6. \A b \in S!Buffers : b /= rpc_buffer => Of(b) /= uc_nextvictim
      BY <1>3, <3>1 DEF S!victim
    <3> QED BY <3>1, <3>5, <3>6
  <2>2. S!newbuf = CHOOSE b \in S!Buffers : Free(b)
    BY <1>3 DEF S!newbuf
  <2> HIDE DEF Free
  <2>3. S!newbuf \in S!Buffers /\ Free(S!newbuf)
    BY <2>1, <2>2
  <2> QED BY <2>3 DEF Free
<1> QED BY <1>2, <1>3

(* The place of the next victim goes round (uc_nextvictim %= uc_size).     *)
LEMMA NextVictim ==
  ASSUME UcSize \in Nat, UcSize > 0, NEW v \in 0 .. UcSize - 1
  PROVE  /\ (v + 1) % UcSize \in 0 .. UcSize - 1
         /\ v + 1 < UcSize => (v + 1) % UcSize = v + 1
         /\ v + 1 = UcSize => (v + 1) % UcSize = 0
<1>1. (v + 1) % UcSize \in 0 .. UcSize - 1
  OBVIOUS
<1>2. v + 1 < UcSize => (v + 1) % UcSize = v + 1
  OBVIOUS
<1>3. v + 1 = UcSize => (v + 1) % UcSize = 0
  OBVIOUS
<1> QED BY <1>1, <1>2, <1>3

(* cache_set keeps the cache right: the new entry is in its chain and its  *)
(* slot, with the buffer the reply is in, and no other uses either.        *)
LEMMA CacheSetKeeps ==
  ASSUME CacheOK, UcSize \in Nat, UcSize > 0, su_xid \in Nat, S!cache_set,
         NEW r, bufs' = [bufs EXCEPT ![rpc_buffer] = r], r.xid = su_xid, r.client = su_addr,
         spc' \in {"idle", "dispatch"}, sets' \in Nat
  PROVE  CacheOK'
<1> DEFINE v == uc_nextvictim
<1> DEFINE node == [xid |-> su_xid, proc |-> uc_proc, client |-> su_addr, buf |-> rpc_buffer, slot |-> v]
<1> DEFINE h == S!CACHE_LOC(su_xid)
<1> DEFINE W == S!without
<1> DEFINE F == {uc_fifo[s] : s \in S!Slots}
<1> DEFINE G == {uc_fifo'[s] : s \in S!Slots}
<1>1. v \in S!Slots
  BY DEF CacheOK, S!CacheTypeOK, S!Slots
<1>2. /\ uc_entries' = [W EXCEPT ![h] = <<node>> \o @] /\ uc_fifo' = [uc_fifo EXCEPT ![v] = node]
      /\ uc_nextvictim' = (v + 1) % UcSize /\ rpc_buffer' = S!newbuf
  BY DEF S!cache_set, S!store
<1>3. h \in S!Locs
  BY LocInTable
<1>4. W \in [S!Locs -> Seq(F)] /\ \A l \in S!Locs : Rest(l)
  BY WithoutVictim
<1>5. uc_fifo' = [s \in S!Slots |-> IF s = v THEN node ELSE uc_fifo[s]]
  BY <1>1, <1>2 DEF CacheOK, S!CacheTypeOK
<1>6. node /= S!NoNode /\ node.xid = su_xid /\ node.slot = v /\ node.buf = rpc_buffer /\ node.client = su_addr
  <2>1. node.xid /= -1
    OBVIOUS
  <2>2. S!NoNode.xid = -1
    BY DEF S!NoNode
  <2> QED BY <2>1, <2>2
<1> HIDE DEF node, W
<1>7. uc_fifo'[v] = node /\ \A s \in S!Slots \ {v} : uc_fifo'[s] = uc_fifo[s]
  BY <1>1, <1>5
<1>8. \A l \in S!Locs : Len(W[l]) \in Nat /\ \A k \in 1 .. Len(W[l]) :
        /\ W[l][k] \in G /\ W[l][k] /= S!NoNode /\ W[l][k] /= node /\ S!CACHE_LOC(W[l][k].xid) = l
        /\ uc_fifo'[W[l][k].slot] = W[l][k]
        /\ \A j \in 1 .. Len(W[l]) : W[l][j] = W[l][k] => j = k
  <2> SUFFICES ASSUME NEW l \in S!Locs
               PROVE  Len(W[l]) \in Nat /\ \A k \in 1 .. Len(W[l]) :
                        /\ W[l][k] \in G /\ W[l][k] /= S!NoNode /\ W[l][k] /= node
                        /\ S!CACHE_LOC(W[l][k].xid) = l
                        /\ uc_fifo'[W[l][k].slot] = W[l][k]
                        /\ \A j \in 1 .. Len(W[l]) : W[l][j] = W[l][k] => j = k
    OBVIOUS
  <2>1. Len(W[l]) \in Nat
    BY <1>4, LenProperties
  <2>2. ASSUME NEW k \in 1 .. Len(W[l])
        PROVE  /\ W[l][k] \in G /\ W[l][k] /= S!NoNode /\ W[l][k] /= node
               /\ S!CACHE_LOC(W[l][k].xid) = l /\ uc_fifo'[W[l][k].slot] = W[l][k]
    <3>1. PICK s \in S!Slots \ {v} : /\ uc_fifo[s] /= S!NoNode /\ W[l][k] = uc_fifo[s]
                                     /\ S!CACHE_LOC(uc_fifo[s].xid) = l
      BY <1>4 DEF Rest, W
    <3>2. uc_fifo[s].slot = s
      BY <3>1 DEF CacheOK, S!CacheTypeOK
    <3> QED BY <1>6, <1>7, <3>1, <3>2
  <2>3. \A k, j \in 1 .. Len(W[l]) : W[l][j] = W[l][k] => j = k
    BY <1>4 DEF Rest, W
  <2> QED BY <2>1, <2>2, <2>3
<1>9. \A s \in S!Slots \ {v} : uc_fifo[s] /= S!NoNode =>
        /\ S!CACHE_LOC(uc_fifo[s].xid) \in S!Locs
        /\ \E k \in 1 .. Len(W[S!CACHE_LOC(uc_fifo[s].xid)]) : W[S!CACHE_LOC(uc_fifo[s].xid)][k] = uc_fifo[s]
  <2> SUFFICES ASSUME NEW s \in S!Slots \ {v}, uc_fifo[s] /= S!NoNode
               PROVE  /\ S!CACHE_LOC(uc_fifo[s].xid) \in S!Locs
                      /\ \E k \in 1 .. Len(W[S!CACHE_LOC(uc_fifo[s].xid)]) :
                           W[S!CACHE_LOC(uc_fifo[s].xid)][k] = uc_fifo[s]
    OBVIOUS
  <2>1. uc_fifo[s].xid \in Nat
    BY DEF CacheOK, S!CacheTypeOK
  <2>2. S!CACHE_LOC(uc_fifo[s].xid) \in S!Locs
    BY <2>1, LocInTable
  <2> QED BY <1>4, <2>2 DEF Rest, W
<1>10. \A l \in S!Locs : W[l] \in Seq(G)
  <2> SUFFICES ASSUME NEW l \in S!Locs PROVE W[l] \in Seq(G)
    OBVIOUS
  <2>1. Len(W[l]) \in Nat /\ W[l] = [k \in 1 .. Len(W[l]) |-> W[l][k]]
    BY <1>4, LenProperties
  <2>2. W[l] \in [1 .. Len(W[l]) -> G]
    BY <1>8, <2>1
  <2> HIDE DEF G
  <2> QED BY <2>1, <2>2, SeqDef
<1>11. node \in G
  BY <1>1, <1>7
<1> DEFINE C == <<node>> \o W[h]
<1>12. /\ C \in Seq(G) /\ Len(C) = Len(W[h]) + 1
       /\ C[1] = node /\ \A k \in 2 .. Len(C) : C[k] = W[h][k - 1]
  <2> HIDE DEF G
  <2>1. <<node>> \in Seq(G) /\ Len(<<node>>) = 1 /\ <<node>>[1] = node
    BY <1>11
  <2>2. W[h] \in Seq(G) /\ Len(W[h]) \in Nat
    BY <1>3, <1>8, <1>10
  <2>3. \A i \in 1 .. 1 + Len(W[h]) : C[i] = IF i <= 1 THEN <<node>>[i] ELSE W[h][i - 1]
    BY <2>1, <2>2, ConcatProperties
  <2>4. C \in Seq(G) /\ Len(C) = 1 + Len(W[h])
    BY <2>1, <2>2, ConcatProperties
  <2> QED BY <2>1, <2>2, <2>3, <2>4
<1>13. uc_entries'[h] = C /\ \A l \in S!Locs \ {h} : uc_entries'[l] = W[l]
  BY <1>2, <1>3, <1>4
<1>14. uc_entries' \in [S!Locs -> Seq(G)]
  BY <1>2, <1>3, <1>4, <1>10, <1>12
<1> HIDE DEF C, G, F
<1>15. S!CacheTypeOK'
  <2>1. spc' \in {"idle", "dispatch"} /\ rpc_buffer' \in S!Buffers /\ sets' \in Nat
    BY <1>2, NewBuffer
  <2>2. uc_nextvictim' \in S!Slots \cup {0}
    BY <1>1, <1>2, NextVictim DEF S!Slots
  <2>3. uc_fifo' = [s \in S!Slots |-> uc_fifo'[s]] /\ bufs' = [b \in S!Buffers |-> bufs'[b]]
    BY <1>5 DEF CacheOK, S!CacheTypeOK
  <2>4. ASSUME NEW s \in S!Slots, uc_fifo'[s] /= S!NoNode
        PROVE  uc_fifo'[s].xid \in Nat /\ uc_fifo'[s].slot = s /\ uc_fifo'[s].buf \in S!Buffers
    BY <1>6, <1>7, <2>4 DEF CacheOK, S!CacheTypeOK
  <2> QED BY <1>14, <2>1, <2>2, <2>3, <2>4 DEF S!CacheTypeOK, G
<1>16. S!FifoMatchesTable'
  <2>1. ASSUME NEW s \in S!Slots, uc_fifo'[s] /= S!NoNode
        PROVE  \E k \in 1 .. Len(uc_entries'[S!CACHE_LOC(uc_fifo'[s].xid)]) :
                 uc_entries'[S!CACHE_LOC(uc_fifo'[s].xid)][k] = uc_fifo'[s]
    <3>1. CASE s = v
      <4>1. uc_entries'[S!CACHE_LOC(uc_fifo'[s].xid)] = C /\ uc_fifo'[s] = node
        BY <1>6, <1>7, <1>13, <3>1
      <4>2. 1 \in 1 .. Len(C)
        BY <1>3, <1>8, <1>12
      <4> QED BY <1>12, <4>1, <4>2
    <3>2. CASE s /= v
      <4> DEFINE l == S!CACHE_LOC(uc_fifo[s].xid)
      <4>1. uc_fifo'[s] = uc_fifo[s]
        BY <1>7, <3>2
      <4>2. l \in S!Locs
        BY <1>9, <2>1, <3>2, <4>1
      <4>3. PICK k \in 1 .. Len(W[l]) : W[l][k] = uc_fifo[s]
        BY <1>9, <2>1, <3>2, <4>1
      <4> HIDE DEF l
      <4>4. \E i \in 1 .. Len(uc_entries'[l]) : uc_entries'[l][i] = uc_fifo[s]
        <5>1. CASE l /= h
          BY <1>13, <4>2, <4>3, <5>1
        <5>2. CASE l = h
          <6>1. k + 1 \in 2 .. Len(C) /\ C[k + 1] = W[h][k]
            BY <1>3, <1>8, <1>12, <5>2
          <6>2. k + 1 \in 1 .. Len(C) /\ C[k + 1] = uc_fifo[s]
            BY <1>3, <1>8, <1>12, <4>3, <5>2, <6>1
          <6> QED BY <1>13, <5>2, <6>2
        <5> QED BY <5>1, <5>2
      <4> QED BY <4>1, <4>4 DEF l
    <3> QED BY <3>1, <3>2
  <2>2. ASSUME NEW l \in S!Locs, NEW k \in 1 .. Len(uc_entries'[l])
        PROVE  /\ uc_entries'[l][k] /= S!NoNode /\ S!CACHE_LOC(uc_entries'[l][k].xid) = l
               /\ uc_fifo'[uc_entries'[l][k].slot] = uc_entries'[l][k]
               /\ \A j \in 1 .. Len(uc_entries'[l]) : uc_entries'[l][j] = uc_entries'[l][k] => j = k
    <3>1. CASE l /= h
      <4>1. uc_entries'[l] = W[l]
        BY <1>13, <3>1
      <4> QED BY <1>8, <4>1
    <3>2. CASE l = h
      <4>1. uc_entries'[l] = C /\ Len(W[h]) \in Nat
        BY <1>3, <1>8, <1>13, <3>2
      <4>2. CASE k = 1
        <5>1. C[k] = node /\ S!CACHE_LOC(node.xid) = h /\ uc_fifo'[node.slot] = node
          BY <1>6, <1>7, <1>12, <4>2
        <5>2. ASSUME NEW j \in 1 .. Len(C), C[j] = node PROVE j = 1
          <6> SUFFICES ASSUME j /= 1 PROVE FALSE
            OBVIOUS
          <6>1. j \in 2 .. Len(C) /\ j - 1 \in 1 .. Len(W[h])
            BY <1>12, <4>1
          <6>2. C[j] = W[h][j - 1]
            BY <1>12, <6>1
          <6>3. W[h][j - 1] /= node
            BY <1>3, <1>8, <6>1
          <6> QED BY <5>2, <6>2, <6>3
        <5>3. C[k] /= S!NoNode
          BY <1>6, <5>1
        <5>4. S!CACHE_LOC(C[k].xid) = l
          BY <3>2, <5>1
        <5>5. uc_fifo'[C[k].slot] = C[k]
          BY <5>1
        <5>6. \A j \in 1 .. Len(C) : C[j] = C[k] => j = k
          BY <4>2, <5>1, <5>2
        <5> QED BY <4>1, <5>3, <5>4, <5>5, <5>6
      <4>3. CASE k /= 1
        <5>1. k \in 2 .. Len(C) /\ k - 1 \in 1 .. Len(W[h])
          BY <1>12, <4>1, <4>3
        <5>2. /\ C[k] /= S!NoNode /\ S!CACHE_LOC(C[k].xid) = h /\ uc_fifo'[C[k].slot] = C[k]
              /\ C[k] /= node
          <6>1. C[k] = W[h][k - 1]
            BY <1>12, <5>1
          <6> QED BY <1>3, <1>8, <5>1, <6>1
        <5>3. ASSUME NEW j \in 1 .. Len(C), C[j] = C[k] PROVE j = k
          <6>1. j /= 1
            BY <1>12, <5>2, <5>3
          <6>2. j \in 2 .. Len(C) /\ j - 1 \in 1 .. Len(W[h])
            BY <1>12, <4>1, <6>1
          <6>3. W[h][j - 1] = W[h][k - 1]
            <7>1. C[j] = W[h][j - 1] /\ C[k] = W[h][k - 1]
              BY <1>12, <5>1, <6>2
            <7> QED BY <5>3, <7>1
          <6>4. j - 1 = k - 1
            BY <1>3, <1>8, <5>1, <6>2, <6>3
          <6> QED BY <5>1, <6>2, <6>4
        <5> QED BY <3>2, <4>1, <5>2, <5>3
      <4> QED BY <4>2, <4>3
    <3> QED BY <3>1, <3>2
  <2> QED BY <2>1, <2>2 DEF S!FifoMatchesTable
<1>17. S!CachedReplyRight'
  <2>1. bufs'[rpc_buffer] = r /\ \A b \in S!Buffers \ {rpc_buffer} : bufs'[b] = bufs[b]
    BY DEF CacheOK, S!CacheTypeOK
  <2>2. \A s \in S!Slots \ {v} : uc_fifo[s] /= S!NoNode => uc_fifo[s].buf /= rpc_buffer /\ uc_fifo[s].buf \in S!Buffers
    BY DEF CacheOK, S!CacheTypeOK, S!CachedReplyRight
  <2>3. S!newbuf /= rpc_buffer /\ \A s \in S!Slots \ {v} : uc_fifo[s] /= S!NoNode => uc_fifo[s].buf /= S!newbuf
    BY NewBuffer
  <2> SUFFICES ASSUME NEW s \in S!Slots, uc_fifo'[s] /= S!NoNode
               PROVE  /\ uc_fifo'[s].buf /= rpc_buffer'
                      /\ bufs'[uc_fifo'[s].buf].xid = uc_fifo'[s].xid
                      /\ bufs'[uc_fifo'[s].buf].client = uc_fifo'[s].client
                      /\ \A t \in S!Slots : uc_fifo'[t] /= S!NoNode /\ uc_fifo'[t].buf = uc_fifo'[s].buf => t = s
    BY DEF S!CachedReplyRight
  <2>4. CASE s = v
    BY <1>2, <1>6, <1>7, <2>1, <2>2, <2>3, <2>4
  <2>5. CASE s /= v
    <3>1. uc_fifo'[s] = uc_fifo[s] /\ s \in S!Slots \ {v}
      BY <1>7, <2>5
    <3>2. /\ bufs[uc_fifo[s].buf].xid = uc_fifo[s].xid
          /\ bufs[uc_fifo[s].buf].client = uc_fifo[s].client
          /\ \A t \in S!Slots : uc_fifo[t] /= S!NoNode /\ uc_fifo[t].buf = uc_fifo[s].buf => t = s
      BY <3>1 DEF CacheOK, S!CachedReplyRight
    <3> QED BY <1>2, <1>6, <1>7, <2>1, <2>2, <2>3, <3>1, <3>2
  <2> QED BY <2>4, <2>5
<1> QED BY <1>15, <1>16, <1>17 DEF CacheOK

(* A slot so many places before the next victim.                           *)
LEMMA BackInSlots ==
  ASSUME UcSize \in Nat, uc_nextvictim \in 0 .. UcSize - 1, NEW j \in 0 .. UcSize - 1
  PROVE  S!Back(j) \in S!Slots
  BY DEF S!Back, S!Slots

(* cache_set makes every cached reply one place older and takes the slot   *)
(* of the oldest.                                                          *)
LEMMA CacheSetLast ==
  ASSUME CacheOK, S!LastOnesCached, spc = "dispatch", UcSize \in Nat, UcSize > 0, su_xid \in Nat,
         S!cache_set, NEW kind, sets' = sets + 1, spc' = "idle",
         cached' = cached \cup {<<S!Key(cur), sets + 1, kind>>}
  PROVE  S!LastOnesCached'
<1> DEFINE v == uc_nextvictim
<1>1. v \in 0 .. UcSize - 1 /\ sets \in Nat
  BY DEF CacheOK, S!CacheTypeOK, S!Slots
<1>2. uc_nextvictim' = (v + 1) % UcSize
  BY DEF S!cache_set, S!store
<1>3. PICK node : /\ node = [xid |-> su_xid, proc |-> uc_proc, client |-> su_addr, buf |-> rpc_buffer,
                             slot |-> v]
                  /\ uc_fifo' = [uc_fifo EXCEPT ![v] = node]
  BY DEF S!cache_set, S!store
<1>4. node /= S!NoNode /\ S!NodeKey(node) = S!Key(cur)
  <2>1. S!NodeKey(node) = S!Key(cur)
    BY <1>3 DEF S!NodeKey, S!LastOnesCached
  <2>2. node.xid = su_xid /\ S!NoNode.xid = -1
    BY <1>3 DEF S!NoNode
  <2> QED BY <2>1, <2>2
<1>5. uc_fifo'[v] = node /\ \A s \in S!Slots \ {v} : uc_fifo'[s] = uc_fifo[s]
  BY <1>1, <1>3 DEF CacheOK, S!CacheTypeOK, S!Slots
<1>6. uc_nextvictim' = IF v + 1 < UcSize THEN v + 1 ELSE 0
  BY <1>1, <1>2, NextVictim
<1>7. S!Back(0)' = v
  BY <1>1, <1>6 DEF S!Back
<1>8. ASSUME NEW j \in 0 .. UcSize - 2
      PROVE  S!Back(j + 1)' = S!Back(j) /\ S!Back(j) \in S!Slots \ {v}
  <2>1. S!Back(j) \in S!Slots
    BY <1>1, BackInSlots
  <2>2. S!Back(j) /= v
    BY <1>1 DEF S!Back
  <2>3. S!Back(j + 1)' = S!Back(j)
    <3>1. CASE v + 1 < UcSize
      BY <1>1, <1>6, <3>1 DEF S!Back
    <3>2. CASE v + 1 = UcSize
      BY <1>1, <1>6, <3>2 DEF S!Back
    <3> QED BY <1>1, <3>1, <3>2
  <2> QED BY <2>1, <2>2, <2>3
<1>9. ASSUME NEW p \in cached'
      PROVE  p[2] \in 1 .. sets' /\ (sets' - p[2] < UcSize =>
               uc_fifo'[S!Back(sets - p[2])'] /= S!NoNode
               /\ S!NodeKey(uc_fifo'[S!Back(sets - p[2])']) = p[1])
  <2>1. CASE p \in cached
    <3>1. /\ p[2] \in 1 .. sets
          /\ sets - p[2] < UcSize => /\ uc_fifo[S!Back(sets - p[2])] /= S!NoNode
                                     /\ S!NodeKey(uc_fifo[S!Back(sets - p[2])]) = p[1]
      BY <2>1 DEF S!LastOnesCached
    <3>2. p[2] \in 1 .. sets' /\ sets' - p[2] = (sets - p[2]) + 1
      BY <1>1, <3>1
    <3>3. ASSUME sets' - p[2] < UcSize
          PROVE  uc_fifo'[S!Back(sets - p[2])'] /= S!NoNode
                 /\ S!NodeKey(uc_fifo'[S!Back(sets - p[2])']) = p[1]
      <4>1. PICK j \in 0 .. UcSize - 2 : j = sets - p[2]
        BY <1>1, <3>1, <3>2, <3>3
      <4>2. S!Back(sets - p[2])' = S!Back(j) /\ uc_fifo'[S!Back(j)] = uc_fifo[S!Back(j)]
        BY <1>5, <1>8, <3>2, <4>1
      <4> QED BY <3>1, <4>1, <4>2
    <3> QED BY <3>2, <3>3
  <2>2. CASE p = <<S!Key(cur), sets + 1, kind>>
    <3>1. p[1] = S!Key(cur) /\ p[2] = sets + 1 /\ sets' - p[2] = 0
      BY <1>1, <2>2
    <3>2. S!Back(sets - p[2])' = v
      BY <1>7, <3>1
    <3> QED BY <1>1, <1>4, <1>5, <3>1, <3>2
  <2> QED BY <2>1, <2>2
<1>10. spc' /= "dispatch"
  OBVIOUS
<1> QED BY <1>9, <1>10 DEF S!LastOnesCached

(* The invariant of client and server.                                     *)
Safe == CacheOK /\ S!LastOnesCached /\ ExchangeSound

(* What is genuine stays so while requests and executions are added.       *)
LEMMA GenuineStays ==
  ASSUME NEW r, Genuine(r), req \subseteq req', executed \subseteq executed',
         calls \in Nat, calls' \in Nat, calls <= calls'
  PROVE  Genuine(r)'
<1>1. r \in Replied'
  <2>1. PICK x \in Nat, c \in {Client}, i \in 1 .. calls, k \in {"SUCCESS", "AUTHERROR"} :
          r = [xid |-> x, client |-> c, id |-> i, kind |-> k]
    BY DEF Genuine, Replied
  <2>2. i \in 1 .. calls'
    OBVIOUS
  <2> QED BY <2>1, <2>2 DEF Replied
<1>2. \E m \in req' : m.xid = r.xid /\ m.id = r.id
  BY DEF Genuine
<1>3. r.kind = "SUCCESS" => \E p \in executed' : p[3] = r.id
  BY DEF Genuine
<1> QED BY <1>1, <1>2, <1>3 DEF Genuine

(* The counts of one request are a finite set.                             *)
LEMMA TimesFinite ==
  ASSUME IsFiniteSet(executed), NEW k
  PROVE  IsFiniteSet(S!Times(k)) /\ Cardinality(S!Times(k)) \in Nat
<1> DEFINE D == {q \in executed : q[1] = k}
<1>1. IsFiniteSet(D)
  BY FS_Subset
<1> DEFINE f == [q \in D |-> q[2]]
<1>2. f \in Surjection(D, S!Times(k))
  BY DEF Surjection, S!Times
<1> HIDE DEF D, f
<1>3. IsFiniteSet(S!Times(k))
  BY <1>1, <1>2, FS_Surjection
<1> QED BY <1>3, FS_CardinalityType

(* An execution is counted: it is a new one, and the counts stay below the *)
(* number of executions.                                                   *)
LEMMA ExecutionCounted ==
  ASSUME ExchangeSound, cur \in req, UNCHANGED calls, NEW e,
         e = <<S!Key(cur), Cardinality(S!Times(S!Key(cur))) + 1, cur.id>>, executed' = executed \cup {e}
  PROVE  /\ e \notin executed /\ IsFiniteSet(executed')
         /\ \A p \in executed' : /\ p = <<p[1], p[2], p[3]>> /\ p[2] \in Nat /\ p[3] \in 1 .. calls'
                                 /\ p[2] <= Cardinality(S!Times(p[1])')
<1>1. /\ IsFiniteSet(executed)
      /\ \A p \in executed : /\ p = <<p[1], p[2], p[3]>> /\ p[2] \in Nat /\ p[3] \in 1 .. calls
                             /\ p[2] <= Cardinality(S!Times(p[1]))
  BY DEF ExchangeSound
<1>2. PICK K : K = S!Key(cur)
  OBVIOUS
<1>3. PICK N \in Nat : N = Cardinality(S!Times(K))
  BY <1>1, TimesFinite
<1>4. N + 1 \notin S!Times(K)
  <2> SUFFICES ASSUME N + 1 \in S!Times(K) PROVE FALSE
    OBVIOUS
  <2>1. PICK p \in executed : p[1] = K /\ p[2] = N + 1
    BY DEF S!Times
  <2>2. N + 1 <= N
    BY <1>1, <1>3, <2>1
  <2> QED BY <1>3, <2>2
<1>5. cur.id \in 1 .. calls
  BY DEF ExchangeSound, Requested
<1>6. e = <<K, N + 1, cur.id>> /\ e[1] = K /\ e[2] = N + 1 /\ e[3] = cur.id
  BY <1>2, <1>3
<1>7. e \notin executed
  BY <1>4, <1>6 DEF S!Times
<1>8. IsFiniteSet(executed')
  BY <1>1, FS_AddElement
<1>9. S!Times(K)' = S!Times(K) \cup {N + 1}
  BY <1>6 DEF S!Times
<1>10. Cardinality(S!Times(K)') = N + 1
  BY <1>1, <1>3, <1>4, <1>9, TimesFinite, FS_AddElement
<1>11. \A k : k /= K => S!Times(k)' = S!Times(k)
  BY <1>6 DEF S!Times
<1>12. ASSUME NEW p \in executed'
       PROVE  /\ p = <<p[1], p[2], p[3]>> /\ p[2] \in Nat /\ p[3] \in 1 .. calls'
              /\ p[2] <= Cardinality(S!Times(p[1])')
  <2>1. CASE p = e
    BY <1>3, <1>5, <1>6, <1>10, <2>1
  <2>2. CASE p \in executed /\ p[1] = K
    BY <1>1, <1>3, <1>10, <2>2
  <2>3. CASE p \in executed /\ p[1] /= K
    BY <1>1, <1>11, <2>3
  <2> QED BY <2>1, <2>2, <2>3
<1> QED BY <1>7, <1>8, <1>12

(* Steps that leave the cache alone, and do not begin to dispatch, leave   *)
(* it right, whatever they put into the transport's buffer.                *)
LEMMA CacheStays ==
  ASSUME CacheOK, S!LastOnesCached, NEW m,
         bufs' = [bufs EXCEPT ![rpc_buffer] = m] \/ bufs' = bufs,
         UNCHANGED <<rpc_buffer, uc_entries, uc_fifo, uc_nextvictim, sets, cached>>,
         spc' = "idle" \/ UNCHANGED <<spc, cur, su_xid, su_addr, uc_proc>>
  PROVE  CacheOK' /\ S!LastOnesCached'
<1>1. \A s \in S!Slots : uc_fifo[s] /= S!NoNode =>
        uc_fifo[s].buf \in S!Buffers \ {rpc_buffer} /\ bufs'[uc_fifo[s].buf] = bufs[uc_fifo[s].buf]
  BY DEF CacheOK, S!CacheTypeOK, S!CachedReplyRight
<1>2. S!CacheTypeOK'
  <2>1. bufs' = [b \in S!Buffers |-> bufs'[b]]
    BY DEF CacheOK, S!CacheTypeOK
  <2>2. spc' \in {"idle", "dispatch"}
    BY DEF CacheOK, S!CacheTypeOK
  <2> QED BY <2>1, <2>2 DEF CacheOK, S!CacheTypeOK
<1>3. S!FifoMatchesTable'
  BY DEF CacheOK, S!FifoMatchesTable
<1>4. S!CachedReplyRight'
  BY <1>1 DEF CacheOK, S!CachedReplyRight
<1>5. S!LastOnesCached'
  BY DEF S!LastOnesCached, S!Back, S!Key, S!NodeKey
<1> QED BY <1>2, <1>3, <1>4, <1>5 DEF CacheOK

(* The parts of ExchangeSound.                                             *)
ClientPart ==
  /\ xid \in Nat /\ calls \in 0 .. MaxCalls /\ cred \in {"full", "short"}
  /\ req \subseteq Requested /\ (\A m \in req : m.xid <= xid) /\ (xid > 0 \/ pc \in {"idle", "encode"})
  /\ pc \in {"send", "poll", "recv"} => \A m \in req : m.xid = xid => m.id = calls
  /\ pc /= "idle" => calls > 0
RepliesGenuine == \A r \in rep : Genuine(r)
Received == inq \in Seq(rep) /\ inbuf \in rep \cup {NoDatagram}
BuffersGenuine == \A s \in S!Slots : uc_fifo[s] /= S!NoNode => Genuine(bufs[uc_fifo[s].buf])
Counted ==
  /\ IsFiniteSet(executed)
  /\ \A p \in executed :
       /\ p = <<p[1], p[2], p[3]>> /\ p[2] \in Nat /\ p[3] \in 1 .. calls
       /\ p[2] <= Cardinality(S!Times(p[1]))

LEMMA ExchangeParts ==
  /\ ExchangeSound <=> /\ ClientPart /\ RepliesGenuine /\ Received /\ BuffersGenuine /\ Counted
                       /\ spc = "dispatch" => cur \in req
  BY DEF ExchangeSound, ClientPart, RepliesGenuine, Received, BuffersGenuine, Counted

(* Buffers of cached replies still hold genuine ones when something is put *)
(* into the transport's buffer, and when requests or executions are added. *)
LEMMA BuffersStay ==
  ASSUME CacheOK, BuffersGenuine, NEW m, bufs' = [bufs EXCEPT ![rpc_buffer] = m] \/ bufs' = bufs,
         UNCHANGED uc_fifo, req \subseteq req', executed \subseteq executed',
         calls \in Nat, calls' \in Nat, calls <= calls'
  PROVE  BuffersGenuine'
<1> SUFFICES ASSUME NEW s \in S!Slots, uc_fifo[s] /= S!NoNode
             PROVE  Genuine(bufs[uc_fifo[s].buf])'
  BY DEF BuffersGenuine
<1>1. PICK r : r = bufs[uc_fifo[s].buf] /\ Genuine(r)
  BY DEF BuffersGenuine
<1>2. bufs'[uc_fifo'[s].buf] = r
  BY <1>1 DEF CacheOK, S!CacheTypeOK, S!CachedReplyRight
<1>3. Genuine(r)'
  BY <1>1, GenuineStays
<1> QED BY <1>2, <1>3 DEF Genuine

(* What the client has received stays genuine while replies are added.     *)
LEMMA ReceivedStays ==
  ASSUME Received, UNCHANGED <<inq, inbuf>>, rep \subseteq rep'
  PROVE  Received'
<1>1. inq \in Seq(rep')
  <2>1. Len(inq) \in Nat /\ inq = [k \in 1 .. Len(inq) |-> inq[k]] /\ \A k \in 1 .. Len(inq) : inq[k] \in rep
    BY LenProperties, ElementOfSeq DEF Received
  <2>2. inq \in [1 .. Len(inq) -> rep']
    BY <2>1
  <2> QED BY <2>1, <2>2, SeqDef
<1> QED BY <1>1 DEF Received, NoDatagram

(* Initially nothing was sent and nothing is cached.                       *)
LEMMA InitSafe == SysInit => Safe
<1> SUFFICES ASSUME SysInit PROVE Safe
  OBVIOUS
<1> USE DEF SysInit, ClntInit, S!SvcInit
<1>1. S!CacheTypeOK
  <2>1. UcSize \in Nat /\ rpc_buffer \in S!Buffers
    BY ServerAssumption DEF S!CacheAssumption, S!Buffers
  <2>2. uc_entries \in [S!Locs -> Seq({uc_fifo[s] : s \in S!Slots})]
    OBVIOUS
  <2> QED BY <2>1, <2>2 DEF S!CacheTypeOK
<1>2. S!FifoMatchesTable /\ S!CachedReplyRight /\ S!LastOnesCached
  BY DEF S!FifoMatchesTable, S!CachedReplyRight, S!LastOnesCached
<1>3. ClientPart /\ RepliesGenuine /\ Received
  BY DgAssumption DEF ClientPart, RepliesGenuine, Received
<1>4. BuffersGenuine /\ Counted
  BY FS_EmptySet DEF BuffersGenuine, Counted
<1> QED BY <1>1, <1>2, <1>3, <1>4, ExchangeParts DEF Safe, CacheOK

(* Every step of the client keeps its part: an xid is never used again,    *)
(* since call_again increments it, and the requests of one xid are those   *)
(* of one call.                                                            *)
LEMMA ClientPartKept ==
  ASSUME ClientPart, ClntNext
  PROVE  /\ ClientPart' /\ req \subseteq req' /\ calls \in Nat /\ calls' \in Nat /\ calls <= calls'
         /\ rep' = rep
<1>1. calls \in Nat /\ xid \in Nat
  BY DgAssumption DEF ClientPart
<1>2. ASSUME NEW t \in Totals, Call(t)
      PROVE  ClientPart' /\ req \subseteq req' /\ calls' = calls + 1 /\ rep' = rep
  <2>1. calls' \in 0 .. MaxCalls /\ calls' = calls + 1 /\ req' = req /\ xid' = xid /\ cred' = cred
    BY <1>1, <1>2, DgAssumption DEF Call, net
  <2>2. req \subseteq Requested'
    <3> SUFFICES ASSUME NEW m \in req PROVE m \in Requested'
      OBVIOUS
    <3>1. PICK x \in Nat, c \in {Client}, p \in {1}, i \in 1 .. calls, k \in {"full", "short"} :
            m = [xid |-> x, client |-> c, proc |-> p, id |-> i, cred |-> k]
      BY DEF ClientPart, Requested
    <3>2. i \in 1 .. calls'
      BY <1>1, <2>1
    <3> QED BY <3>1, <3>2 DEF Requested
  <2> QED BY <1>1, <1>2, <2>1, <2>2 DEF ClientPart, Call, net
<1>3. ASSUME Encode
      PROVE  ClientPart' /\ req \subseteq req' /\ calls' = calls /\ rep' = rep
  <2>1. xid' = xid + 1 /\ UNCHANGED <<req, calls, cred, rep>> /\ pc' \in {"idle", "send"} /\ pc = "encode"
    BY <1>3 DEF Encode, net
  <2>2. \A m \in req : m.xid \in Nat /\ m.xid <= xid
    BY DEF ClientPart, Requested
  <2>3. Requested' = Requested
    BY <2>1 DEF Requested
  <2> QED BY <1>1, <2>1, <2>2, <2>3 DEF ClientPart
<1>4. ASSUME Send
      PROVE  ClientPart' /\ req \subseteq req' /\ calls' = calls /\ rep' = rep
  <2>1. UNCHANGED <<xid, calls, cred, rep>> /\ pc = "send" /\ pc' \in {"poll", "idle"}
        /\ (req' = req \/ req' = req \cup {Request})
    BY <1>4 DEF Send, net
  <2>2. Request \in Requested /\ Request.xid = xid /\ Request.id = calls
    BY <1>1, <2>1 DEF Request, Requested, ClientPart
  <2>3. Requested' = Requested
    BY <2>1 DEF Requested
  <2> QED BY <1>1, <2>1, <2>2, <2>3 DEF ClientPart
<1>5. ASSUME \/ SendExpired \/ Tick \/ PollTimeout \/ PollInput \/ RecvOther \/ RecvSuccess \/ RecvError
             \/ PollNothing \/ PollError \/ Control \/ Deliver
      PROVE  ClientPart' /\ req \subseteq req' /\ calls' = calls /\ rep' = rep
  <2>1. UNCHANGED <<xid, calls, req, rep>>
    BY <1>5 DEF SendExpired, Tick, PollTimeout, PollInput, RecvOther, RecvSuccess, RecvError,
                PollNothing, PollError, Control, Deliver, net
  <2>2. cred' \in {"full", "short"}
    BY <1>5 DEF SendExpired, Tick, PollTimeout, PollInput, RecvOther, RecvSuccess, RecvError,
                PollNothing, PollError, Control, Deliver, ClientPart
  <2>3. \/ pc' = pc
        \/ pc \in {"send", "poll", "recv"} /\ pc' \in {"send", "poll", "recv", "idle", "encode"}
    BY <1>5 DEF SendExpired, Tick, PollTimeout, PollInput, RecvOther, RecvSuccess, RecvError,
                PollNothing, PollError, Control, Deliver
  <2>4. Requested' = Requested
    BY <2>1 DEF Requested
  <2> QED BY <1>1, <2>1, <2>2, <2>3, <2>4 DEF ClientPart
<1> QED BY <1>1, <1>2, <1>3, <1>4, <1>5 DEF ClntNext, ClntStep

(* The client's socket and its buffer only get replies that were sent.     *)
LEMMA ReceivedKept ==
  ASSUME Received, ClntNext, rep' = rep
  PROVE  Received'
<1>1. ASSUME Deliver PROVE Received'
  <2>1. inbuf' = inbuf /\ \E m \in rep : inq' = Append(inq, m)
    BY <1>1 DEF Deliver
  <2> QED BY <2>1, AppendProperties DEF Received, NoDatagram
<1>2. ASSUME PollInput PROVE Received'
  <2>1. inq /= <<>> /\ inbuf' = Head(inq) /\ inq' = Tail(inq)
    BY <1>2 DEF PollInput
  <2> QED BY <2>1, HeadTailProperties DEF Received, NoDatagram
<1>3. ASSUME \/ \E t \in Totals : Call(t)
             \/ Encode \/ Send \/ SendExpired \/ Tick \/ PollTimeout \/ RecvOther \/ RecvSuccess
             \/ RecvError \/ PollNothing \/ PollError \/ Control
      PROVE  Received'
  <2>1. UNCHANGED <<inq, inbuf>>
    BY <1>3 DEF Call, Encode, Send, SendExpired, Tick, PollTimeout, RecvOther, RecvSuccess, RecvError,
                PollNothing, PollError, Control, net
  <2> QED BY <2>1 DEF Received, NoDatagram
<1> QED BY <1>1, <1>2, <1>3 DEF ClntNext, ClntStep

(* A step of the client keeps the invariant.                               *)
LEMMA ClientKeeps ==
  ASSUME Safe, ClientSide
  PROVE  Safe'
<1>1. /\ ClientPart /\ RepliesGenuine /\ Received /\ BuffersGenuine /\ Counted
      /\ spc = "dispatch" => cur \in req
  BY ExchangeParts DEF Safe
<1>2. /\ ClientPart' /\ req \subseteq req' /\ calls \in Nat /\ calls' \in Nat /\ calls <= calls'
      /\ rep' = rep
  BY <1>1, ClientPartKept DEF ClientSide
<1>3. Received'
  BY <1>1, <1>2, ReceivedKept DEF ClientSide
<1>4. UNCHANGED <<rpc_buffer, uc_entries, uc_fifo, uc_nextvictim, sets, cached>> /\ bufs' = bufs
      /\ UNCHANGED <<spc, cur, su_xid, su_addr, uc_proc>> /\ executed' = executed
  BY DEF ClientSide, server
<1>5. CacheOK' /\ S!LastOnesCached'
  BY <1>4, CacheStays DEF Safe
<1>6. BuffersGenuine'
  BY <1>1, <1>2, <1>4, BuffersStay DEF Safe
<1>7. RepliesGenuine'
  <2> SUFFICES ASSUME NEW r \in rep PROVE Genuine(r)'
    BY <1>2 DEF RepliesGenuine
  <2>1. Genuine(r)
    BY <1>1 DEF RepliesGenuine
  <2> QED BY <1>2, <1>4, <2>1, GenuineStays
<1>8. Counted'
  <2>1. \A k : S!Times(k)' = S!Times(k)
    BY <1>4 DEF S!Times
  <2> QED BY <1>1, <1>2, <1>4, <2>1 DEF Counted
<1>9. (spc = "dispatch" => cur \in req)'
  BY <1>1, <1>2, <1>4
<1>10. ExchangeSound'
  BY <1>2, <1>3, <1>6, <1>7, <1>8, <1>9
     DEF ExchangeSound, ClientPart, RepliesGenuine, Received, BuffersGenuine, Counted
<1> QED BY <1>5, <1>10 DEF Safe

(* A step of the server that adds genuine replies and counted executions   *)
(* keeps what is on its way.                                               *)
LEMMA ExchangeKept ==
  ASSUME Safe, UNCHANGED clnt, req' = req, executed \subseteq executed', rep \subseteq rep',
         \A r \in rep' : r \in rep \/ Genuine(r)', BuffersGenuine', Counted',
         spc' = "dispatch" => cur' \in req
  PROVE  ExchangeSound'
<1>1. ClientPart /\ RepliesGenuine /\ Received
  BY ExchangeParts DEF Safe
<1>2. UNCHANGED <<xid, calls, cred, pc, inq, inbuf>> /\ calls \in Nat
  BY <1>1, DgAssumption DEF clnt, ClientPart
<1>3. ClientPart'
  <2>1. Requested' = Requested
    BY <1>2 DEF Requested
  <2> QED BY <1>1, <1>2, <2>1 DEF ClientPart
<1>4. Received'
  BY <1>1, <1>2, ReceivedStays
<1>5. RepliesGenuine'
  <2> SUFFICES ASSUME NEW r \in rep' PROVE Genuine(r)'
    BY DEF RepliesGenuine
  <2>1. CASE r \in rep
    <3>1. Genuine(r)
      BY <1>1, <2>1 DEF RepliesGenuine
    <3> QED BY <1>2, <3>1, GenuineStays
  <2> QED BY <2>1
<1> QED BY <1>3, <1>4, <1>5
        DEF ExchangeSound, ClientPart, RepliesGenuine, Received, BuffersGenuine, Counted

(* A request is answered from the cache, with a reply to a request of its  *)
(* xid (svc_dg_recv).                                                      *)
LEMMA CachedAnswer ==
  ASSUME Safe, NEW m \in req, NEW n \in S!cache_get(m)
  PROVE  /\ Genuine([bufs[n.buf] EXCEPT !.client = m.client])
         /\ bufs[n.buf].xid = m.xid
<1>1. UcSize \in Nat /\ UcSize > 0
  BY ServerAssumption DEF S!CacheAssumption, S!cache_get
<1>2. m \in Requested
  BY DEF Safe, ExchangeSound
<1>3. S!CACHE_LOC(m.xid) \in S!Locs
  BY <1>1, <1>2, LocInTable DEF Requested
<1> DEFINE c == uc_entries[S!CACHE_LOC(m.xid)]
<1>4. PICK k \in 1 .. Len(c) : n = c[k] /\ n.xid = m.xid
  BY <1>1 DEF S!cache_get
<1>5. n /= S!NoNode /\ n \in {uc_fifo[s] : s \in S!Slots}
  <2>1. c \in Seq({uc_fifo[s] : s \in S!Slots})
    BY <1>3 DEF Safe, CacheOK, S!CacheTypeOK
  <2>2. n \in {uc_fifo[s] : s \in S!Slots}
    BY <1>4, <2>1, ElementOfSeq
  <2> QED BY <1>3, <1>4, <2>2 DEF Safe, CacheOK, S!FifoMatchesTable
<1>6. PICK s \in S!Slots : uc_fifo[s] = n
  BY <1>5
<1>7. PICK r : r = bufs[n.buf] /\ Genuine(r) /\ r.xid = n.xid
  BY <1>5, <1>6 DEF Safe, CacheOK, S!CachedReplyRight, ExchangeSound
<1>8. PICK x \in Nat, i \in 1 .. calls, k1 \in {"SUCCESS", "AUTHERROR"} :
        r = [xid |-> x, client |-> Client, id |-> i, kind |-> k1]
  BY <1>7 DEF Genuine, Replied
<1>9. m.client = Client
  BY <1>2 DEF Requested
<1>10. [r EXCEPT !.client = m.client] = r
  BY <1>8, <1>9
<1> QED BY <1>4, <1>7, <1>10

(* svc_dg_recv keeps the invariant: a request it dispatches is not in the  *)
(* cache.                                                                  *)
LEMMA RecvKeeps ==
  ASSUME Safe, NEW m \in req, S!Recv(m), UNCHANGED clnt
  PROVE  Safe'
<1>1. /\ spc = "idle" /\ bufs' = [bufs EXCEPT ![rpc_buffer] = m]
      /\ su_xid' = m.xid /\ su_addr' = m.client
      /\ UNCHANGED <<req, rpc_buffer, uc_entries, uc_fifo, uc_nextvictim, executed, sets, cached>>
  BY DEF S!Recv, S!cache
<1>2. ClientPart /\ RepliesGenuine /\ BuffersGenuine /\ Counted /\ calls \in Nat /\ calls' = calls
  <2>1. ClientPart /\ RepliesGenuine /\ BuffersGenuine /\ Counted
    BY ExchangeParts DEF Safe
  <2>2. calls \in Nat
    BY <2>1, DgAssumption DEF ClientPart
  <2> QED BY <2>1, <2>2 DEF clnt
<1>3. BuffersGenuine'
  <2>1. CacheOK /\ UNCHANGED uc_fifo /\ req \subseteq req' /\ executed \subseteq executed'
        /\ calls' \in Nat /\ calls <= calls'
    BY <1>1, <1>2 DEF Safe
  <2> QED BY <1>1, <1>2, <2>1, BuffersStay
<1>4. Counted'
  <2>1. \A k : S!Times(k)' = S!Times(k)
    BY <1>1 DEF S!Times
  <2> QED BY <1>1, <1>2, <2>1 DEF Counted
<1>5. CASE S!cache_get(m) /= {}
  <2>1. PICK n \in S!cache_get(m) : rep' = rep \cup {[bufs[n.buf] EXCEPT !.client = m.client]}
    BY <1>5 DEF S!Recv
  <2>2. spc' = spc /\ cur' = cur /\ uc_proc' = uc_proc
    BY <1>5 DEF S!Recv
  <2>3. CacheOK' /\ S!LastOnesCached'
    BY <1>1, <2>2, CacheStays DEF Safe
  <2>4. PICK r : r = [bufs[n.buf] EXCEPT !.client = m.client] /\ Genuine(r)
    BY CachedAnswer
  <2>5. Genuine(r)'
    BY <1>1, <1>2, <2>4, GenuineStays
  <2>6. \A x \in rep' : x \in rep \/ Genuine(x)'
    BY <2>1, <2>4, <2>5
  <2>7. ExchangeSound'
    BY <1>1, <1>3, <1>4, <2>1, <2>2, <2>6, ExchangeKept
  <2> QED BY <2>3, <2>7 DEF Safe
<1>6. CASE S!cache_get(m) = {}
  <2>1. spc' = "dispatch" /\ cur' = m /\ uc_proc' = m.proc /\ rep' = rep
    BY <1>6 DEF S!Recv
  <2>2. ExchangeSound'
    BY <1>1, <1>3, <1>4, <2>1, ExchangeKept
  <2>3. \A s \in S!Slots : uc_fifo[s] /= S!NoNode =>
          uc_fifo[s].buf \in S!Buffers \ {rpc_buffer} /\ bufs'[uc_fifo[s].buf] = bufs[uc_fifo[s].buf]
    BY <1>1 DEF Safe, CacheOK, S!CacheTypeOK, S!CachedReplyRight
  <2>4. S!CacheTypeOK'
    <3>1. bufs' = [b \in S!Buffers |-> bufs'[b]]
      BY <1>1 DEF Safe, CacheOK, S!CacheTypeOK
    <3> QED BY <1>1, <2>1, <3>1 DEF Safe, CacheOK, S!CacheTypeOK
  <2>5. S!FifoMatchesTable'
    BY <1>1 DEF Safe, CacheOK, S!FifoMatchesTable
  <2>6. S!CachedReplyRight'
    BY <1>1, <2>3 DEF Safe, CacheOK, S!CachedReplyRight
  <2>7. ASSUME NEW s \in S!Slots, uc_fifo[s] /= S!NoNode
        PROVE  S!NodeKey(uc_fifo[s]) /= S!Key(m)
    <3> SUFFICES ASSUME S!NodeKey(uc_fifo[s]) = S!Key(m) PROVE FALSE
      OBVIOUS
    <3>1. uc_fifo[s].xid = m.xid /\ uc_fifo[s].client = m.client /\ uc_fifo[s].proc = m.proc
      BY DEF S!NodeKey, S!Key
    <3> DEFINE c == uc_entries[S!CACHE_LOC(m.xid)]
    <3>2. PICK k \in 1 .. Len(c) : c[k] = uc_fifo[s]
      BY <2>7, <3>1 DEF Safe, CacheOK, S!FifoMatchesTable
    <3>3. UcSize /= 0
      BY ServerAssumption DEF S!CacheAssumption, S!Slots
    <3>4. c[k] \in S!cache_get(m)
      BY <3>1, <3>2, <3>3 DEF S!cache_get
    <3> QED BY <1>6, <3>4
  <2>8. S!Key(cur)' = <<su_xid', su_addr', uc_proc'>> /\ S!Key(cur)' = S!Key(m)
    BY <1>1, <2>1 DEF S!Key
  <2>9. S!LastOnesCached'
    <3>1. ASSUME NEW p \in cached'
          PROVE  /\ p[2] \in 1 .. sets'
                 /\ sets' - p[2] < UcSize => /\ uc_fifo'[S!Back(sets - p[2])'] /= S!NoNode
                                             /\ S!NodeKey(uc_fifo'[S!Back(sets - p[2])']) = p[1]
      <4>1. S!Back(sets - p[2])' = S!Back(sets - p[2])
        BY <1>1 DEF S!Back
      <4>2. /\ p[2] \in 1 .. sets
            /\ sets - p[2] < UcSize => /\ uc_fifo[S!Back(sets - p[2])] /= S!NoNode
                                       /\ S!NodeKey(uc_fifo[S!Back(sets - p[2])]) = p[1]
        BY <1>1 DEF Safe, S!LastOnesCached
      <4> QED BY <1>1, <4>1, <4>2
    <3>2. \A s \in S!Slots : uc_fifo'[s] /= S!NoNode => S!NodeKey(uc_fifo'[s]) /= S!Key(cur)'
      BY <1>1, <2>7, <2>8
    <3> QED BY <2>8, <3>1, <3>2 DEF S!LastOnesCached
  <2> QED BY <2>2, <2>4, <2>5, <2>6, <2>9 DEF Safe, CacheOK
<1> QED BY <1>5, <1>6

(* So does a datagram that is dropped.                                     *)
LEMMA RecvBadKeeps ==
  ASSUME Safe, S!RecvBad, UNCHANGED clnt
  PROVE  Safe'
<1>1. /\ bufs' = [bufs EXCEPT ![rpc_buffer] = S!NoMessage]
      /\ UNCHANGED <<req, rep, rpc_buffer, uc_entries, uc_fifo, uc_nextvictim, executed, sets, cached,
                     spc, cur, su_xid, su_addr, uc_proc>>
  BY DEF S!RecvBad, S!cache
<1>2. ClientPart /\ BuffersGenuine /\ Counted /\ calls \in Nat /\ calls' = calls
  <2>1. ClientPart /\ RepliesGenuine /\ BuffersGenuine /\ Counted
    BY ExchangeParts DEF Safe
  <2>2. calls \in Nat
    BY <2>1, DgAssumption DEF ClientPart
  <2> QED BY <2>1, <2>2 DEF clnt
<1>3. BuffersGenuine'
  <2>1. CacheOK /\ UNCHANGED uc_fifo /\ req \subseteq req' /\ executed \subseteq executed'
        /\ calls' \in Nat /\ calls <= calls'
    BY <1>1, <1>2 DEF Safe
  <2> QED BY <1>1, <1>2, <2>1, BuffersStay
<1>4. Counted'
  <2>1. \A k : S!Times(k)' = S!Times(k)
    BY <1>1 DEF S!Times
  <2> QED BY <1>1, <1>2, <2>1 DEF Counted
<1>5. CacheOK' /\ S!LastOnesCached'
  BY <1>1, CacheStays DEF Safe
<1>6. spc' = "dispatch" => cur' \in req
  BY <1>1 DEF Safe, ExchangeSound
<1>7. ExchangeSound'
  BY <1>1, <1>3, <1>4, <1>6, ExchangeKept
<1> QED BY <1>5, <1>7 DEF Safe

(* svc_dg_reply keeps the invariant: the reply is to the request that is   *)
(* being dispatched, whether it is cached or not, sent or not.             *)
LEMMA ReplyKeeps ==
  ASSUME Safe, spc = "dispatch", NEW kind \in {"SUCCESS", "AUTHERROR"}, NEW sent \in BOOLEAN,
         S!Reply(kind, sent), spc' = "idle", UNCHANGED <<req, cur, su_xid, su_addr, uc_proc, clnt>>,
         executed \subseteq executed', Counted',
         kind = "SUCCESS" => \E p \in executed' : p[3] = cur.id
  PROVE  Safe'
<1>1. PICK r : /\ r = [xid |-> su_xid, client |-> su_addr, id |-> cur.id, kind |-> kind]
               /\ bufs' = [bufs EXCEPT ![rpc_buffer] = r]
               /\ rep' = IF sent THEN rep \cup {r} ELSE rep
  BY DEF S!Reply
<1>2. ClientPart /\ RepliesGenuine /\ BuffersGenuine /\ Counted /\ cur \in req
  BY ExchangeParts DEF Safe
<1>3. calls \in Nat /\ calls' = calls /\ UcSize \in Nat
  <2>1. calls \in Nat
    BY <1>2, DgAssumption DEF ClientPart
  <2>2. UcSize \in Nat
    BY ServerAssumption DEF S!CacheAssumption
  <2> QED BY <2>1, <2>2 DEF clnt
<1>4. cur \in Requested /\ cur.xid = su_xid /\ cur.client = su_addr
  BY <1>2 DEF ClientPart, Safe, S!LastOnesCached, S!Key
<1>5. su_xid \in Nat /\ su_addr = Client /\ cur.id \in 1 .. calls
  BY <1>4 DEF Requested
<1>6. r.xid = su_xid /\ r.client = su_addr /\ r.id = cur.id /\ r.kind = kind
  BY <1>1
<1>7. Genuine(r)'
  <2>1. r \in Replied'
    BY <1>1, <1>3, <1>5 DEF Replied
  <2>2. cur \in req' /\ cur.xid = r.xid /\ cur.id = r.id
    BY <1>2, <1>4, <1>6
  <2>3. r.kind = "SUCCESS" => \E p \in executed' : p[3] = r.id
    BY <1>6
  <2> QED BY <2>1, <2>2, <2>3 DEF Genuine
<1>8. CASE UcSize > 0 /\ S!cache_set /\ sets' = sets + 1
             /\ cached' = cached \cup {<<S!Key(cur), sets + 1, kind>>}
  <2>1. S!cache_set /\ sets' = sets + 1 /\ cached' = cached \cup {<<S!Key(cur), sets + 1, kind>>}
    BY <1>8
  <2>2. sets' \in Nat
    BY <2>1 DEF Safe, CacheOK, S!CacheTypeOK
  <2>3. CacheOK'
    BY <1>1, <1>3, <1>5, <1>6, <1>8, <2>1, <2>2, CacheSetKeeps DEF Safe
  <2>4. S!LastOnesCached'
    BY <1>3, <1>5, <1>8, <2>1, CacheSetLast DEF Safe
  <2>5. BuffersGenuine'
    <3> DEFINE v == uc_nextvictim
    <3>1. v \in S!Slots
      BY <1>3, <1>8 DEF Safe, CacheOK, S!CacheTypeOK, S!Slots
    <3>2. uc_fifo'[v].buf = rpc_buffer /\ \A s \in S!Slots \ {v} : uc_fifo'[s] = uc_fifo[s]
      BY <2>1, <3>1 DEF S!cache_set, S!store, Safe, CacheOK, S!CacheTypeOK
    <3>3. bufs'[rpc_buffer] = r /\ \A b \in S!Buffers \ {rpc_buffer} : bufs'[b] = bufs[b]
      BY <1>1 DEF Safe, CacheOK, S!CacheTypeOK
    <3> SUFFICES ASSUME NEW s \in S!Slots, uc_fifo'[s] /= S!NoNode
                 PROVE  Genuine(bufs[uc_fifo[s].buf])'
      BY DEF BuffersGenuine
    <3>4. CASE s = v
      <4>1. bufs'[uc_fifo'[s].buf] = r
        BY <3>2, <3>3, <3>4
      <4> QED BY <1>7, <4>1 DEF Genuine
    <3>5. CASE s /= v
      <4>1. uc_fifo'[s] = uc_fifo[s]
        BY <3>2, <3>5
      <4>2. PICK x : x = bufs[uc_fifo[s].buf] /\ Genuine(x)
        BY <1>2, <4>1 DEF BuffersGenuine
      <4>3. uc_fifo[s].buf \in S!Buffers \ {rpc_buffer}
        BY <4>1 DEF Safe, CacheOK, S!CacheTypeOK, S!CachedReplyRight
      <4>4. bufs'[uc_fifo'[s].buf] = x
        BY <3>3, <4>1, <4>2, <4>3
      <4>5. Genuine(x)'
        BY <1>3, <4>2, GenuineStays
      <4> QED BY <4>4, <4>5 DEF Genuine
    <3> QED BY <3>4, <3>5
  <2>6. ExchangeSound'
    BY <1>1, <1>7, <2>5, ExchangeKept
  <2> QED BY <2>3, <2>4, <2>6 DEF Safe
<1>9. CASE UNCHANGED <<S!cache, rpc_buffer, sets, cached>>
  <2>1. UNCHANGED <<uc_entries, uc_fifo, uc_nextvictim, rpc_buffer, sets, cached>>
    BY <1>9 DEF S!cache
  <2>2. CacheOK' /\ S!LastOnesCached'
    BY <1>1, <2>1, CacheStays DEF Safe
  <2>3. BuffersGenuine'
    <3>1. CacheOK /\ UNCHANGED uc_fifo /\ req \subseteq req' /\ calls' \in Nat /\ calls <= calls'
      BY <1>3, <2>1 DEF Safe
    <3> QED BY <1>1, <1>2, <1>3, <3>1, BuffersStay
  <2>4. ExchangeSound'
    BY <1>1, <1>7, <2>3, ExchangeKept
  <2> QED BY <2>2, <2>4 DEF Safe
<1> QED BY <1>8, <1>9 DEF S!Reply

(* SvcDg and this module mean the same by the number of executions.        *)
LEMMA CountedAlike == \A T : S!Cardinality(T) = Cardinality(T)
  BY DEF S!Cardinality, Cardinality

(* So do the three ways in which a request that is dispatched ends.        *)
LEMMA DispatchKeeps ==
  ASSUME Safe, UNCHANGED clnt, NEW sent \in BOOLEAN,
         S!Reject(sent) \/ S!Execute(sent) \/ S!ExecuteSilent
  PROVE  Safe'
<1>1. /\ ClientPart /\ BuffersGenuine /\ Counted /\ calls \in Nat /\ calls' = calls
      /\ spc = "dispatch" /\ cur \in req /\ UNCHANGED <<req, cur, su_xid, su_addr, uc_proc>> /\ spc' = "idle"
  <2>1. ClientPart /\ BuffersGenuine /\ Counted /\ (spc = "dispatch" => cur \in req)
    BY ExchangeParts DEF Safe
  <2>2. calls \in Nat
    BY <2>1, DgAssumption DEF ClientPart
  <2> QED BY <2>1, <2>2 DEF clnt, S!Reject, S!Execute, S!ExecuteSilent
<1>2. CASE S!Reject(sent)
  <2>1. executed' = executed
    BY <1>2 DEF S!Reject
  <2>2. Counted'
    <3>1. \A k : S!Times(k)' = S!Times(k)
      BY <2>1 DEF S!Times
    <3> QED BY <1>1, <2>1, <3>1 DEF Counted
  <2>3. S!Reply("AUTHERROR", sent)
    BY <1>2 DEF S!Reject
  <2> QED BY <1>1, <2>1, <2>2, <2>3, ReplyKeeps
<1>3. CASE S!Execute(sent) \/ S!ExecuteSilent
  <2>1. PICK e : /\ e = <<S!Key(cur), Cardinality(S!Times(S!Key(cur))) + 1, cur.id>>
                 /\ executed' = executed \cup {e}
    <3>1. executed' = executed \cup {<<S!Key(cur), Cardinality(S!Times(S!Key(cur))) + 1, cur.id>>}
      <4>1. CASE S!Execute(sent)
        BY <4>1, CountedAlike, Zenon DEF S!Execute
      <4>2. CASE S!ExecuteSilent
        BY <4>2, CountedAlike, Zenon DEF S!ExecuteSilent
      <4> QED BY <1>3, <4>1, <4>2
    <3> QED BY <3>1, Zenon
  <2>2. Counted'
    <3>1. ExchangeSound
      BY DEF Safe
    <3>2. /\ IsFiniteSet(executed')
          /\ \A p \in executed' : /\ p = <<p[1], p[2], p[3]>> /\ p[2] \in Nat /\ p[3] \in 1 .. calls'
                                  /\ p[2] <= Cardinality(S!Times(p[1])')
      BY <1>1, <2>1, <3>1, ExecutionCounted
    <3> QED BY <3>2 DEF Counted
  <2>3. CASE S!Execute(sent)
    <3>1. S!Reply("SUCCESS", sent)
      BY <2>3 DEF S!Execute
    <3>2. e \in executed' /\ e[3] = cur.id
      BY <2>1
    <3> QED BY <1>1, <2>1, <2>2, <3>1, <3>2, ReplyKeeps
  <2>4. CASE S!ExecuteSilent
    <3>1. UNCHANGED <<rep, rpc_buffer, bufs, uc_entries, uc_fifo, uc_nextvictim, sets, cached>>
      BY <2>4 DEF S!ExecuteSilent, S!cache
    <3>2. CacheOK' /\ S!LastOnesCached'
      <4>1. CacheOK /\ S!LastOnesCached /\ bufs' = bufs
        BY <3>1 DEF Safe
      <4> QED BY <1>1, <3>1, <4>1, CacheStays
    <3>3. BuffersGenuine'
      <4>1. /\ CacheOK /\ UNCHANGED uc_fifo /\ req \subseteq req' /\ executed \subseteq executed'
            /\ calls' \in Nat /\ calls <= calls' /\ bufs' = bufs
        BY <1>1, <2>1, <3>1 DEF Safe
      <4> QED BY <1>1, <4>1, BuffersStay
    <3>4. ExchangeSound'
      BY <1>1, <2>1, <2>2, <3>1, <3>3, ExchangeKept
    <3> QED BY <3>2, <3>4 DEF Safe
  <2> QED BY <1>3, <2>3, <2>4
<1> QED BY <1>2, <1>3

(* A step of the server keeps the invariant.                               *)
LEMMA ServerKeeps ==
  ASSUME Safe, ServerSide
  PROVE  Safe'
<1>1. UNCHANGED clnt
  BY DEF ServerSide
<1>2. ASSUME NEW m \in req, S!Recv(m) PROVE Safe'
  BY <1>1, <1>2, RecvKeeps
<1>3. ASSUME S!RecvBad PROVE Safe'
  BY <1>1, <1>3, RecvBadKeeps
<1>4. ASSUME NEW sent \in BOOLEAN, S!Reject(sent) \/ S!Execute(sent) \/ S!ExecuteSilent PROVE Safe'
  BY <1>1, <1>4, DispatchKeeps
<1>5. \/ \E m \in req : S!Recv(m)
      \/ S!RecvBad
      \/ \E sent \in BOOLEAN : S!Reject(sent) \/ S!Execute(sent) \/ S!ExecuteSilent
  BY DEF ServerSide, S!SvcNext
<1> QED BY <1>2, <1>3, <1>4, <1>5

(* Steps that change nothing.                                              *)
LEMMA StutterKeeps ==
  ASSUME Safe, UNCHANGED sysvars
  PROVE  Safe'
<1>1. /\ UNCHANGED clnt /\ req' = req /\ rep' = rep
      /\ UNCHANGED <<rpc_buffer, uc_entries, uc_fifo, uc_nextvictim, sets, cached, bufs, executed,
                     spc, cur, su_xid, su_addr, uc_proc>>
  BY DEF sysvars, server
<1>2. CacheOK' /\ S!LastOnesCached'
  BY <1>1, CacheStays DEF Safe
<1>3. ClientPart /\ BuffersGenuine /\ Counted /\ calls \in Nat /\ calls' = calls
      /\ (spc = "dispatch" => cur \in req)
  <2>1. ClientPart /\ BuffersGenuine /\ Counted /\ (spc = "dispatch" => cur \in req)
    BY ExchangeParts DEF Safe
  <2>2. calls \in Nat
    BY <2>1, DgAssumption DEF ClientPart
  <2> QED BY <1>1, <2>1, <2>2 DEF clnt
<1>4. BuffersGenuine'
  <2>1. /\ CacheOK /\ UNCHANGED uc_fifo /\ req \subseteq req' /\ executed \subseteq executed'
        /\ calls' \in Nat /\ calls <= calls' /\ bufs' = bufs
    BY <1>1, <1>3 DEF Safe
  <2> QED BY <1>3, <2>1, BuffersStay
<1>5. Counted'
  <2>1. \A k : S!Times(k)' = S!Times(k)
    BY <1>1 DEF S!Times
  <2> QED BY <1>1, <1>3, <2>1 DEF Counted
<1>6. ExchangeSound'
  BY <1>1, <1>3, <1>4, <1>5, ExchangeKept
<1> QED BY <1>2, <1>6 DEF Safe

(* The invariant of client and server over a network that loses, repeats   *)
(* and reorders, with a cache of any size.                                 *)
LEMMA SafeAlways == SysSpec => []Safe
<1>1. Safe /\ [SysNext]_sysvars => Safe'
  BY ClientKeeps, ServerKeeps, StutterKeeps DEF SysNext
<1> QED BY <1>1, InitSafe, PTL DEF SysSpec

(* The cache of replies of a datagram server, of any size and with any     *)
(* number of requests: chains and queue hold the same entries, a cached    *)
(* reply keeps its buffer, the last ones are still there, and every reply  *)
(* answers a request of its xid and client (cache_set, cache_get).         *)
THEOREM ReplyCache == SysSpec => [](ReplyCacheSound /\ S!RepliesRight)
<1>1. Safe => ReplyCacheSound
  BY DEF Safe, CacheOK, ReplyCacheSound
<1>2. Safe => S!RepliesRight
  <2> SUFFICES ASSUME Safe, NEW r \in rep
               PROVE  \E m \in req : m.xid = r.xid /\ m.client = r.client /\ m.id = r.id
    BY DEF S!RepliesRight
  <2>1. req \subseteq Requested /\ Genuine(r)
    BY DEF Safe, ExchangeSound
  <2>2. PICK m \in req : m.xid = r.xid /\ m.id = r.id
    BY <2>1 DEF Genuine
  <2>3. m.client = Client /\ r.client = Client
    BY <2>1 DEF Genuine, Requested, Replied
  <2> QED BY <2>2, <2>3
<1> QED BY <1>1, <1>2, SafeAlways, PTL

(* A request is executed again only if its reply was never cached or       *)
(* UcSize others were cached after it (svc_dg_recv, svc_dg_reply).         *)
THEOREM ExecutedAgain == SysSpec => S!NotRepeated
<1> DEFINE A == spc = "dispatch" /\ executed' /= executed /\ S!Times(S!Key(cur)) /= {} =>
                  \A p \in cached : p[1] = S!Key(cur) => sets - p[2] >= UcSize
<1>1. Safe => A
  <2> SUFFICES ASSUME Safe, spc = "dispatch", NEW p \in cached, p[1] = S!Key(cur), ~(sets - p[2] >= UcSize)
               PROVE  FALSE
    OBVIOUS
  <2>1. sets \in Nat /\ UcSize \in Nat /\ p[2] \in 1 .. sets
    BY ServerAssumption DEF Safe, CacheOK, S!CacheTypeOK, S!CacheAssumption, S!LastOnesCached
  <2>2. PICK j \in 0 .. UcSize - 1 : j = sets - p[2]
    BY <2>1
  <2>3. uc_nextvictim \in 0 .. UcSize - 1
    BY <2>1, <2>2 DEF Safe, CacheOK, S!CacheTypeOK, S!Slots
  <2>4. S!Back(j) \in S!Slots
    BY <2>1, <2>3, BackInSlots
  <2>5. uc_fifo[S!Back(j)] /= S!NoNode /\ S!NodeKey(uc_fifo[S!Back(j)]) = S!Key(cur)
    <3>1. sets - p[2] < UcSize
      BY <2>1
    <3> QED BY <2>2, <3>1 DEF Safe, S!LastOnesCached
  <2> QED BY <2>4, <2>5 DEF Safe, S!LastOnesCached
<1>2. Safe /\ [SysNext]_sysvars => [A]_<<S!svc, req, rep>>
  BY <1>1
<1> HIDE DEF A
<1>3. SysSpec => [][A]_<<S!svc, req, rep>>
  BY <1>2, SafeAlways, PTL DEF SysSpec
<1> QED BY <1>3 DEF S!NotRepeated, A

(* What a call ends with is a reply to this very call, and one that says   *)
(* success means that the call was executed.                               *)
LEMMA OwnReplyReceived ==
  ASSUME Safe, pc = "recv", inbuf.xid = xid
  PROVE  inbuf.id = calls /\ (inbuf.kind = "SUCCESS" => \E p \in executed : p[3] = calls)
<1>1. xid \in Nat /\ xid > 0
  BY DEF Safe, ExchangeSound
<1>2. inbuf \in rep
  <2>1. NoDatagram.xid = 0
    BY DEF NoDatagram
  <2> QED BY <1>1, <2>1 DEF Safe, ExchangeSound
<1>3. Genuine(inbuf)
  BY <1>2 DEF Safe, ExchangeSound
<1>4. PICK m \in req : m.xid = inbuf.xid /\ m.id = inbuf.id
  BY <1>3 DEF Genuine
<1>5. m.id = calls
  BY <1>4 DEF Safe, ExchangeSound
<1> QED BY <1>3, <1>4, <1>5 DEF Genuine

(* A call ends with its own reply whatever late and repeated replies       *)
(* arrive and whatever cu_inbuf still holds (clnt_dg_call).                *)
THEOREM EndsWithOwnReply == SysSpec => OwnReply
<1> DEFINE A == pc = "recv" /\ pc' \in {"idle", "encode"} => result' = calls
<1>1. ASSUME Safe, [SysNext]_sysvars PROVE [A]_vars
  <2> SUFFICES ASSUME pc = "recv", pc' \in {"idle", "encode"} PROVE result' = calls
    OBVIOUS
  <2>1. CASE ClientSide
    <3>1. RecvSuccess \/ RecvError
      BY <2>1 DEF ClientSide, ClntNext, ClntStep, Call, Encode, Send, SendExpired, Tick, PollTimeout,
                  PollInput, RecvOther, PollNothing, PollError, Control, Deliver
    <3>2. inbuf.xid = xid /\ result' = inbuf.id
      BY <3>1 DEF RecvSuccess, RecvError
    <3> QED BY <1>1, <3>2, OwnReplyReceived
  <2>2. CASE ServerSide \/ UNCHANGED sysvars
    <3>1. pc' = pc
      BY <2>2 DEF ServerSide, sysvars, clnt
    <3> QED BY <3>1
  <2> QED BY <1>1, <2>1, <2>2 DEF SysNext
<1> HIDE DEF A
<1>2. SysSpec => [][A]_vars
  BY <1>1, SafeAlways, PTL DEF SysSpec
<1> QED BY <1>2 DEF OwnReply, A

(* Executions of a call are counted by the specification of remote calls   *)
(* as the server counts them.                                              *)
LEMMA TimesGrow ==
  ASSUME IsFiniteSet(executed), NEW e, e \notin executed, executed' = executed \cup {e},
         NEW c \in 1 .. MaxCalls, e[3] = c
  PROVE  times' = [times EXCEPT ![c] = @ + 1]
<1> DEFINE Of(E, i) == {p \in E : p[3] = i}
<1>1. times = [i \in 1 .. MaxCalls |-> Cardinality(Of(executed, i))]
  BY DEF times
<1>2. times' = [i \in 1 .. MaxCalls |-> Cardinality(Of(executed', i))]
  BY DEF times
<1>3. Of(executed', c) = Of(executed, c) \cup {e} /\ e \notin Of(executed, c)
  OBVIOUS
<1>4. \A i \in 1 .. MaxCalls : i /= c => Of(executed', i) = Of(executed, i)
  OBVIOUS
<1>5. IsFiniteSet(Of(executed, c))
  BY FS_Subset
<1> HIDE DEF Of
<1>6. Cardinality(Of(executed', c)) = Cardinality(Of(executed, c)) + 1
  BY <1>3, <1>5, FS_AddElement
<1> QED BY <1>1, <1>2, <1>4, <1>6

(* The variables of the specification of remote calls.                     *)
rvars == <<calls, (pc /= "idle"), Outcome, times>>

(* A step that ends no call, begins none and executes none is not seen.    *)
LEMMA Unseen ==
  ASSUME calls' = calls, executed' = executed,
         \/ pc' = pc /\ status' = status
         \/ pc /= "idle" /\ pc' /= "idle"
  PROVE  UNCHANGED rvars
<1>1. times' = times
  BY DEF times
<1>2. (pc /= "idle")' = (pc /= "idle") /\ Outcome' = Outcome
  BY DEF Outcome
<1> QED BY <1>1, <1>2 DEF rvars

(* A call that ends is a call that returns; with success only if it was    *)
(* executed.                                                               *)
LEMMA EndReturns ==
  ASSUME Safe, calls' = calls, executed' = executed, pc /= "idle", pc' = "idle",
         status' = "SUCCESS" => \E p \in executed : p[3] = calls
  PROVE  R!Return
<1>1. times' = times
  BY DEF times
<1>2. calls \in 1 .. MaxCalls
  BY DgAssumption DEF Safe, ExchangeSound
<1>3. status' = "SUCCESS" => times[calls] > 0
  <2> SUFFICES ASSUME status' = "SUCCESS" PROVE times[calls] > 0
    OBVIOUS
  <2> DEFINE D == {p \in executed : p[3] = calls}
  <2>1. D /= {}
    OBVIOUS
  <2>2. IsFiniteSet(D)
    BY FS_Subset DEF Safe, ExchangeSound
  <2>3. times[calls] = Cardinality(D)
    BY <1>2 DEF times
  <2> HIDE DEF D
  <2>4. Cardinality(D) \in Nat /\ Cardinality(D) /= 0
    BY <2>1, <2>2, FS_EmptySet, FS_CardinalityType
  <2> QED BY <2>3, <2>4
<1>4. Outcome' = IF status' = "SUCCESS" THEN "success" ELSE "failure"
  <2>1. calls' /= 0 /\ pc' = "idle"
    BY <1>2
  <2> QED BY <2>1 DEF Outcome
<1>5. Outcome' = "failure" \/ (Outcome' = "success" /\ times[calls] > 0)
  BY <1>3, <1>4
<1>6. (pc /= "idle")' = FALSE
  OBVIOUS
<1> QED BY <1>1, <1>5, <1>6 DEF R!Return

(* Every step of the client is a step of remote calls, or not seen.        *)
LEMMA ClientSimulates ==
  ASSUME Safe, ClientSide
  PROVE  R!Next \/ UNCHANGED rvars
<1>1. executed' = executed
  BY DEF ClientSide, server
<1>2. ASSUME NEW t \in Totals, Call(t) PROVE R!Start
  <2>1. pc = "idle" /\ calls < MaxCalls /\ calls' = calls + 1 /\ pc' = "encode"
    BY <1>2 DEF Call
  <2>2. times' = times
    BY <1>1 DEF times
  <2>3. Outcome' = "none"
    BY <2>1 DEF Outcome
  <2>4. (pc /= "idle")' = TRUE
    BY <2>1
  <2> QED BY <2>1, <2>2, <2>3, <2>4 DEF R!Start
<1>3. ASSUME RecvSuccess \/ RecvError PROVE R!Next \/ UNCHANGED rvars
  <2>1. calls' = calls /\ pc = "recv" /\ inbuf.xid = xid /\ pc' \in {"idle", "encode"}
    BY <1>3 DEF RecvSuccess, RecvError
  <2>2. CASE pc' = "encode"
    BY <1>1, <2>1, <2>2, Unseen
  <2>3. CASE pc' = "idle"
    <3>1. status' = "SUCCESS" => inbuf.kind = "SUCCESS"
      BY <1>3 DEF RecvSuccess, RecvError
    <3>2. status' = "SUCCESS" => \E p \in executed : p[3] = calls
      BY <2>1, <3>1, OwnReplyReceived
    <3>3. R!Return
      BY <1>1, <2>1, <2>3, <3>2, EndReturns
    <3> QED BY <3>3 DEF R!Next
  <2> QED BY <2>1, <2>2, <2>3
<1>4. ASSUME Encode \/ SendExpired \/ Send \/ PollError PROVE R!Next \/ UNCHANGED rvars
  <2>1. /\ calls' = calls /\ pc \in {"encode", "send", "poll"} /\ pc' \in {"idle", "send", "poll"}
        /\ pc' = "idle" => status' \in {"TIMEDOUT", "CANTENCODEARGS", "CANTSEND", "CANTRECV"}
    BY <1>4 DEF Encode, SendExpired, Send, PollError
  <2>2. CASE pc' /= "idle"
    BY <1>1, <2>1, <2>2, Unseen
  <2>3. CASE pc' = "idle"
    <3>1. R!Return
      BY <1>1, <2>1, <2>3, EndReturns
    <3> QED BY <3>1 DEF R!Next
  <2> QED BY <2>2, <2>3
<1>5. ASSUME \/ Tick \/ PollTimeout \/ PollInput \/ RecvOther \/ PollNothing \/ Control \/ Deliver
      PROVE  UNCHANGED rvars
  <2>1. calls' = calls /\ ((pc' = pc /\ status' = status) \/ (pc /= "idle" /\ pc' /= "idle"))
    BY <1>5 DEF Tick, PollTimeout, PollInput, RecvOther, PollNothing, Control, Deliver
  <2> QED BY <1>1, <2>1, Unseen
<1> QED BY <1>2, <1>3, <1>4, <1>5 DEF ClientSide, ClntNext, ClntStep, R!Next

(* Every step of the server is an execution, or not seen.                  *)
LEMMA ServerSimulates ==
  ASSUME Safe, ServerSide
  PROVE  R!Next \/ UNCHANGED rvars
<1>1. UNCHANGED <<calls, pc, status>>
  BY DEF ServerSide, clnt
<1>2. CASE executed' = executed
  BY <1>1, <1>2, Unseen
<1>3. CASE executed' /= executed
  <2>1. PICK sent \in BOOLEAN : S!Execute(sent) \/ S!ExecuteSilent
    BY <1>3 DEF ServerSide, S!SvcNext, S!Recv, S!RecvBad, S!Reject
  <2>2. PICK e : /\ e = <<S!Key(cur), Cardinality(S!Times(S!Key(cur))) + 1, cur.id>>
                 /\ executed' = executed \cup {e}
    <3>1. CASE S!Execute(sent)
      BY <3>1, CountedAlike, Zenon DEF S!Execute
    <3>2. CASE S!ExecuteSilent
      BY <3>2, CountedAlike, Zenon DEF S!ExecuteSilent
    <3> QED BY <2>1, <3>1, <3>2
  <2>3. spc = "dispatch"
    BY <2>1 DEF S!Execute, S!ExecuteSilent
  <2>4. ExchangeSound /\ cur \in req /\ cur.id \in 1 .. calls /\ calls \in 0 .. MaxCalls
    BY <2>3 DEF Safe, ExchangeSound, Requested
  <2>5. e \notin executed
    BY <1>1, <2>2, <2>4, ExecutionCounted
  <2>6. IsFiniteSet(executed) /\ cur.id \in 1 .. MaxCalls /\ e[3] = cur.id
    BY <2>2, <2>4, DgAssumption DEF ExchangeSound
  <2>7. PICK c \in 1 .. calls : c = cur.id
    BY <2>4
  <2>8. times' = [times EXCEPT ![c] = @ + 1]
    BY <2>2, <2>5, <2>6, <2>7, TimesGrow
  <2>9. UNCHANGED <<calls, (pc /= "idle"), Outcome>>
    BY <1>1 DEF Outcome
  <2>10. R!Execute
    BY <2>8, <2>9 DEF R!Execute
  <2> QED BY <2>10 DEF R!Next
<1> QED BY <1>2, <1>3

(* Client and server together implement remote calls: a call that returns  *)
(* success was executed, whatever was lost, repeated, reordered, cached    *)
(* or evicted (clnt_dg_call, svc_dg_recv, svc_dg_reply).                   *)
THEOREM RemoteCalls == SysSpec => ImplementsRemoteCall
<1>1. SysInit => R!Init
  <2> SUFFICES ASSUME SysInit PROVE R!Init
    OBVIOUS
  <2>1. calls = 0 /\ pc = "idle" /\ executed = {}
    BY DEF SysInit, ClntInit, S!SvcInit
  <2>2. Outcome = "none"
    BY <2>1 DEF Outcome
  <2>3. \A c \in 1 .. MaxCalls : {p \in executed : p[3] = c} = {}
    BY <2>1
  <2>4. times = [c \in 1 .. MaxCalls |-> 0]
    BY <2>3, FS_EmptySet DEF times
  <2> QED BY <2>1, <2>2, <2>4 DEF R!Init
<1>2. Safe /\ [SysNext]_sysvars => [R!Next]_rvars
  <2> SUFFICES ASSUME Safe, [SysNext]_sysvars PROVE R!Next \/ UNCHANGED rvars
    OBVIOUS
  <2>1. CASE UNCHANGED sysvars
    <3>1. UNCHANGED <<calls, pc, status, executed>>
      BY <2>1 DEF sysvars, clnt, server
    <3> QED BY <3>1, Unseen
  <2> QED BY <2>1, ClientSimulates, ServerSimulates DEF SysNext
<1>3. SysSpec => R!Init /\ [][R!Next]_rvars
  BY <1>1, <1>2, SafeAlways, PTL DEF SysSpec
<1> QED BY <1>3 DEF ImplementsRemoteCall, R!Spec, rvars
===============================================================================
