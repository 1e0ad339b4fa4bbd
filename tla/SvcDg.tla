-------------------------------- MODULE SvcDg --------------------------------
(***************************************************************************)
(* A datagram transport of a server (svc_dg.c) with its cache of replies:  *)
(* requests are received in any order and number, a request whose reply is *)
(* cached is answered again without being executed.  The cache is a hash   *)
(* table of chains, a FIFO of victims, and reply buffers that change owner *)
(* when a reply is cached.                                                 *)
(***************************************************************************)
EXTENDS Integers, Sequences, FiniteSets

CONSTANTS UcSize,      \* size of the cache; 0: svc_dg_enablecache is not called
          AuthRejects  \* may the server reject shorthand credentials?

(* What the constants must satisfy; whoever instantiates them assumes it.  *)
CacheAssumption ==
  UcSize \in Nat /\ AuthRejects \in BOOLEAN

SPARSENESS == 4
Slots   == 0 .. UcSize - 1
Locs    == 0 .. SPARSENESS * UcSize - 1
Buffers == 0 .. UcSize
NoNode  == [xid |-> -1]

VARIABLES
  req, rep,                 \* the network, as in ClntDg
  spc, cur,                 \* the server: idle or dispatching cur
  su_xid, su_addr, uc_proc, \* what svc_dg_recv and cache_get remember
  rpc_buffer, bufs,         \* the transport's buffer; the contents of all
  uc_entries, uc_fifo, uc_nextvictim,
  executed,                 \* every request executed, with its count
  sets, cached              \* replies cached so far; each with its request and kind

cache == <<uc_entries, uc_fifo, uc_nextvictim>>
svc   == <<spc, cur, su_xid, su_addr, uc_proc, rpc_buffer, bufs, cache, executed, sets, cached>>

NoMessage == [xid |-> 0, client |-> "none", proc |-> 0, id |-> 0, cred |-> "full"]
Key(m)    == <<m.xid, m.client, m.proc>>

(* svc_dg_create and svc_dg_enablecache.                                   *)
SvcInit ==
  /\ spc = "idle" /\ cur = NoMessage
  /\ su_xid = 0 /\ su_addr = "none" /\ uc_proc = 0
  /\ rpc_buffer = 0 /\ bufs = [b \in Buffers |-> NoMessage]
  /\ uc_entries = [l \in Locs |-> <<>>] /\ uc_fifo = [s \in Slots |-> NoNode]
  /\ uc_nextvictim = 0
  /\ executed = {} /\ sets = 0 /\ cached = {}

-----------------------------------------------------------------------------
CACHE_LOC(x) == x % (SPARSENESS * UcSize)

(* cache_get.                                                              *)
cache_get(m) ==
  IF UcSize = 0 THEN {} ELSE
  LET chain == uc_entries[CACHE_LOC(m.xid)]
  IN {chain[k] : k \in {j \in 1 .. Len(chain) :
        chain[j].xid = m.xid /\ chain[j].proc = m.proc /\ chain[j].client = m.client}}

(* cache_set: the victim leaves its chain and gives its buffer, the        *)
(* transport's buffer goes to the new entry.                               *)
victim == uc_fifo[uc_nextvictim]
Places == {k \in 1 .. Len(uc_entries[CACHE_LOC(victim.xid)]) : uc_entries[CACHE_LOC(victim.xid)][k] = victim}
victim_not_found == victim /= NoNode /\ Places = {}
remove(chain, p) == [k \in 1 .. Len(chain) - 1 |-> IF k < p THEN chain[k] ELSE chain[k + 1]]
without == IF victim = NoNode THEN uc_entries
           ELSE [uc_entries EXCEPT ![CACHE_LOC(victim.xid)] =
                   remove(@, CHOOSE p \in Places : \A k \in Places : p <= k)]
newbuf == IF victim = NoNode
          THEN CHOOSE b \in Buffers : b /= rpc_buffer /\ \A s \in Slots :
                                        uc_fifo[s] = NoNode \/ uc_fifo[s].buf /= b
          ELSE victim.buf
store(chains, buffer, next) ==
  LET node == [xid |-> su_xid, proc |-> uc_proc, client |-> su_addr, buf |-> rpc_buffer,
               slot |-> uc_nextvictim]
  IN /\ uc_entries' = [chains EXCEPT ![CACHE_LOC(su_xid)] = <<node>> \o @]
     /\ uc_fifo' = [uc_fifo EXCEPT ![uc_nextvictim] = node]
     /\ uc_nextvictim' = next
     /\ rpc_buffer' = buffer
set_shares_buffer == store(without, IF victim = NoNode THEN rpc_buffer ELSE victim.buf,
                           (uc_nextvictim + 1) % UcSize)
cache_set == store(without, newbuf, (uc_nextvictim + 1) % UcSize)

-----------------------------------------------------------------------------
(* svc_dg_recv: the datagram overwrites the transport's buffer.            *)
Recv(m) ==
  /\ spc = "idle" /\ m \in req
  /\ bufs' = [bufs EXCEPT ![rpc_buffer] = m]
  /\ su_xid' = m.xid /\ su_addr' = m.client
  /\ IF cache_get(m) /= {}
     THEN /\ \E n \in cache_get(m) : rep' = rep \cup {[bufs[n.buf] EXCEPT !.client = m.client]}
          /\ UNCHANGED <<spc, cur, uc_proc>>
     ELSE /\ spc' = "dispatch" /\ cur' = m /\ uc_proc' = m.proc
          /\ UNCHANGED rep
  /\ UNCHANGED <<req, rpc_buffer, cache, executed, sets, cached>>

(* A datagram that is too short, or not a call.                            *)
RecvBad ==
  /\ spc = "idle" /\ bufs' = [bufs EXCEPT ![rpc_buffer] = NoMessage]
  /\ UNCHANGED <<req, rep, spc, cur, su_xid, su_addr, uc_proc, rpc_buffer, cache, executed,
                 sets, cached>>

(* svc_dg_reply of a reply encoded into the buffer, with cache_set when it *)
(* was sent; cache_set returns early when it does not find its victim, or  *)
(* gets no memory for a first entry of a slot.                             *)
Reply(kind, sent) ==
  LET r == [xid |-> su_xid, client |-> su_addr, id |-> cur.id, kind |-> kind] IN
  /\ bufs' = [bufs EXCEPT ![rpc_buffer] = r]
  /\ rep' = IF sent THEN rep \cup {r} ELSE rep
  /\ \/ /\ sent /\ UcSize > 0 /\ ~victim_not_found
        /\ cache_set /\ sets' = sets + 1 /\ cached' = cached \cup {<<Key(cur), sets + 1, kind>>}
     \/ /\ sent /\ UcSize > 0 => victim_not_found \/ victim = NoNode
        /\ UNCHANGED <<cache, rpc_buffer, sets, cached>>

(* svc_getreq_common: rejected before, or executed and answered.  The      *)
(* routine may also not answer.                                            *)
Reject(sent) ==
  /\ spc = "dispatch" /\ AuthRejects /\ cur.cred = "short"
  /\ Reply("AUTHERROR", sent) /\ spc' = "idle"
  /\ UNCHANGED <<req, cur, su_xid, su_addr, uc_proc, executed>>
Times(k) == {p[2] : p \in {q \in executed : q[1] = k}}
Execute(sent) ==
  /\ spc = "dispatch"
  /\ executed' = executed \cup {<<Key(cur), Cardinality(Times(Key(cur))) + 1, cur.id>>}
  /\ Reply("SUCCESS", sent) /\ spc' = "idle"
  /\ UNCHANGED <<req, cur, su_xid, su_addr, uc_proc>>
ExecuteSilent ==
  /\ spc = "dispatch"
  /\ executed' = executed \cup {<<Key(cur), Cardinality(Times(Key(cur))) + 1, cur.id>>}
  /\ spc' = "idle"
  /\ UNCHANGED <<req, rep, cur, su_xid, su_addr, uc_proc, rpc_buffer, bufs, cache, sets, cached>>

SvcNext == \/ \E m \in req : Recv(m)
           \/ RecvBad \/ ExecuteSilent
           \/ \E sent \in BOOLEAN : Reject(sent) \/ Execute(sent)

-----------------------------------------------------------------------------
(* Types; the transport's buffer is one of those there are.                *)
CacheTypeOK ==
  /\ spc \in {"idle", "dispatch"} /\ rpc_buffer \in Buffers
  /\ uc_nextvictim \in Slots \cup {0} /\ sets \in Nat
  /\ uc_fifo = [s \in Slots |-> uc_fifo[s]] /\ bufs = [b \in Buffers |-> bufs[b]]
  /\ uc_entries \in [Locs -> Seq({uc_fifo[s] : s \in Slots})]
  /\ \A s \in Slots : uc_fifo[s] /= NoNode =>
       uc_fifo[s].xid \in Nat /\ uc_fifo[s].slot = s /\ uc_fifo[s].buf \in Buffers

(* The FIFO and the chains hold the same entries, each chain those of its  *)
(* hash value and each once: the victim is always found, and none is       *)
(* forgotten.                                                              *)
FifoMatchesTable ==
  /\ \A s \in Slots : uc_fifo[s] /= NoNode =>
       \E k \in 1 .. Len(uc_entries[CACHE_LOC(uc_fifo[s].xid)]) :
         uc_entries[CACHE_LOC(uc_fifo[s].xid)][k] = uc_fifo[s]
  /\ \A l \in Locs : \A k \in 1 .. Len(uc_entries[l]) :
       /\ uc_entries[l][k] /= NoNode /\ CACHE_LOC(uc_entries[l][k].xid) = l
       /\ uc_fifo[uc_entries[l][k].slot] = uc_entries[l][k]
       /\ \A j \in 1 .. Len(uc_entries[l]) : uc_entries[l][j] = uc_entries[l][k] => j = k

(* A cached reply is the reply to the request it is found by, and stays so *)
(* while the buffers go round: what is sent again is what was sent.        *)
CachedReplyRight ==
  \A s \in Slots : uc_fifo[s] /= NoNode =>
    /\ uc_fifo[s].buf /= rpc_buffer
    /\ bufs[uc_fifo[s].buf].xid = uc_fifo[s].xid
    /\ bufs[uc_fifo[s].buf].client = uc_fifo[s].client
    /\ \A t \in Slots : uc_fifo[t] /= NoNode /\ uc_fifo[t].buf = uc_fifo[s].buf => t = s

(* The j-th last reply cached is in the j-th slot before the next victim,  *)
(* and the request being dispatched is not in the cache.                   *)
Back(j) == IF uc_nextvictim > j THEN uc_nextvictim - 1 - j ELSE uc_nextvictim - 1 - j + UcSize
NodeKey(n) == <<n.xid, n.client, n.proc>>
LastOnesCached ==
  /\ \A p \in cached :
       /\ p[2] \in 1 .. sets
       /\ sets - p[2] < UcSize =>
            LET n == uc_fifo[Back(sets - p[2])] IN n /= NoNode /\ NodeKey(n) = p[1]
  /\ spc = "dispatch" =>
       /\ Key(cur) = <<su_xid, su_addr, uc_proc>>
       /\ \A s \in Slots : uc_fifo[s] /= NoNode => NodeKey(uc_fifo[s]) /= Key(cur)

(* Every reply on the network is to a request of its xid and its client,   *)
(* although clients use the same xids.                                     *)
RepliesRight ==
  \A r \in rep : \E m \in req : m.xid = r.xid /\ m.client = r.client /\ m.id = r.id

(* A request is executed again only if its reply was never cached or       *)
(* UcSize others were cached after it.                                     *)
NotRepeated ==
  [][ spc = "dispatch" /\ executed' /= executed /\ Times(Key(cur)) /= {} =>
        \A p \in cached : p[1] = Key(cur) => sets - p[2] >= UcSize ]_<<svc, req, rep>>
=============================================================================
