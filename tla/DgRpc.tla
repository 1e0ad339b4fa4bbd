--------------------------------- MODULE DgRpc -------------------------------
(***************************************************************************)
(* ClntDg and SvcDg over one network that loses, repeats and reorders      *)
(* requests and replies: retransmission on one side, the cache of replies  *)
(* on the other.                                                           *)
(***************************************************************************)
EXTENDS ClntDg, FiniteSets

CONSTANTS UcSize, AuthRejects,
          MaxExec      \* bound on the executions of one request

VARIABLES spc, cur, su_xid, su_addr, uc_proc, rpc_buffer, bufs, uc_entries, uc_fifo,
          uc_nextvictim, executed, sets, cached

S == INSTANCE SvcDg
ASSUME ServerAssumption == S!CacheAssumption

server == <<spc, cur, su_xid, su_addr, uc_proc, rpc_buffer, bufs, uc_entries, uc_fifo,
            uc_nextvictim, executed, sets, cached>>

sysvars == <<clnt, req, rep, server>>
SysInit == ClntInit /\ S!SvcInit /\ req = {} /\ rep = {}
ClientSide == ClntNext /\ UNCHANGED server
ServerSide == S!SvcNext /\ (\A p \in executed : p[2] <= MaxExec) /\ UNCHANGED clnt
SysNext == ClientSide \/ ServerSide
SysSpec == SysInit /\ [][SysNext]_sysvars

-----------------------------------------------------------------------------
times == [c \in 1 .. MaxCalls |-> Cardinality({p \in executed : p[3] = c})]
Outcome == IF pc /= "idle" \/ calls = 0 THEN "none"
           ELSE IF status = "SUCCESS" THEN "success" ELSE "failure"

R == INSTANCE RemoteCall WITH Limit <- MaxCalls, made <- calls, pending <- (pc /= "idle"),
                              outcome <- Outcome

(* What is on its way between the two: an xid belongs to one call, every   *)
(* reply, sent, cached, queued or in cu_inbuf, is to a request that was    *)
(* made, and one of success to a request that was executed; executions are *)
(* counted.                                                                *)
Requested == [xid : Nat, client : {Client}, proc : {1}, id : 1 .. calls, cred : {"full", "short"}]
Replied == [xid : Nat, client : {Client}, id : 1 .. calls, kind : {"SUCCESS", "AUTHERROR"}]
Genuine(r) ==
  /\ r \in Replied /\ \E m \in req : m.xid = r.xid /\ m.id = r.id
  /\ r.kind = "SUCCESS" => \E p \in executed : p[3] = r.id
ExchangeSound ==
  /\ xid \in Nat /\ calls \in 0 .. MaxCalls /\ cred \in {"full", "short"}
  /\ req \subseteq Requested /\ (\A m \in req : m.xid <= xid) /\ (xid > 0 \/ pc \in {"idle", "encode"})
  /\ pc \in {"send", "poll", "recv"} => \A m \in req : m.xid = xid => m.id = calls
  /\ pc /= "idle" => calls > 0
  /\ \A r \in rep : Genuine(r)
  /\ inq \in Seq(rep) /\ inbuf \in rep \cup {NoDatagram}
  /\ spc = "dispatch" => cur \in req
  /\ \A s \in S!Slots : uc_fifo[s] /= S!NoNode => Genuine(bufs[uc_fifo[s].buf])
  /\ IsFiniteSet(executed)
  /\ \A p \in executed :
       /\ p = <<p[1], p[2], p[3]>> /\ p[2] \in Nat /\ p[3] \in 1 .. calls
       /\ p[2] <= Cardinality(S!Times(p[1]))

(* The cache of replies: its chains and its queue hold the same entries, a *)
(* cached reply answers the request it is found by while the buffers go    *)
(* round, and the last UcSize replies are in it (cache_set, cache_get).    *)
ReplyCacheSound ==
  S!CacheTypeOK /\ S!FifoMatchesTable /\ S!CachedReplyRight /\ S!LastOnesCached

(* Client and server together implement remote calls: a call that returns  *)
(* success was executed, whatever was lost, repeated, reordered, cached    *)
(* or evicted.                                                             *)
ImplementsRemoteCall == R!Spec

(* No call is executed twice as long as the server could send and cache    *)
(* every reply and evicted none: retransmissions and repeated datagrams    *)
(* find the cached reply, and a refreshed credential repeats rejected      *)
(* calls only.                                                             *)
OnceIfCached ==
  LET answered == {q \in cached : q[3] = "SUCCESS"}
  IN /\ sets <= UcSize /\ Cardinality(answered) = Cardinality(executed)
     /\ \A r \in rep : \E q \in cached : q[1][1] = r.xid /\ q[3] = r.kind
     => \A c \in 1 .. MaxCalls : times[c] <= 1
=============================================================================
