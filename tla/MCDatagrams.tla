----------------------------- MODULE MCDatagrams ----------------------------
(***************************************************************************)
(* RPC on datagrams: client and server over a network that loses, repeats  *)
(* and reorders (DgRpc), with a refreshed credential; the client alone     *)
(* with any server (ClntDg); the server's cache of replies under clients   *)
(* that share xids (SvcDg); broadcast calls (ClntBcast). One behaviour     *)
(* moves one of them.                                                      *)
(***************************************************************************)
EXTENDS DgRpc

(* A call that is refreshed, a client with several timeouts, and a server  *)
(* whose clients use xids of one chain, one of them for two procedures.    *)
Refreshed == INSTANCE DgRpc WITH MaxCalls <- 1, Totals <- {2}, AuthRejects <- TRUE
Timed == INSTANCE ClntDg WITH Totals <- {0, 2}, Retries <- {1, 2}
Shared == INSTANCE SvcDg WITH AuthRejects <- TRUE
Msg(x, c, p, i, cr) == [xid |-> x, client |-> c, proc |-> p, id |-> i, cred |-> cr]
Requests == {Msg(1, "c1", 1, 1, "full"), Msg(1, "c2", 1, 2, "full"),
             Msg(9, "c1", 1, 3, "short"), Msg(1, "c1", 2, 4, "full")}
Ask == \E m \in Requests \ req : req' = req \cup {m} /\ UNCHANGED <<rep, server>>
MaxSets == 4      \* bounds of the cache run
MaxRuns == 2
Served == /\ sets < MaxSets /\ (\A p \in executed : p[2] <= MaxRuns) /\ Shared!SvcNext

(* Transports and datagrams of the broadcasts.                             *)
Tr(c, v4, u, n, d) == [clts |-> c, v4 |-> v4, udp |-> u, ifs |-> n, dsize |-> d]
Both == <<Tr(TRUE, TRUE, TRUE, 1, 9), Tr(FALSE, TRUE, FALSE, 1, 9), Tr(TRUE, FALSE, TRUE, 2, 4)>>
Many == <<Tr(TRUE, TRUE, TRUE, 1, 9), Tr(TRUE, FALSE, TRUE, 0, 9), Tr(TRUE, FALSE, TRUE, 1, 9),
          Tr(TRUE, FALSE, FALSE, 1, 9)>>
Ans(kind, u) == [kind |-> kind, uaddr |-> u]
Right4 == {Ans("rpcb", "v4"), Ans("rpcb", "bad"), Ans("pmap", ""), Ans("error", "")}
All    == Right4 \cup {Ans("stray", ""), Ans("short", "")}

VARIABLES part,  \* the component that moves in this behaviour
  bc_pc, bc_k, fdlist, stat, msec, pfd, queue, ready, given, content,
  waited, rounds, arrived, __rpc_lowvers, eachresult  \* ClntBcast

Broadcast == INSTANCE ClntBcast WITH
  pc <- bc_pc, k <- bc_k, Transports <- Many, MAXBCAST <- 2, OutLen <- 9,
  Inittime <- 4, Waittime <- 8, Hosts <- {1, 2}, Answers <- Right4,
  HasResult <- {TRUE}, Failures <- {"send"}, MaxAnswers <- 3
Failing == INSTANCE ClntBcast WITH
  pc <- bc_pc, k <- bc_k, Transports <- Both, MAXBCAST <- 2, OutLen <- 9,
  Inittime <- 4, Waittime <- 16, Hosts <- {1, 2}, Answers <- All,
  HasResult <- {TRUE, FALSE},
  Failures <- {"socket", "send", "poll", "recv", "nval"}, MaxAnswers <- 2
BcastVars ==
  <<bc_pc, bc_k, fdlist, stat, msec, pfd, queue, ready, given, content,
     waited, rounds, arrived, __rpc_lowvers, eachresult>>

allVars == <<part, sysvars, BcastVars>>

MCInit ==
  /\ part \in {"system", "refresh", "client", "server", "rounds", "failures"}
  /\ IF part = "client" THEN Timed!Init /\ S!SvcInit ELSE SysInit
  /\ part \notin {"system", "refresh", "client"} => cred = "full" /\ cu_wait = 1
  /\ IF part = "failures" THEN Failing!Init ELSE Broadcast!Init
  /\ part \notin {"rounds", "failures"} => __rpc_lowvers = 0 /\ eachresult

(* Each component takes its own steps; the others stay as they start.      *)
DatagramStep ==
  /\ \/ part = "system" /\ SysNext
     \/ part = "refresh" /\ Refreshed!SysNext
     \/ part = "client" /\ Timed!Next /\ UNCHANGED server
     \/ part = "server" /\ (Ask \/ Served) /\ UNCHANGED clnt
  /\ UNCHANGED <<part, BcastVars>>
BcastStep ==
  /\ \/ part = "rounds" /\ Broadcast!Next
     \/ part = "failures" /\ Failing!Next
  /\ UNCHANGED <<part, sysvars>>

MCNext == DatagramStep \/ BcastStep

(* The fairness of each component, as its module states it.                *)
MCSpec ==
  /\ MCInit /\ [][MCNext]_allVars
  /\ WF_vars(part = "client" /\ ClntStep)
  /\ WF_BcastVars(part = "rounds" /\ Broadcast!Step)
  /\ WF_BcastVars(part = "failures" /\ Failing!Step)

-----------------------------------------------------------------------------
ASSUME Broadcast!BcastAssumption /\ Failing!BcastAssumption

(* A call ends with its own reply whatever late and repeated replies       *)
(* arrive and whatever the input buffer still holds, and it ends although  *)
(* every foreign datagram makes it send again (clnt_dg_call).              *)
DatagramCallsReturn ==
  /\ [][pc = "recv" /\ pc' \in {"idle", "encode"} => result' = calls]_vars
  /\ []<>(part = "client" => pc = "idle")

(* Client and server together implement RemoteCall: a call that returns    *)
(* success was executed, whatever was lost, repeated, reordered, cached or *)
(* evicted.  Replies answer requests of their xid and client, and a        *)
(* request is executed again only if its reply was not cached or was       *)
(* evicted (svc_dg_recv, svc_dg_reply).                                    *)
Moved == part \in {"system", "refresh"}
RC == INSTANCE RemoteCall WITH
  Limit <- MaxCalls, made <- IF Moved THEN calls ELSE 0, pending <- Moved /\ pc /= "idle",
  outcome <- IF Moved THEN Outcome ELSE "none",
  times <- IF Moved THEN times ELSE [c \in 1 .. MaxCalls |-> 0]
RemoteCallsImplemented ==
  /\ RC!Spec
  /\ [](part /= "client" => S!RepliesRight)
  /\ [](part /= "server" => OnceIfCached)
  /\ [](part \in {"system", "refresh"} => ExchangeSound)
  /\ S!NotRepeated

(* A broadcast gives eachresult the address of the service that answered,  *)
(* waits between its rounds, sends no more of them than the doubling wait  *)
(* allows, succeeds only when eachresult is content, reports that it timed *)
(* out otherwise, and returns unless poll fails again and again            *)
(* (rpc_broadcast_exp).                                                    *)
BroadcastSound ==
  /\ [](/\ Broadcast!AddressOfService
        /\ part = "rounds" => /\ Broadcast!WaitsBeforeResend /\ Broadcast!SuccessMeansContent
                              /\ Broadcast!TimedOut
        /\ part = "failures" => Failing!Rounds)
  /\ []<>(part \in {"rounds", "failures"} => bc_pc \in {"returned", "poll_failed"})
=============================================================================
