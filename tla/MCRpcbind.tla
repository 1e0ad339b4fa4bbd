------------------------------ MODULE MCRpcbind -----------------------------
(***************************************************************************)
(* rpcbind: its lists of registrations under requests of several users     *)
(* (RpcbRegistry: three transports, registrations of rpcbind's own         *)
(* program, restarts) and the calls it forwards to services (RpcbForward:  *)
(* late and repeated answers, steps that fail, and services that answer).  *)
(* They share no state but the list of services, which forwarding only     *)
(* reads, so one behaviour moves one of them.                              *)
(***************************************************************************)
EXTENDS RpcbForward

Local == {[user |-> "root", via |-> "local"], [user |-> "ann", via |-> "local"],
          [user |-> "bob", via |-> "loopback"]}
All   == Local \cup {[user |-> "eve", via |-> "remote"]}
Two   == {[user |-> "ann", via |-> "local"], [user |-> "bob", via |-> "local"]}

(* Requests to forward: to services that are registered, or cannot be      *)
(* reached for one reason or another.                                      *)
Req(a, x, t, v, n, p, w, c) ==
  [addr |-> a, xid |-> x, type |-> t, vers |-> v, netid |-> n, prog |-> p,
   rvers |-> w, proc |-> c]
Reg(p, v, n) == [prog |-> p, vers |-> v, netid |-> n]
Services == <<Reg("calc", 1, "udp"), Reg("calc", 1, "udp6"), Reg("calc", 1, "ipx"),
              Reg("nfs", 1, "udp")>>
SameXid == {Req("a", 1, "INDIRECT", 4, "udp", "calc", 1, 0),
            Req("b", 1, "CALLIT", 3, "udp", "calc", 1, 0)}
TwoNets == {Req("a", 1, "INDIRECT", 4, "udp", "calc", 1, 0),
            Req("b", 1, "INDIRECT", 4, "udp6", "calc", 1, 0)}
Odd     == {Req("a", 1, "INDIRECT", 4, "udp", "gone", 1, 0),   \* not registered
            Req("a", 2, "INDIRECT", 4, "udp", "calc", 2, 0),   \* another version
            Req("a", 3, "INDIRECT", 4, "tcp", "calc", 1, 0),
            Req("a", 4, "INDIRECT", 4, "ipx", "calc", 1, 0),   \* nothing forwards it
            Req("a", 5, "INDIRECT", 4, "udp", "nfs", 1, 1),
            Req("b", 6, "INDIRECT", 4, "udp", "calc", 1, 1)}
AllFaults == {"error", "recv", "sockinfo", "args", "merge", "conf", "local",
              "callhdr", "flavor", "marshal", "taddr", "send"}

OverUdp == <<"udp">>

VARIABLES part,  \* the component that moves in this behaviour
  rbl, list_pml, pc, RPCBFILE, PMAPFILE, dead, last  \* RpcbRegistry, rbl its list_rbl

Shared == INSTANCE RpcbRegistry WITH
  list_rbl <- rbl, Transports <- {"tcp", "udp", "local"}, Callers <- All,
  Insecure <- FALSE, Progs <- {1}, Vers <- {1, 2}, Netids <- {"tcp", "udp", "local"},
  Addrs <- {1, 2}, Mortal <- {}, Signals <- FALSE, Faults <- {}, MaxEntries <- 2
Own == INSTANCE RpcbRegistry WITH
  list_rbl <- rbl, Transports <- {"tcp", "local"}, Callers <- Local, Insecure <- FALSE,
  Progs <- {0, 1}, Vers <- {2}, Netids <- {"tcp", "local"}, Addrs <- {1},
  Mortal <- {}, Signals <- FALSE, Faults <- {}, MaxEntries <- 2
Restart == INSTANCE RpcbRegistry WITH
  list_rbl <- rbl, Transports <- {"tcp", "local"}, Callers <- Two, Insecure <- FALSE,
  Progs <- {1}, Vers <- {1}, Netids <- {"tcp", "local"}, Addrs <- {1, 2},
  Mortal <- {1}, Signals <- TRUE, Faults <- {"open", "disk"}, MaxEntries <- 2
RegistryVars == <<rbl, list_pml, pc, RPCBFILE, PMAPFILE, dead, last>>

Failing == INSTANCE RpcbForward WITH
  NFORWARD <- 2, MAXTIME_OFF <- 1, XIDS <- 12, Boot <- 5, Horizon <- 5,
  Forwarding <- <<"udp", "udp6">>, list_rbl <- Services, Requests <- Odd,
  Insecure <- FALSE, Faults <- AllFaults, MaxCalls <- 3
Answering == INSTANCE RpcbForward WITH
  NFORWARD <- 2, MAXTIME_OFF <- 1, XIDS <- 12, Boot <- 5, Horizon <- 5,
  Forwarding <- <<"udp", "udp6">>, list_rbl <- Services,
  Requests <- TwoNets, Insecure <- FALSE, Faults <- {}, MaxCalls <- 4

allVars == <<part, vars, RegistryVars>>

MCInit ==
  /\ part \in {"registry", "own", "restart", "forward", "failing", "answering"}
  /\ IF part = "restart" THEN Restart!Init
     ELSE IF part = "own" THEN Own!Init ELSE Shared!Init
  /\ IF part = "answering" THEN Answering!Init ELSE IF part = "failing" THEN Failing!Init ELSE Init

(* Each component takes its own steps; the others stay as they start.      *)
RegistryStep ==
  /\ \/ part = "registry" /\ Shared!Next
     \/ part = "own" /\ Own!Next
     \/ part = "restart" /\ Restart!Next
  /\ UNCHANGED <<part, vars>>
ForwardStep ==
  /\ \/ part = "forward" /\ Next
     \/ part = "failing" /\ Failing!Next
     \/ part = "answering" /\ Answering!Next
  /\ UNCHANGED <<part, RegistryVars>>

MCNext == RegistryStep \/ ForwardStep

(* The fairness of each component, as its module states it.                *)
MCSpec ==
  /\ MCInit /\ [][MCNext]_allVars
  /\ WF_vars(part = "answering" /\ Answering!Answer)
  /\ WF_vars(part = "answering" /\ Answering!Run)

-----------------------------------------------------------------------------
ASSUME Shared!RegistryAssumption /\ Own!RegistryAssumption /\ Restart!RegistryAssumption

(* Whatever is set, unset, saved and read back, by whom and over which     *)
(* protocol: one address for a program, version and transport, and outside *)
(* of restarts portmap's GETPORT and rpcbind's GETADDR give the same one   *)
(* (rpcb_svc_com.c, pmap_svc.c).                                           *)
RegistrationsAgree ==
  /\ part \notin {"own", "restart"} => Shared!RegistrationsAgree
  /\ part = "own" => Own!OneAddress /\ Own!PortsAgree
  /\ part = "restart" => Restart!RegistrationsAgree

(* Only the superuser removes another's registration, and a restart finds  *)
(* what a terminated rpcbind had and never a registration it did not have  *)
(* (rpcbproc_unset_com, map_unset, warmstart.c).                           *)
OwnersRespected ==
  [][ /\ part \notin {"own", "restart"} => Shared!RespectsOwners
      /\ part = "own" => Own!RespectsOwners
      /\ part = "restart" => Restart!RespectsOwners ]_RegistryVars

(* When services answer and slots suffice, every request forwarded gets    *)
(* its result (check_rmtcalls, handle_reply).                              *)
ForwardedAnswered ==
  /\ \A r \in TwoNets : []<>(part = "answering" => ~Answering!Pending(r))
  /\ [][part = "answering" => \A r \in TwoNets :
          Answering!Pending(r) /\ ~Answering!Pending(r)' => Answering!Result(r)']_vars

-----------------------------------------------------------------------------
(* Three requests for two slots, and answers that come too late.           *)
Three == {Req("a", 1, "INDIRECT", 4, "udp", "calc", 1, 0),
          Req("a", 2, "CALLIT", 3, "udp", "calc", 1, 0),
          Req("b", 1, "INDIRECT", 4, "udp", "calc", 1, 0)}
OverdueSpec ==
  /\ part = "forward" /\ Shared!Init /\ Init
  /\ [][Next /\ UNCHANGED <<part, RegistryVars>>]_allVars
  /\ WF_vars(Answer) /\ WF_vars(Run)
=============================================================================
