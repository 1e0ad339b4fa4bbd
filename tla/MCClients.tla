------------------------------ MODULE MCClients -----------------------------
(***************************************************************************)
(* The client library: the lock of a descriptor that several threads share *)
(* (ClntFdLock), a connected client (ClntVc), the creation and use of      *)
(* handles (ClntGeneric, three applications) and the binding to reserved   *)
(* ports (BindPort). They share no state, so one behaviour moves one of    *)
(* them.                                                                   *)
(***************************************************************************)
EXTENDS ClntFdLock

CONSTANTS
  MaxCalls,  \* over a connection, of creations, and of bindings to ports
  FirstXid, Waits, SetXids, Outcomes, MaxElapsed,  \* ClntVc
  Netconf, Hosts, LongHosts, Versions, Supported, Stdin, MinFd, MaxFd, Faults,
  Uses, MaxForks,  \* ClntGeneric, where handles are created
  Binders,   \* the threads that bind sockets
  LOWPORT, STARTPORT, ENDPORT, DYNLOW, DYNEND, PortMod, Pid, Blacklist,
  NotAPort, Wanted, Families, MaxOthers  \* BindPort

VARIABLES part,  \* the component that moves in this behaviour
  xid, ct_wait, ct_waitset, cred, outbuf, to_server, to_client, vc_pc, call,
  x_id, refreshes, status, result, waited, elapsed, vc_calls, executed,
  erred,  \* ClntVc
  fds, handles, rpc_createerr, gen_op, rcp, pid, server, closed, gen_last,
  gen_calls, forks,  \* ClntGeneric
  blacklist_read, list, port, startport, port_lock, used, th, bp_last,
  bp_calls, others  \* BindPort

Vc == INSTANCE ClntVc WITH pc <- vc_pc, calls <- vc_calls
VcVars ==
  <<xid, ct_wait, ct_waitset, cred, outbuf, to_server, to_client, vc_pc,
     call, x_id, refreshes, status, result, waited, elapsed, vc_calls,
     executed, erred>>

UdpTcpLocal == <<"udp", "tcp", "local">>
Creating == INSTANCE ClntGeneric WITH
  op <- gen_op, last <- gen_last, calls <- gen_calls, __rpc_minfd <- MinFd
Negotiating == INSTANCE ClntGeneric WITH
  op <- gen_op, last <- gen_last, calls <- gen_calls, Netconf <- <<"tcp">>,
  Hosts <- {"a"}, LongHosts <- {}, Versions <- 0 .. 3,
  Supported <- SUBSET (0 .. 3) \ {{}}, Stdin <- "free", __rpc_minfd <- 1,
  MaxFd <- 3, Faults <- {"call", "connect"}, Uses <- {"vers"},
  MaxCalls <- 2, MaxForks <- 0
Calling == INSTANCE ClntGeneric WITH
  op <- gen_op, last <- gen_last, calls <- gen_calls,
  Netconf <- <<"udp", "tcp">>, Hosts <- {"a", "z"}, LongHosts <- {"z"},
  Versions <- {1, 2}, Supported <- {{1}}, Stdin <- "app", __rpc_minfd <- 1,
  MaxFd <- 3, Faults <- {"call", "connect"},
  Uses <- {"rpc_call", "create", "tli"}, MaxCalls <- 3, MaxForks <- 1
HandleVars ==
  <<fds, handles, rpc_createerr, gen_op, rcp, pid, server, closed, gen_last,
     gen_calls, forks>>

Ports == INSTANCE BindPort WITH
  Threads <- Binders, last <- bp_last, calls <- bp_calls
PortVars ==
  <<blacklist_read, list, port, startport, port_lock, used, th, bp_last,
     bp_calls, others>>

allVars == <<part, vars, VcVars, HandleVars, PortVars>>

MCInit ==
  /\ part \in {"lock", "vc", "create", "vers", "call", "ports"}
  /\ Init
  /\ Vc!Init
  /\ part /= "vc" => cred = "full"
  /\ IF part = "call" THEN Calling!Init ELSE IF part = "vers" THEN Negotiating!Init ELSE Creating!Init
  /\ Ports!Init
  /\ part /= "ports" => used = {}

(* Each component takes its own steps; the others stay as they start.      *)
LockStep == part = "lock" /\ Next
  /\ UNCHANGED <<part, VcVars, HandleVars, PortVars>>
VcStep ==
  /\ part = "vc" /\ Vc!Next
  /\ UNCHANGED <<part, vars, HandleVars, PortVars>>
HandleStep ==
  /\ \/ part = "create" /\ Creating!Next
     \/ part = "vers" /\ Negotiating!Next
     \/ part = "call" /\ Calling!Next
  /\ UNCHANGED <<part, vars, VcVars, PortVars>>
PortStep ==
  /\ part = "ports" /\ Ports!Next
  /\ UNCHANGED <<part, vars, VcVars, HandleVars>>

MCNext == LockStep \/ VcStep \/ HandleStep \/ PortStep

(* The fairness of each component, as its module states it.                *)
MCSpec ==
  /\ MCInit /\ [][MCNext]_allVars
  /\ \A t \in Threads : WF_vars(part = "lock" /\ Step(t))
  /\ WF_VcVars(part = "vc" /\ Vc!Client)
  /\ WF_HandleVars(part = "create" /\ Creating!Go)
  /\ WF_HandleVars(part = "vers" /\ Negotiating!Go)
  /\ WF_HandleVars(part = "call" /\ Calling!Go)
  /\ \A t \in Binders : WF_PortVars(part = "ports" /\ Ports!Step(t))

-----------------------------------------------------------------------------
ASSUME ClientAssumption ==
  /\ Vc!VcAssumption /\ Ports!BindAssumption
  /\ Creating!ClntGenericAssumption /\ Creating!KnownNetids
ASSUME Negotiating!ClntGenericAssumption /\ Calling!ClntGenericAssumption

(* A call over a connection gets its own reply although earlier calls      *)
(* timed out or were batched.  It is executed once at most, and once more  *)
(* only when the execution for a shorthand was answered by an error, which *)
(* clnt_vc_call takes for a refused credential.                            *)
ConnectedCallOnce == Vc!ConnectedCallOnce

(* However handles are created, negotiated, cached, forked and destroyed:  *)
(* every descriptor the library opened has one handle that closes it and   *)
(* it closes no other, a failed creation reports the telling error, a      *)
(* negotiated version is the highest common one, and rpc_call uses a       *)
(* handle of this process, host and version (clnt_generic.c,               *)
(* clnt_simple.c).                                                         *)
HandlesSound ==
  /\ Creating!NoLeak /\ Creating!ClosesOwn /\ Creating!SpecificError
  /\ Creating!HighestVersion /\ Creating!CallsOwn

(* A port comes from the range the caller may have, the search finds all   *)
(* ports taken only when all were tried, and no blacklisted port is bound  *)
(* once the list has been read (bindresvport_sa, __binddynport).           *)
PortsInRange == Ports!PortsInRange

(* Whatever the others do and the network loses, every operation of a      *)
(* client returns: a thread waiting for the descriptor is let in, a call   *)
(* ends by its timeout, a creation runs out of transports, the port lock   *)
(* is released; and batched calls are shipped in order.                    *)
ClientOperationsReturn ==
  /\ OperationReturns
  /\ Vc!CallReturns /\ Vc!BatchShipped
  /\ Creating!Ends
  /\ Ports!LockReleased
=============================================================================
