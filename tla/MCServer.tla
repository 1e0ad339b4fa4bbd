------------------------------ MODULE MCServer ------------------------------
(***************************************************************************)
(* The server library: svc_run with its tables of transports and services  *)
(* (Svc, one service and two versions of one, on three descriptors), the   *)
(* registration of services and the calls of rpc_reg's routines            *)
(* (SvcGeneric: threads together, failures, requests) and the raw          *)
(* transport of a program that calls itself (RawRpc, nested calls and      *)
(* silent routines). They share no state, so one behaviour moves one of    *)
(* them.                                                                   *)
(***************************************************************************)
EXTENDS Svc

CONSTANTS
  Threads, Programs, SimplePrograms, Procs, Netconf, Dispatches, Stdin, Shape,
  Faults, Calls, Descriptors, MaxCalls, MaxRequests,  \* SvcGeneric, threads together
  RawPrograms, Arguments, FD_SETSIZE, DTableSize, Fates, NestEarly, MaxDepth,
  RawCalls  \* RawRpc, where calls nest

Versioned == INSTANCE Svc WITH
  MaxXprt <- 2, Requests <- {<<1, 1>>, <<1, 2>>, <<2, 1>>},
  Services <- {<<1, 1>>, <<1, 3>>}, Behaviours <- {"exit"}, Batch <- 1,
  ExitAt <- {"top", "poll"}
OneService == {<<1, 1>>}

VARIABLES part,  \* the component that moves in this behaviour
  fds, xprts, xprtlist, proglst, xprtlist_lock, proglst_lock, gen_callouts,
  rpcb, th, registered, closed, xdrbuf, server, gen_calls, requests,  \* SvcGeneric
  __rpc_rawcombuf, clntraw, raw_callouts, handles, svc_raw, frames, last,
  raw_calls  \* RawRpc

UdpTcp == <<"udp", "tcp">>
Words == <<<<"int", "string">>, <<"int", "string", "int">>>>
Registering == INSTANCE SvcGeneric WITH
  callouts <- gen_callouts, calls <- gen_calls, MaxFd <- Descriptors
Failing == INSTANCE SvcGeneric WITH
  callouts <- gen_callouts, calls <- gen_calls, Threads <- {"t1"},
  Programs <- {1}, SimplePrograms <- {1}, Procs <- 0 .. 2,
  Netconf <- <<"udp", "local">>, Dispatches <- {"d"}, Stdin <- "app",
  Shape <- <<<<"int">>, <<"int", "int">>>>,
  Faults <- {"socket", "bind", "xprt", "rpcb", "result", "getargs", "reply"},
  Calls <- {"svc_create", "svc_tp_create", "rpc_reg", "tli", "svc_unreg"},
  MaxFd <- 3, MaxCalls <- 3, MaxRequests <- 1
Serving == INSTANCE SvcGeneric WITH
  callouts <- gen_callouts, calls <- gen_calls, Threads <- {"t1"},
  Programs <- {1}, SimplePrograms <- {1}, Procs <- 0 .. 2,
  Netconf <- <<"udp">>, Dispatches <- {"d"}, Stdin <- "app",
  Shape <- Words,
  Faults <- {"getargs", "result", "reply"}, Calls <- {"rpc_reg"}, MaxFd <- 3, MaxCalls <- 3,
  MaxRequests <- 3
GenericVars ==
  <<fds, xprts, xprtlist, proglst, xprtlist_lock, proglst_lock,
     gen_callouts, rpcb, th, registered, closed, xdrbuf, server, gen_calls,
     requests>>

Raw == INSTANCE RawRpc WITH
  callouts <- raw_callouts, calls <- raw_calls, Programs <- RawPrograms,
  MaxCalls <- RawCalls
Silent == INSTANCE RawRpc WITH
  callouts <- raw_callouts, calls <- raw_calls, Programs <- {1},
  Arguments <- {1, 2, 3}, FD_SETSIZE <- 4, DTableSize <- 5,
  Fates <- {"reply", "long", "silent"}, NestEarly <- FALSE, MaxDepth <- 1,
  MaxCalls <- 5
RawVars ==
  <<__rpc_rawcombuf, clntraw, raw_callouts, handles, svc_raw, frames, last,
     raw_calls>>

allVars == <<part, vars, GenericVars, RawVars>>

MCInit ==
  /\ part \in {"svc", "versions", "register", "failing", "serve", "raw", "silent"}
  /\ IF part = "versions" THEN Versioned!Init ELSE Init
  /\ IF part = "serve" THEN Serving!Init ELSE IF part = "failing" THEN Failing!Init ELSE Registering!Init
  /\ IF part = "silent" THEN Silent!Init ELSE Raw!Init

(* Each component takes its own steps; the others stay as they start.      *)
SvcStep ==
  /\ \/ part = "svc" /\ Next
     \/ part = "versions" /\ Versioned!Next
  /\ UNCHANGED <<part, GenericVars, RawVars>>
GenericStep ==
  /\ \/ part = "register" /\ Registering!Next
     \/ part = "failing" /\ Failing!Next
     \/ part = "serve" /\ Serving!Next
  /\ UNCHANGED <<part, vars, RawVars>>
RawStep ==
  /\ \/ part = "raw" /\ Raw!Next
     \/ part = "silent" /\ Silent!Next
  /\ UNCHANGED <<part, vars, GenericVars>>

MCNext == SvcStep \/ GenericStep \/ RawStep

(* The fairness of each component, as its module states it.                *)
MCSpec ==
  /\ MCInit /\ [][MCNext]_allVars
  /\ WF_vars(part = "svc" /\ Loop)
  /\ WF_vars(part = "versions" /\ Versioned!Loop)
  /\ WF_GenericVars(\/ part = "serve" /\ Serving!Register("t1")
                    \/ part = "failing" /\ Failing!Register("t1"))
  /\ WF_GenericVars(\/ part = "serve" /\ Serving!Serve
                    \/ part = "failing" /\ Failing!Serve)

-----------------------------------------------------------------------------
ASSUME RawAssumed == Raw!RawAssumption /\ Raw!Alone
ASSUME RegisteringAssumption ==
  Registering!GenericAssumption /\ Registering!KnownNetids
ASSUME /\ Failing!GenericAssumption /\ Failing!KnownNetids /\ Serving!GenericAssumption
       /\ Silent!RawAssumption /\ Silent!Alone


(* Services registered by threads side by side, with any step failing:     *)
(* one transport for each netid, every descriptor the library opened is a  *)
(* live transport's and it closes no other; without failures what was      *)
(* reported as registered can be called (svc_generic.c, svc_simple.c).     *)
RegistrationSound ==
  /\ part \notin {"failing", "serve"} => Registering!Registrations
  /\ part = "failing" => Failing!Registrations

(* universal calls the routine registered last for the procedure, decodes  *)
(* a string into nothing an earlier request left but the string of one     *)
(* that failed, and takes every request to its end, whichever of           *)
(* svc_getargs, the routine and svc_sendreply fails (svc_simple.c).        *)
SimpleRequestsServed ==
  /\ [](part = "serve" => Serving!CallsLatest /\ Serving!DecodesSafely)
  /\ Serving!Served

(* A call within the process gets the result of its own argument, however  *)
(* calls nest in each other's routines, and succeeds if the routine        *)
(* replies (clnt_raw.c, svc_raw.c).                                        *)
RawCallsAnswered == Raw!AnswersOwn /\ Raw!Served
=============================================================================
