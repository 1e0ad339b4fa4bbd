------------------------------ MODULE ClntGeneric ----------------------------
(***************************************************************************)
(* How a client comes to its handle: clnt_create and the routines under it *)
(* (clnt_generic.c), version negotiation (clnt_create_vers), and rpc_call  *)
(* with the one handle it keeps (clnt_simple.c).  What is followed is one  *)
(* thread and the descriptors of its process; after a fork, the child.     *)
(* The search for the address (rpcb_clnt.c) appears by its outcomes.       *)
(***************************************************************************)
EXTENDS Integers, Sequences, FiniteSets

CONSTANTS
  Netconf,       \* netids of the one nettype, in the order of __rpc_getconf
  Hosts,         \* hosts called
  LongHosts,     \* those whose name does not fit rpc_call's cache
  Versions,      \* version numbers a client may ask for
  Supported,     \* sets of versions the server may have
  Stdin,         \* what descriptor 0 is at first: "app", "sync" (app's, and fsync works on it), "free"
  __rpc_minfd, MaxFd,
  Faults,        \* what may fail: "find", "socket", "family", "connect", "call"
  Uses,          \* operations the application uses
  MaxCalls, MaxForks

(* What the constants must satisfy; whoever instantiates them assumes it.  *)
ClntGenericAssumption ==
  /\ {__rpc_minfd, MaxFd, MaxCalls, MaxForks} \subseteq Nat /\ Versions \subseteq Nat /\ LongHosts \subseteq Hosts
  /\ Stdin \in {"app", "sync", "free"} /\ __rpc_minfd <= MaxFd /\ Len(Netconf) \in Nat
  /\ \A S \in Supported : S \subseteq Nat /\ \E m \in S : \A v \in S : v <= m

Fds == 0 .. MaxFd
(* Errors that say only that a name or address was not understood.         *)
Unspecific == {"N2AXLATEFAILURE", "UNKNOWNHOST"}
FindErrors == {"N2AXLATEFAILURE", "PROGNOTREGISTERED", "RPCBFAILURE"}

VARIABLES
  fds,           \* who has each descriptor: "free", "app", "sync" or "lib"
  handles,       \* CLIENTs that exist
  rpc_createerr, \* cf_stat
  op,            \* the creation or call under way
  rcp,           \* the rpc_call_private of the thread
  pid, server,   \* the process; versions the server has
  closed,        \* descriptors of the application the library closed in this step
  last,          \* what ended in this step
  calls, forks

vars == <<fds, handles, rpc_createerr, op, rcp, pid, server, closed, last, calls, forks>>

NoHandle == [id |-> 0, fd |-> -1, closeit |-> FALSE, host |-> "none", vers |-> 0, pid |-> 0]
NoOp == [pc |-> "idle", use |-> "none", host |-> "none", low |-> 0, high |-> 0, vers |-> 0, i |-> 0, save |-> "SUCCESS", h |-> NoHandle, errs |-> <<>>]
NoRcp == [valid |-> FALSE, client |-> 0, pid |-> 0, vers |-> 0, host |-> "none"]
NoEnd == [use |-> "none", stat |-> "none", host |-> "none", low |-> 0, high |-> 0, vers |-> 0, h |-> NoHandle, errs |-> <<>>]

Init ==
  /\ fds = [f \in Fds |-> IF f = 0 THEN Stdin ELSE IF f < __rpc_minfd THEN "app" ELSE "free"]
  /\ handles = {} /\ rpc_createerr = "SUCCESS" /\ op = NoOp /\ rcp = NoRcp /\ pid = 1 /\ server \in Supported
  /\ closed = {} /\ last = NoEnd /\ calls = 0 /\ forks = 0

may(fault) == fault \in Faults
idle == op.pc = "idle"
handle(id) == CHOOSE h \in handles : h.id = id
(* CLNT_DESTROY: the descriptor is closed if the library opened it.        *)
closing(h) == IF h.closeit THEN [fds EXCEPT ![h.fd] = "free"] ELSE fds
end(u, s, h) == last' = [use |-> u, stat |-> s, host |-> op.host, low |-> op.low, high |-> op.high, vers |-> op.vers, h |-> h, errs |-> op.errs]

-----------------------------------------------------------------------------
(* __rpc_raise_fd(fd): the descriptor used, and the table after it.  The   *)
(* duplicate is given up unless fsync works on it, which a socket refuses. *)
lowest(S) == IF \E f \in S : fds[f] = "free" THEN CHOOSE f \in S : fds[f] = "free" /\ \A g \in S : g < f => fds[g] /= "free" ELSE -1
raised(fd, socket) ==
  IF fd >= __rpc_minfd \/ lowest(__rpc_minfd .. MaxFd) = -1 \/ socket \/ fds[fd] /= "sync" THEN fd
  ELSE lowest(__rpc_minfd .. MaxFd)

(* clnt_tli_create(RPC_ANYFD, nconf, ...): the descriptor opened, the      *)
(* error, if any, and what is closed after it.  For a netid na_cvt does    *)
(* not know, or semantics without a socket type, __rpc_nconf2fd returns 0. *)
odd_local(n) == n \notin {"udp", "tcp", "udp6", "tcp6"}
odd(n) == n \notin {"udp", "tcp", "udp6", "tcp6", "local"}
(* Without a netid that na_cvt does not know.                              *)
KnownNetids == \A i \in 1 .. Len(Netconf) : ~odd(Netconf[i])
tli_errors == {"SUCCESS"} \cup (IF may("family") THEN {"UNKNOWNHOST"} ELSE {}) \cup (IF may("connect") THEN {"SYSTEMERROR"} ELSE {})
tli_outcomes(n) ==
  IF odd(n) THEN [fd : {0}, stat : {IF fds[0] = "lib" THEN "SUCCESS" ELSE "SYSTEMERROR"}]
  ELSE {[fd |-> -1, stat |-> "SYSTEMERROR"] : x \in IF may("socket") \/ lowest(Fds) = -1 THEN {0} ELSE {}}
       \cup (IF lowest(Fds) = -1 THEN {} ELSE [fd : {lowest(Fds)}, stat : tli_errors])
err1(o, n) == LET f == raised(o.fd, ~odd(n)) IN [fds EXCEPT ![o.fd] = "free", ![f] = "free"]
clnt_tli_create(n, o) ==
  \/ /\ o.stat = "SUCCESS" /\ closed' = {}
     /\ LET f == raised(o.fd, TRUE) IN
        /\ fds' = [fds EXCEPT ![o.fd] = "free", ![f] = "lib"]
        /\ op' = [op EXCEPT !.pc = "made", !.i = @ + 1,
                            !.h = [id |-> calls, fd |-> f, closeit |-> TRUE, host |-> op.host, vers |-> op.vers, pid |-> pid]]
     /\ rpc_createerr' = rpc_createerr
  \/ /\ o.stat /= "SUCCESS" /\ o.fd /= -1
     /\ fds' = err1(o, n) /\ closed' = {f \in {o.fd} : fds[f] \in {"app", "sync"}}
     /\ rpc_createerr' = o.stat /\ op' = [op EXCEPT !.pc = "failed", !.i = @ + 1]
  \/ /\ o.fd = -1 /\ fds' = fds /\ closed' = {}
     /\ rpc_createerr' = o.stat /\ op' = [op EXCEPT !.pc = "failed", !.i = @ + 1]

(* clnt_tp_create_timed, with the error of __rpcb_findaddr_timed or with   *)
(* an address.  The handle a datagram search leaves is destroyed again:    *)
(* CLSET_SVC_ADDR wants an address as long as a sockaddr_storage.          *)
clnt_tp_create_timed(n) ==
  \/ /\ may("find") /\ \E e \in FindErrors : rpc_createerr' = e
     /\ op' = [op EXCEPT !.pc = "failed", !.i = @ + 1] /\ fds' = fds /\ closed' = {}
  \/ \E o \in tli_outcomes(n) : clnt_tli_create(n, o)

-----------------------------------------------------------------------------
(* clnt_create_timed: the netids in turn, until one has a handle.          *)
begin(use, host, low, high) ==
  /\ op' = [NoOp EXCEPT !.pc = "getconf", !.use = use, !.host = host, !.low = low, !.high = high, !.vers = high]
  /\ rpc_createerr' = "SUCCESS" /\ calls' = calls + 1
getconf ==
  /\ op.pc = "getconf" /\ op.i < Len(Netconf) /\ clnt_tp_create_timed(Netconf[op.i + 1])
  /\ last' = NoEnd /\ UNCHANGED <<handles, rcp, pid, server, calls, forks>>
saved(e) == IF e \in Unspecific THEN op.save ELSE e
failed ==
  /\ op.pc = "failed"
  /\ op' = [op EXCEPT !.pc = "getconf", !.save = saved(rpc_createerr), !.errs = Append(@, rpc_createerr)]
  /\ closed' = {} /\ last' = NoEnd /\ UNCHANGED <<fds, handles, rpc_createerr, rcp, pid, server, calls, forks>>
reported == IF rpc_createerr = "SUCCESS" THEN "UNKNOWNPROTO"
            ELSE IF rpc_createerr \in Unspecific /\ op.save /= "SUCCESS" THEN op.save ELSE rpc_createerr
no_more ==
  /\ op.pc = "getconf" /\ op.i = Len(Netconf) /\ rpc_createerr' = reported
  /\ end(op.use, reported, NoHandle) /\ op' = NoOp /\ closed' = {}
  /\ UNCHANGED <<fds, handles, rcp, pid, server, calls, forks>>
created ==
  /\ op.pc = "made" /\ handles' = handles \cup {op.h} /\ closed' = {}
  /\ \/ /\ op.use = "create" /\ end("create", "SUCCESS", op.h) /\ op' = NoOp /\ rcp' = rcp
     \/ /\ op.use = "vers" /\ last' = NoEnd /\ op' = [op EXCEPT !.pc = "negotiate"] /\ rcp' = rcp
     \/ /\ op.use = "rpc_call" /\ last' = NoEnd /\ op' = [op EXCEPT !.pc = "call"]
        /\ rcp' = [valid |-> op.host \notin LongHosts, client |-> op.h.id, pid |-> pid, vers |-> op.vers,
                   host |-> IF op.host \in LongHosts THEN rcp.host ELSE op.host]
  /\ UNCHANGED <<fds, rpc_createerr, pid, server, calls, forks>>

clnt_create(host, v) ==
  /\ idle /\ "create" \in Uses /\ calls < MaxCalls /\ begin("create", host, v, v) /\ last' = NoEnd /\ closed' = {}
  /\ UNCHANGED <<fds, handles, rcp, pid, server, forks>>

-----------------------------------------------------------------------------
(* clnt_create_vers_timed: a NULLPROC call with the highest version, then  *)
(* with lower ones for as long as the server reports a mismatch.           *)
clnt_create_vers(host, low, high) ==
  /\ idle /\ "vers" \in Uses /\ calls < MaxCalls /\ low <= high /\ begin("vers", host, low, high)
  /\ last' = NoEnd /\ closed' = {} /\ UNCHANGED <<fds, handles, rcp, pid, server, forks>>
lowest_of(S) == CHOOSE v \in S : \A w \in S : v <= w
highest_of(S) == CHOOSE v \in S : \A w \in S : w <= v
agreed ==
  /\ op.pc = "negotiate" /\ op.vers \in server /\ end("vers", "SUCCESS", op.h) /\ op' = NoOp /\ closed' = {}
  /\ UNCHANGED <<fds, handles, rpc_createerr, rcp, pid, server, calls, forks>>
next_high == IF highest_of(server) < op.vers THEN highest_of(server) ELSE op.vers - 1
next_low == IF lowest_of(server) > op.low THEN lowest_of(server) ELSE op.low
give_up(s) ==
  /\ rpc_createerr' = s /\ fds' = closing(op.h) /\ handles' = handles \ {op.h}
  /\ end("vers", s, NoHandle) /\ op' = NoOp
mismatch ==
  /\ op.pc = "negotiate" /\ op.vers \notin server /\ closed' = {}
  /\ \/ /\ op.vers > op.low /\ next_low <= next_high
        /\ op' = [op EXCEPT !.vers = next_high, !.low = next_low] /\ last' = NoEnd
        /\ UNCHANGED <<fds, handles, rpc_createerr>>
     \/ ~(op.vers > op.low /\ next_low <= next_high) /\ give_up("PROGVERSMISMATCH")
  /\ UNCHANGED <<rcp, pid, server, calls, forks>>
no_answer ==
  /\ op.pc = "negotiate" /\ may("call") /\ closed' = {} /\ give_up("TIMEDOUT")
  /\ UNCHANGED <<rcp, pid, server, calls, forks>>

-----------------------------------------------------------------------------
(* rpc_call: with the handle of the last call if it is one for the same    *)
(* things, else with a new one.                                            *)
cached_forked(host, v) == rcp.valid /\ rcp.vers = v /\ rcp.host = host
cached(host, v) == rcp.valid /\ rcp.pid = pid /\ rcp.vers = v /\ rcp.host = host
rpc_call(host, v) ==
  /\ idle /\ "rpc_call" \in Uses /\ calls < MaxCalls /\ last' = NoEnd /\ closed' = {}
  /\ \/ /\ cached(host, v) /\ calls' = calls + 1
        /\ op' = [NoOp EXCEPT !.pc = "call", !.use = "rpc_call", !.host = host, !.low = v, !.high = v, !.vers = v, !.h = handle(rcp.client)]
        /\ UNCHANGED <<fds, handles, rpc_createerr, rcp>>
     \/ /\ ~cached(host, v) /\ begin("rpc_call", host, v, v)
        /\ IF rcp.client /= 0
           THEN fds' = closing(handle(rcp.client)) /\ handles' = handles \ {handle(rcp.client)}
           ELSE UNCHANGED <<fds, handles>>
        /\ rcp' = [rcp EXCEPT !.valid = FALSE, !.client = 0, !.pid = pid]
  /\ UNCHANGED <<pid, server, forks>>
called ==
  /\ op.pc = "call" /\ \E s \in {"SUCCESS"} \cup (IF may("call") THEN {"TIMEDOUT"} ELSE {}) :
       /\ end("rpc_call", s, op.h) /\ rcp' = [rcp EXCEPT !.valid = (@ /\ s = "SUCCESS")]
  /\ op' = NoOp /\ closed' = {} /\ UNCHANGED <<fds, handles, rpc_createerr, pid, server, calls, forks>>
(* The thread ends: the handle of rpc_call goes with it.                   *)
rpc_call_destroy ==
  /\ idle /\ rcp /= NoRcp /\ rcp' = NoRcp /\ closed' = {} /\ last' = NoEnd
  /\ IF rcp.client /= 0 THEN fds' = closing(handle(rcp.client)) /\ handles' = handles \ {handle(rcp.client)}
     ELSE UNCHANGED <<fds, handles>>
  /\ UNCHANGED <<rpc_createerr, op, pid, server, calls, forks>>

-----------------------------------------------------------------------------
(* The application: a handle on a descriptor of its own, which is not      *)
(* closed with the handle; the end of a handle; a fork.                    *)
app_tli_create ==
  /\ idle /\ "tli" \in Uses /\ calls < MaxCalls /\ calls' = calls + 1 /\ lowest(Fds) /= -1 /\ last' = NoEnd /\ closed' = {}
  /\ fds' = [fds EXCEPT ![lowest(Fds)] = "app"]
  /\ \/ /\ rpc_createerr' = rpc_createerr
        /\ handles' = handles \cup {[NoHandle EXCEPT !.id = calls + 1, !.fd = lowest(Fds), !.pid = pid]}
     \/ /\ tli_errors /= {"SUCCESS"} /\ \E e \in tli_errors \ {"SUCCESS"} : rpc_createerr' = e
        /\ handles' = handles
  /\ UNCHANGED <<op, rcp, pid, server, forks>>
CLNT_DESTROY(h) ==
  /\ idle /\ h \in handles /\ h.id /= rcp.client /\ handles' = handles \ {h} /\ fds' = closing(h)
  /\ closed' = {f \in {h.fd} : fds[f] = "app" /\ closing(h)[f] = "free"} /\ last' = NoEnd
  /\ UNCHANGED <<rpc_createerr, op, rcp, pid, server, calls, forks>>
fork ==
  /\ idle /\ forks < MaxForks /\ forks' = forks + 1 /\ pid' = pid + 1 /\ last' = NoEnd /\ closed' = {}
  /\ UNCHANGED <<fds, handles, rpc_createerr, op, rcp, server, calls>>

-----------------------------------------------------------------------------
Begin == \E host \in Hosts :
           \/ \E v \in Versions : clnt_create(host, v) \/ rpc_call(host, v)
           \/ \E low, high \in Versions : clnt_create_vers(host, low, high)
Go == getconf \/ failed \/ no_more \/ created \/ agreed \/ mismatch \/ called
App == app_tli_create \/ (\E h \in handles : CLNT_DESTROY(h)) \/ fork \/ rpc_call_destroy
Next == Begin \/ Go \/ no_answer \/ App
Spec == Init /\ [][Next]_vars
(* The thread runs on; that a call is not answered is not promised.       *)
FairSpec == Spec /\ WF_vars(Go)

-----------------------------------------------------------------------------
(* A descriptor the library opened belongs to one handle that will close   *)
(* it, and such a handle has one: on no path is a descriptor left open,    *)
(* closed twice or shared.                                                 *)
NoLeak ==
  idle => LET own == {h \in handles : h.closeit} IN
    /\ {f \in Fds : fds[f] = "lib"} = {h.fd : h \in own}
    /\ \A g, h \in own : g.fd = h.fd => g = h
(* The library closes no descriptor that it did not open (madefd).         *)
ClosesOwn == closed = {}
(* The error of a creation that failed is the last one that says more than *)
(* that a name was not understood, if there was one (clnt_create_timed).   *)
SpecificError ==
  last.use \in {"create", "rpc_call"} /\ last.h = NoHandle =>
    LET telling == {k \in DOMAIN last.errs : last.errs[k] \notin Unspecific} IN
    telling /= {} => last.stat = last.errs[CHOOSE k \in telling : \A j \in telling : j <= k]
(* A negotiated handle is for the highest version of the range the server  *)
(* has, and a mismatch is reported only if it has none of them.            *)
HighestVersion ==
  last.use = "vers" =>
    /\ last.stat = "SUCCESS" => last.vers \in server /\ last.vers \in last.low .. last.high
                                 /\ \A v \in server : v <= last.high => v <= last.vers
    /\ last.stat = "PROGVERSMISMATCH" => ~\E v \in server : v >= last.low /\ v <= last.high
(* rpc_call calls with a handle for the host and version of this call that *)
(* this very process created.                                              *)
CallsOwn == last.use = "rpc_call" /\ last.h /= NoHandle => last.h.host = last.host /\ last.h.vers = last.vers /\ last.h.pid = pid
(* The library's descriptors are not the magic ones, while others are free *)
(* (the comment of __rpc_raise_fd).                                        *)
NotMagic == idle => \A f \in 0 .. __rpc_minfd - 1 : fds[f] = "lib" => ~\E g \in __rpc_minfd .. MaxFd : fds[g] = "free"
(* A creation, a negotiation or a call ends.                               *)
Ends == []<>idle
=============================================================================
