------------------------------ MODULE SvcGeneric -----------------------------
(***************************************************************************)
(* How a server comes to its transports and programs: svc_create,          *)
(* svc_tp_create and svc_tli_create (svc_generic.c), rpc_reg and its       *)
(* dispatcher universal (svc_simple.c), with svc_reg and svc_unreg (svc.c) *)
(* and the part of rpcbind they use.  A program stands for a (prognum,     *)
(* versnum), a transport for its address.  Threads register; one more, the *)
(* server, runs svc_run and serves what rpc_reg registered.                *)
(***************************************************************************)
EXTENDS Integers, Sequences, FiniteSets

CONSTANTS
  Threads, Procs,
  Programs, SimplePrograms,   \* what svc_create and svc_tp_create, and what rpc_reg is called with
  Netconf,       \* netids of the one nettype, in the order of __rpc_getconf
  Dispatches,    \* dispatch routines of the application
  Stdin,         \* what descriptor 0 is at first: "app" or "free"
  Shape,         \* the words of the arguments of a procedure: "int" or "string"
  Faults,        \* what may fail: "socket", "bind", "xprt", "rpcb", "getargs", "result", "reply"
  Calls,         \* operations the application uses
  MaxFd, MaxCalls, MaxRequests   \* bounds: descriptors, calls, requests

Netids == {Netconf[i] : i \in DOMAIN Netconf}
(* What the constants must satisfy; whoever instantiates them assumes it.  *)
GenericAssumption ==
  /\ {MaxFd, MaxCalls, MaxRequests} \subseteq Nat /\ Stdin \in {"app", "free"} /\ "universal" \notin Dispatches
  /\ Shape \in [Procs \ {0} -> Seq({"int", "string"})] /\ Netconf \in Seq(Netids)
  /\ Threads \cap {"none", "server"} = {}

Fds == 0 .. MaxFd
BufWords == 3
Nowhere == 0   \* no transport

VARIABLES
  fds,           \* who has each descriptor: "free", "app" or "lib"
  xprts,         \* transports made so far: netid, descriptor, whether live
  xprtlist,      \* of svc_create: transports, newest first
  proglst,       \* of svc_simple.c, newest first
  xprtlist_lock, proglst_lock,
  callouts,      \* svc_head: program, netid, dispatch
  rpcb,          \* rpcbind: the transport registered for program and netid
  th,            \* the call each thread is in
  registered,    \* what calls have reported as registered, and svc_unreg not removed
  closed,        \* descriptors of the application the library closed in this step
  xdrbuf,        \* the words of the buffer of each netid: "zero", "data", a "pointer",
                 \* or one "kept" because its request's arguments were not freed
  server,        \* the request universal works on
  calls, requests

regvars == <<fds, xprts, xprtlist, proglst, callouts, rpcb>>
vars == <<fds, xprts, xprtlist, proglst, xprtlist_lock, proglst_lock, callouts, rpcb, th, registered, closed,
          xdrbuf, server, calls, requests>>

NoThread == "none"
NoWords == [w \in 1 .. BufWords |-> "zero"]
Idle == [pc |-> "idle", op |-> "none", prog |-> 0, disp |-> "none", proc |-> 0, i |-> 0, x |-> Nowhere, made |-> FALSE, ok |-> {},
         set |-> FALSE, id |-> 0]
Quiet == [pc |-> "idle", netid |-> "none", prog |-> 0, proc |-> 0, routine |-> 0, words |-> 0, buf |-> NoWords, outcome |-> "open"]

Init ==
  /\ fds = [f \in Fds |-> IF f = 0 THEN Stdin ELSE "free"] /\ xprts = <<>> /\ xprtlist = <<>> /\ proglst = <<>>
  /\ xprtlist_lock = NoThread /\ proglst_lock = NoThread
  /\ callouts = {} /\ rpcb = [k \in (Programs \cup SimplePrograms) \X Netids |-> Nowhere]
  /\ th = [t \in Threads |-> Idle] /\ registered = {} /\ closed = {}
  /\ xdrbuf = [n \in Netids |-> NoWords] /\ server = Quiet /\ calls = 0 /\ requests = 0

at(t, p) == th[t].pc = p
becomes(t, f) == th' = [th EXCEPT ![t] = f]
netid(t) == Netconf[th[t].i]
may(fault) == fault \in Faults

-----------------------------------------------------------------------------
(* svc_tli_create(RPC_ANYFD, nconf, NULL, 0, 0) with __binddynport, by its *)
(* outcome: the descriptor it got from __rpc_nconf2fd, and whether there   *)
(* is a transport.  For a netid na_cvt does not know that descriptor is 0, *)
(* whatever 0 is; __binddynport has no ports for local sockets.            *)
odd_local(n) == n \notin {"udp", "tcp", "udp6", "tcp6"}
odd(n) == n \notin {"udp", "tcp", "udp6", "tcp6", "local"}
KnownNetids == \A n \in Netids : ~odd(n)
lowest == IF \E f \in Fds : fds[f] = "free" THEN CHOOSE f \in Fds : fds[f] = "free" /\ \A g \in 0 .. f - 1 : fds[g] /= "free" ELSE -1
tli_outcomes(n) ==
  IF odd(n) THEN [fd : {0}, made : {fds[0] = "lib", FALSE}]
  ELSE IF lowest = -1 THEN {[fd |-> -1, made |-> FALSE]}
  ELSE {[fd |-> -1, made |-> FALSE] : x \in {0} \cap (IF may("socket") THEN {0} ELSE {})}
       \cup [fd : {lowest}, made : {m \in BOOLEAN : IF m THEN n /= "local" ELSE n = "local" \/ may("bind") \/ may("xprt")}]
freedata(o) == [fds EXCEPT ![o.fd] = "free"]
svc_tli_create(n, o) ==
  \/ /\ o.made /\ fds' = [fds EXCEPT ![o.fd] = "lib"] /\ closed' = {}
     /\ xprts' = Append(xprts, [netid |-> n, fd |-> o.fd, live |-> TRUE])
  \/ /\ ~o.made /\ o.fd /= -1 /\ fds' = freedata(o) /\ closed' = {f \in {o.fd} : fds[f] = "app"} /\ xprts' = xprts
  \/ ~o.made /\ o.fd = -1 /\ UNCHANGED <<fds, xprts>> /\ closed' = {}
(* SVC_DESTROY of a transport the library opened.                          *)
SVC_DESTROY_leak(x) == fds' = fds /\ xprts' = [xprts EXCEPT ![x].live = FALSE]
SVC_DESTROY(x) == fds' = [fds EXCEPT ![xprts[x].fd] = "free"] /\ xprts' = [xprts EXCEPT ![x].live = FALSE]

(* svc_tli_create on an open descriptor of the application, which it does  *)
(* not close when it fails.                                                *)
app_tli_create(n) ==
  /\ "tli" \in Calls /\ calls < MaxCalls /\ calls' = calls + 1 /\ lowest /= -1 /\ closed' = {}
  /\ \/ fds' = [fds EXCEPT ![lowest] = "lib"] /\ xprts' = Append(xprts, [netid |-> n, fd |-> lowest, live |-> TRUE])
     \/ (may("bind") \/ may("xprt")) /\ fds' = [fds EXCEPT ![lowest] = "app"] /\ xprts' = xprts
  /\ UNCHANGED <<xprtlist, proglst, xprtlist_lock, proglst_lock, callouts, rpcb, th, registered, xdrbuf, server, requests>>

-----------------------------------------------------------------------------
(* The three calls that register, for each netid in turn.                  *)
begin(t, op, p, d, q) ==
  /\ at(t, "idle") /\ op \in Calls /\ calls < MaxCalls /\ calls' = calls + 1
  /\ becomes(t, [Idle EXCEPT !.pc = "getconf", !.op = op, !.prog = p, !.disp = d, !.proc = q, !.id = calls + 1])
  /\ closed' = {} /\ UNCHANGED <<regvars, xprtlist_lock, proglst_lock, registered, xdrbuf, server, requests>>
svc_create(t, p, d) == begin(t, "svc_create", p, d, 0)
svc_tp_create(t, p, d) == begin(t, "svc_tp_create", p, d, 0)
rpc_reg(t, p, q) == begin(t, "rpc_reg", p, "universal", q)

(* The next netid; svc_create takes its lock for one netid, rpc_reg for    *)
(* all; svc_tp_create, on one nconf, has none.                             *)
free(t) == CASE th[t].op = "svc_create" -> xprtlist_lock = NoThread
             [] th[t].op = "rpc_reg" -> proglst_lock \in {NoThread, t}
             [] OTHER -> TRUE
getconf(t) ==
  /\ at(t, "getconf") /\ th[t].i < Len(Netconf) /\ ~(th[t].op = "svc_tp_create" /\ th[t].i > 0) /\ free(t)
  /\ \E j \in IF th[t].op = "svc_tp_create" THEN 1 .. Len(Netconf) ELSE {th[t].i + 1} :
       becomes(t, [th[t] EXCEPT !.pc = "find", !.i = j])
  /\ xprtlist_lock' = (IF th[t].op = "svc_create" THEN t ELSE xprtlist_lock)
  /\ proglst_lock' = (IF th[t].op = "rpc_reg" THEN t ELSE proglst_lock)
  /\ closed' = {} /\ UNCHANGED <<regvars, registered, xdrbuf, server, calls, requests>>
(* The call returns: what it reports as registered is its result.          *)
report(t) == registered \cup {[prog |-> th[t].prog, netid |-> n, disp |-> th[t].disp] : n \in th[t].ok}
unlocked(t) == IF proglst_lock = t THEN NoThread ELSE proglst_lock
return(t) ==
  /\ at(t, "getconf") /\ (th[t].i = Len(Netconf) \/ (th[t].op = "svc_tp_create" /\ th[t].i > 0))
  /\ registered' = report(t)
  /\ proglst_lock' = unlocked(t)
  /\ becomes(t, Idle) /\ closed' = {} /\ UNCHANGED <<regvars, xprtlist_lock, xdrbuf, server, calls, requests>>

(* The transport of that netid: one in the list, or a new one.             *)
known(t, n) ==
  CASE th[t].op = "svc_create" -> {xprtlist[k] : k \in {k \in DOMAIN xprtlist : xprts[xprtlist[k]].netid = n}}
    [] th[t].op = "rpc_reg" -> {proglst[k].x : k \in {k \in DOMAIN proglst : proglst[k].netid = n}}
    [] OTHER -> {}
skip_netid(t) ==
  /\ xprtlist_lock' = (IF xprtlist_lock = t THEN NoThread ELSE xprtlist_lock)
  /\ becomes(t, [th[t] EXCEPT !.pc = "getconf", !.made = FALSE])
find(t) ==
  /\ at(t, "find") /\ proglst_lock' = proglst_lock
  /\ \/ /\ known(t, netid(t)) /= {} /\ xprtlist_lock' = xprtlist_lock
        /\ becomes(t, [th[t] EXCEPT !.pc = "unset", !.x = CHOOSE x \in known(t, netid(t)) : TRUE, !.made = FALSE])
        /\ UNCHANGED <<fds, xprts>> /\ closed' = {}
     \/ /\ known(t, netid(t)) = {}
        /\ \E o \in tli_outcomes(netid(t)) :
             /\ svc_tli_create(netid(t), o)
             /\ \/ o.made /\ xprtlist_lock' = xprtlist_lock
                   /\ becomes(t, [th[t] EXCEPT !.pc = "unset", !.x = Len(xprts) + 1, !.made = TRUE])
                \/ ~o.made /\ skip_netid(t)
  /\ UNCHANGED <<xprtlist, proglst, callouts, rpcb, registered, xdrbuf, server, calls, requests>>

(* rpcb_unset; but not when rpc_reg has the program on that netid already, *)
(* and then svc_reg is not to call rpcb_set either.                        *)
already(t) == th[t].op = "rpc_reg" /\ \E k \in DOMAIN proglst : proglst[k].prog = th[t].prog /\ proglst[k].netid = netid(t)
rpcb_unset(t) ==
  /\ at(t, "unset") /\ rpcb' = (IF already(t) THEN rpcb ELSE [rpcb EXCEPT ![<<th[t].prog, netid(t)>>] = Nowhere])
  /\ becomes(t, [th[t] EXCEPT !.pc = "reg", !.set = ~already(t)]) /\ closed' = {}
  /\ UNCHANGED <<fds, xprts, xprtlist, proglst, xprtlist_lock, proglst_lock, callouts, registered, xdrbuf, server, calls, requests>>

(* svc_reg: the callout list, under its own lock, then rpcb_set.           *)
found(t) == {c \in callouts : c.prog = th[t].prog /\ c.netid = netid(t)}
svc_reg(t) ==
  /\ at(t, "reg") /\ closed' = {}
  /\ \/ /\ found(t) /= {} /\ \E c \in found(t) : c.disp /= th[t].disp
        /\ callouts' = callouts /\ becomes(t, [th[t] EXCEPT !.pc = "failed"])
     \/ /\ ~\E c \in found(t) : c.disp /= th[t].disp
        /\ callouts' = callouts \cup {[prog |-> th[t].prog, netid |-> netid(t), disp |-> th[t].disp]}
        /\ becomes(t, [th[t] EXCEPT !.pc = IF th[t].set THEN "set" ELSE "done"])
  /\ UNCHANGED <<fds, xprts, xprtlist, proglst, xprtlist_lock, proglst_lock, rpcb, registered, xdrbuf, server, calls, requests>>
(* rpcbind refuses a second address for a program.                         *)
rpcb_set(t) ==
  /\ at(t, "set") /\ closed' = {}
  /\ \/ /\ rpcb[<<th[t].prog, netid(t)>>] \in {Nowhere, th[t].x}
        /\ rpcb' = [rpcb EXCEPT ![<<th[t].prog, netid(t)>>] = th[t].x] /\ becomes(t, [th[t] EXCEPT !.pc = "done"])
     \/ /\ (rpcb[<<th[t].prog, netid(t)>>] \notin {Nowhere, th[t].x}) \/ may("rpcb")
        /\ rpcb' = rpcb /\ becomes(t, [th[t] EXCEPT !.pc = "failed"])
  /\ UNCHANGED <<fds, xprts, xprtlist, proglst, xprtlist_lock, proglst_lock, callouts, registered, xdrbuf, server, calls, requests>>

(* svc_reg failed: a transport made for this netid is destroyed.           *)
failed(t) ==
  /\ at(t, "failed") /\ closed' = {} /\ skip_netid(t) /\ proglst_lock' = proglst_lock
  /\ IF th[t].made THEN SVC_DESTROY(th[t].x) ELSE UNCHANGED <<fds, xprts>>
  /\ UNCHANGED <<xprtlist, proglst, callouts, rpcb, registered, xdrbuf, server, calls, requests>>
(* It succeeded: a new transport of svc_create enters its list, and every  *)
(* registration of rpc_reg enters proglst.                                 *)
enlist(t) == IF th[t].made THEN <<th[t].x>> \o xprtlist ELSE xprtlist
done(t) ==
  /\ at(t, "done") /\ closed' = {} /\ proglst_lock' = proglst_lock
  /\ xprtlist' = (IF th[t].op = "svc_create" THEN enlist(t) ELSE xprtlist)
  /\ proglst' = (IF th[t].op = "rpc_reg"
                 THEN <<[prog |-> th[t].prog, proc |-> th[t].proc, netid |-> netid(t), x |-> th[t].x, routine |-> th[t].id]>> \o proglst
                 ELSE proglst)
  /\ xprtlist_lock' = (IF xprtlist_lock = t THEN NoThread ELSE xprtlist_lock)
  /\ becomes(t, [th[t] EXCEPT !.pc = "getconf", !.made = FALSE, !.ok = @ \cup {netid(t)}])
  /\ UNCHANGED <<fds, xprts, callouts, rpcb, registered, xdrbuf, server, calls, requests>>

(* svc_unreg: rpcbind first, then the callouts.                            *)
svc_unreg(t, p) ==
  /\ at(t, "idle") /\ "svc_unreg" \in Calls /\ calls < MaxCalls /\ calls' = calls + 1
  /\ rpcb' = [k \in DOMAIN rpcb |-> IF k[1] = p THEN Nowhere ELSE rpcb[k]]
  /\ registered' = {r \in registered : r.prog /= p}
  /\ becomes(t, [Idle EXCEPT !.pc = "unreg", !.op = "svc_unreg", !.prog = p]) /\ closed' = {}
  /\ UNCHANGED <<fds, xprts, xprtlist, proglst, xprtlist_lock, proglst_lock, callouts, xdrbuf, server, requests>>
unreg(t) ==
  /\ at(t, "unreg") /\ callouts' = {c \in callouts : c.prog /= th[t].prog} /\ becomes(t, Idle) /\ closed' = {}
  /\ UNCHANGED <<fds, xprts, xprtlist, proglst, xprtlist_lock, proglst_lock, rpcb, registered, xdrbuf, server, calls, requests>>

-----------------------------------------------------------------------------
(* universal, called for a request of a program it is the dispatch of, on  *)
(* a transport of that netid.  Procedure 0 is answered at once; replies    *)
(* may fail.                                                               *)
sending == {"reply"} \cup IF may("reply") THEN {"unsent"} ELSE {}
request(n, p, q) ==
  /\ server.pc = "idle" /\ requests < MaxRequests /\ requests' = requests + 1
  /\ [prog |-> p, netid |-> n, disp |-> "universal"] \in callouts
  /\ IF q = 0 THEN \E o \in sending : server' = [Quiet EXCEPT !.outcome = o, !.prog = p, !.netid = n]
     ELSE server' = [Quiet EXCEPT !.pc = "lookup", !.netid = n, !.prog = p, !.proc = q]
  /\ closed' = {} /\ UNCHANGED <<regvars, xprtlist_lock, proglst_lock, th, registered, xdrbuf, calls>>
matches(k) == proglst[k].prog = server.prog /\ proglst[k].proc = server.proc /\ proglst[k].netid = server.netid
entry == {k \in DOMAIN proglst : matches(k)}
newest(S) == CHOOSE k \in S : \A j \in S : k <= j
(* memset clears sizeof (int) bytes of the buffer: its first word.         *)
cleaned(b) == [b EXCEPT ![1] = "zero"]
shape(q) == Shape[q]
(* The first n words are decoded.                                          *)
decoded(b, q, n) == [w \in 1 .. BufWords |-> IF w <= n THEN (IF shape(q)[w] = "int" THEN "data" ELSE "pointer") ELSE b[w]]
kept(b, q, n) == [w \in 1 .. BufWords |-> IF w <= n /\ shape(q)[w] = "string" THEN "kept" ELSE b[w]]
selected(k) == server.pc = "lookup" /\ proglst_lock = NoThread /\ k \in entry /\ k = newest(entry)
universal(k) ==
  /\ selected(k) /\ proglst_lock' = "server"
  /\ LET b == cleaned(xdrbuf[server.netid])
         n == Len(shape(server.proc)) IN
     /\ server' = [server EXCEPT !.pc = "run", !.routine = proglst[k].routine, !.words = n, !.buf = b]
     /\ xdrbuf' = [xdrbuf EXCEPT ![server.netid] = decoded(b, server.proc, n)]
  /\ closed' = {} /\ UNCHANGED <<regvars, xprtlist_lock, th, registered, calls, requests>>
(* svc_getargs fails at a word: those before it stay as they were decoded, *)
(* and svcerr_decode answers.                                              *)
svcerr_decode(k) ==
  /\ selected(k) /\ may("getargs")
  /\ \E n \in DOMAIN shape(server.proc) :
       LET b == cleaned(xdrbuf[server.netid])
           d == decoded(b, server.proc, n - 1) IN
       /\ server' = [server EXCEPT !.pc = "idle", !.words = n, !.buf = b, !.outcome = "decode"]
       /\ xdrbuf' = [xdrbuf EXCEPT ![server.netid] = kept(d, server.proc, n - 1)]
  /\ closed' = {} /\ UNCHANGED <<regvars, xprtlist_lock, proglst_lock, th, registered, calls, requests>>
never_registered ==
  /\ server.pc = "lookup" /\ proglst_lock = NoThread /\ entry = {}
  /\ server' = [server EXCEPT !.pc = "idle", !.outcome = "none"] /\ closed' = {}
  /\ UNCHANGED <<regvars, xprtlist_lock, proglst_lock, th, registered, xdrbuf, calls, requests>>
(* The routine has run.  Only after a reply are the arguments freed, and   *)
(* with them the pointers in the buffer.                                   *)
freeargs_none(b, q) == b
freeargs(b, q) == [w \in 1 .. BufWords |-> IF w \in DOMAIN shape(q) THEN (IF shape(q)[w] = "string" THEN "zero" ELSE b[w]) ELSE b[w]]
ended(outcome) ==
  /\ server.pc = "run" /\ server' = [server EXCEPT !.pc = "idle", !.outcome = outcome]
  /\ proglst_lock' = NoThread /\ closed' = {} /\ UNCHANGED <<regvars, xprtlist_lock, th, registered, calls, requests>>
svc_sendreply == ended("reply") /\ xdrbuf' = [xdrbuf EXCEPT ![server.netid] = freeargs(@, server.proc)]
not_freed == xdrbuf' = [xdrbuf EXCEPT ![server.netid] = kept(@, server.proc, server.words)]
reply_fails == may("reply") /\ ended("unsent") /\ not_freed
no_result == may("result") /\ ended("silent") /\ not_freed

-----------------------------------------------------------------------------
Begin(t) ==
  \/ \E p \in Programs, d \in Dispatches : svc_create(t, p, d) \/ svc_tp_create(t, p, d)
  \/ \E p \in SimplePrograms, q \in Procs \ {0} : rpc_reg(t, p, q)
  \/ \E p \in Programs \cup SimplePrograms : svc_unreg(t, p)
Register(t) ==
  \/ getconf(t) \/ return(t) \/ find(t) \/ rpcb_unset(t) \/ svc_reg(t) \/ rpcb_set(t) \/ failed(t) \/ done(t) \/ unreg(t)
Request == \E n \in Netids, p \in SimplePrograms, q \in Procs : request(n, p, q)
Serve ==
  \/ \E k \in DOMAIN proglst : universal(k) \/ svcerr_decode(k)
  \/ never_registered \/ svc_sendreply \/ reply_fails \/ no_result
Next ==
  \/ \E t \in Threads : Begin(t) \/ Register(t)
  \/ \E n \in Netids : app_tli_create(n)
  \/ Request \/ Serve
Spec == Init /\ [][Next]_vars
(* Threads go on, and svc_run goes on serving; the routines return.        *)
FairSpec == Spec /\ (\A t \in Threads : WF_vars(Register(t))) /\ WF_vars(Serve)

-----------------------------------------------------------------------------
quiet == \A t \in Threads : at(t, "idle")
(* What svc_create, svc_tp_create or rpc_reg reported as registered can be *)
(* called: rpcbind has the address of a live transport of that netid, and  *)
(* the callout list has the dispatch routine.                              *)
Reachable ==
  quiet => \A r \in registered :
    LET x == rpcb[<<r.prog, r.netid>>] IN
    /\ x /= Nowhere /\ xprts[x].live /\ xprts[x].netid = r.netid
    /\ r \in callouts
(* One handle of each netid for all services of svc_create, and one for    *)
(* all of rpc_reg, each of them live (svc_create's and rpc_reg's comments).*)
OneTransport ==
  /\ \A j, k \in DOMAIN xprtlist : xprts[xprtlist[j]].netid = xprts[xprtlist[k]].netid => j = k
  /\ \A j, k \in DOMAIN proglst : proglst[j].netid = proglst[k].netid => proglst[j].x = proglst[k].x
  /\ \A k \in DOMAIN xprtlist : xprts[xprtlist[k]].live
  /\ \A k \in DOMAIN proglst : xprts[proglst[k].x].live
(* A descriptor the library opened is that of a live transport: whichever  *)
(* netids and steps failed, none is left open without one.                 *)
NoLeak == quiet => {f \in Fds : fds[f] = "lib"} = {xprts[x].fd : x \in {x \in DOMAIN xprts : xprts[x].live}}
(* The library closes no descriptor that it did not open (madefd).         *)
ClosesOwn == closed = {}
(* No thread undoes what another registers: one dispatch routine for each  *)
(* program, nothing is unregistered, and rpcbind answers.                  *)
Undisturbed ==
  /\ "rpcb" \notin Faults /\ "svc_unreg" \notin Calls
  /\ (\A d, e \in Dispatches : d = e) /\ Programs \cap SimplePrograms = {}
Registrations ==
  OneTransport /\ NoLeak /\ ClosesOwn /\ (Undisturbed => Reachable)
(* The routine universal calls is the one registered last for the          *)
(* procedure, program and netid.                                           *)
CallsLatest ==
  server.pc = "run" =>
    \A k \in entry : proglst[k].routine <= server.routine
(* A string is decoded into a word that is zero, or has the pointer of an  *)
(* earlier request that failed after its arguments were decoded: what      *)
(* another word holds there would be taken for the place to decode to.     *)
(* Procedures of one netid share the buffer, so it holds for those that    *)
(* have their strings at the same places.                                  *)
Alike == \A p, q \in Procs \ {0} : \A w \in DOMAIN Shape[p] \cap DOMAIN Shape[q] : Shape[p][w] = Shape[q][w]
DecodesSafely ==
  Alike => \A w \in 1 .. server.words : shape(server.proc)[w] = "string" => server.buf[w] \in {"zero", "kept"}
(* Arguments are decoded into a clean buffer (universal's comment).        *)
CleanBuffer == \A w \in 1 .. server.words : server.buf[w] = "zero"
(* A request that reaches universal is for a procedure that is registered  *)
(* (universal's comment).                                                  *)
AlwaysRegistered == server.outcome /= "none"
(* A request is taken to its end: the lock rpc_reg holds is released.      *)
Served == []<>(server.pc = "idle")
=============================================================================
