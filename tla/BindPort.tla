------------------------------- MODULE BindPort ------------------------------
(***************************************************************************)
(* Binding a socket to a port: bindresvport_sa to a reserved one           *)
(* (bindresvport.c, the Linux version), __binddynport to one of the        *)
(* dynamic range (binddynport.c).  Threads share the statics port and      *)
(* startport under port_lock, and the blacklist under no lock at all;      *)
(* other processes bind and release ports meanwhile.  Port numbers are     *)
(* scaled down: the ranges are constants and u_int16_t is % PortMod.       *)
(***************************************************************************)
EXTENDS Integers, Sequences, FiniteSets

CONSTANTS
  Threads,
  LOWPORT, STARTPORT, ENDPORT,   \* of bindresvport.c
  DYNLOW, DYNEND,                \* LOWPORT and ENDPORT of binddynport.c
  PortMod,                       \* 65536
  Pid,                           \* getpid()
  Blacklist,                     \* lines of /etc/bindresvport.blacklist: a number, or NotAPort
  NotAPort,                      \* a comment, an empty or a malformed line
  Wanted,                        \* ports in the address a caller passes, 0 for an anonymous one
  Families,                      \* of the sockets: "inet", "local"
  MaxCalls, MaxOthers            \* bounds on calls, and on steps of other processes

(* What the constants must satisfy; whoever instantiates them assumes it.  *)
BindAssumption ==
  /\ {LOWPORT, STARTPORT, ENDPORT, DYNLOW, DYNEND, PortMod, Pid, MaxCalls, MaxOthers} \subseteq Nat
  /\ 0 < LOWPORT /\ LOWPORT < STARTPORT /\ STARTPORT <= ENDPORT /\ ENDPORT < DYNLOW /\ DYNLOW <= DYNEND /\ DYNEND < PortMod
  /\ Wanted \subseteq 0 .. PortMod - 1
  /\ Blacklist \ {NotAPort} \subseteq Nat /\ NotAPort \notin LOWPORT .. ENDPORT
  /\ "none" \notin Threads

Ports == 1 .. PortMod - 1
NPORTS == ENDPORT - STARTPORT + 1
DYNPORTS == DYNEND - DYNLOW + 1

VARIABLES
  blacklist_read, list,   \* list: the first list_size entries, as a set
  port, startport,        \* the statics of bindresvport_sa
  port_lock,              \* thread that holds it, or NoThread
  used,                   \* ports in use
  th,                     \* the call each thread is in
  last,                   \* the call that returned in this step
  calls, others

vars == <<blacklist_read, list, port, startport, port_lock, used, th, last, calls, others>>

NoThread == "none"
Idle == [pc |-> "idle", want |-> 0, af |-> "none", port |-> 0, i |-> 0, nports |-> 0, endport |-> 0, tried |-> {}]
NoResult == [proc |-> "none", want |-> 0, af |-> "none", res |-> "none", port |-> 0, tried |-> {}]

Init ==
  /\ blacklist_read = FALSE /\ list = {} /\ port = 0 /\ startport = STARTPORT /\ port_lock = NoThread
  /\ used \in SUBSET (LOWPORT .. DYNEND) /\ th = [t \in Threads |-> Idle] /\ last = NoResult
  /\ calls = 0 /\ others = 0

at(t, p) == th[t].pc = p
becomes(t, f) == th' = [th EXCEPT ![t] = f]
returned(t, proc, r, p) ==
  /\ becomes(t, Idle)
  /\ last' = [proc |-> proc, want |-> th[t].want, af |-> th[t].af, res |-> r, port |-> p, tried |-> th[t].tried]
(* bind(): to port 0 the kernel chooses a port, outside the reserved ones. *)
bind(p) == IF p = 0 THEN (ENDPORT + 1 .. PortMod - 1) \ used ELSE {p} \ used

-----------------------------------------------------------------------------
(* bindresvport_sa up to the lock.  The flag is tested and set before the  *)
(* file is read, and the list counts when it has been read.                *)
bindresvport_sa(t, want, af) ==
  /\ at(t, "idle") /\ calls < MaxCalls /\ calls' = calls + 1
  /\ becomes(t, [Idle EXCEPT !.pc = IF blacklist_read THEN "lock" ELSE "load", !.want = want, !.af = af])
  /\ last' = NoResult
  /\ UNCHANGED <<blacklist_read, list, port, startport, port_lock, used, others>>
load_blacklist(t) ==
  /\ at(t, "load") /\ blacklist_read' = TRUE /\ becomes(t, [th[t] EXCEPT !.pc = "read"]) /\ last' = NoResult
  /\ UNCHANGED <<list, port, startport, port_lock, used, calls, others>>
blacklisted == {l \in Blacklist \ {NotAPort} : l >= LOWPORT /\ l <= ENDPORT}
load_list(t) ==
  /\ at(t, "read") /\ list' = blacklisted /\ becomes(t, [th[t] EXCEPT !.pc = "lock"]) /\ last' = NoResult
  /\ UNCHANGED <<blacklist_read, port, startport, port_lock, used, calls, others>>

(* With the lock: getsockname, asked when the caller passes no address,    *)
(* may fail, and a family without ports is refused; otherwise the first    *)
(* port is the caller's, or one made of the process id.                    *)
locked(t) == port_lock = NoThread
refused(t) == port_lock' = NoThread
enter(t) ==
  /\ at(t, "lock") /\ locked(t)
  /\ \/ /\ th[t].want = 0 /\ refused(t) /\ returned(t, "resv", "EBADF", 0) /\ port' = port
     \/ /\ th[t].af \notin {"inet", "inet6"} /\ refused(t) /\ returned(t, "resv", "EPFNOSUPPORT", 0) /\ port' = port
     \/ /\ th[t].af \in {"inet", "inet6"} /\ port_lock' = t
        /\ port' = IF th[t].want = 0 THEN (Pid % NPORTS) + STARTPORT ELSE th[t].want
        /\ becomes(t, [th[t] EXCEPT !.pc = "try", !.i = 0, !.nports = ENDPORT - startport + 1, !.endport = ENDPORT])
        /\ last' = NoResult
  /\ UNCHANGED <<blacklist_read, list, startport, used, calls, others>>

next_port(p, end, start) == LET q == (p + 1) % PortMod IN IF q > end THEN start ELSE q
more(t) == at(t, "try") /\ th[t].i < th[t].nports
skip(t) ==
  /\ more(t) /\ port \in list
  /\ port' = next_port(port, th[t].endport, startport)
  /\ becomes(t, [th[t] EXCEPT !.i = @ + 1]) /\ last' = NoResult
  /\ UNCHANGED <<blacklist_read, list, startport, port_lock, used, calls, others>>
try(t) ==
  /\ more(t) /\ port \notin list /\ bind(port) = {}
  /\ port' = next_port(port, th[t].endport, startport)
  /\ becomes(t, [th[t] EXCEPT !.i = @ + 1, !.tried = @ \cup {port}]) /\ last' = NoResult
  /\ UNCHANGED <<blacklist_read, list, startport, port_lock, used, calls, others>>
bound(t) ==
  /\ more(t) /\ port \notin list
  /\ \E p \in bind(port) : used' = used \cup {p} /\ returned(t, "resv", "0", p)
  /\ port_lock' = NoThread /\ UNCHANGED <<blacklist_read, list, port, startport, calls, others>>
(* bind fails for another reason: the caller may not have such a port.     *)
denied(t) ==
  /\ more(t) /\ port \notin list /\ returned(t, "resv", "EACCES", 0) /\ port_lock' = NoThread
  /\ UNCHANGED <<blacklist_read, list, port, startport, used, calls, others>>
(* All tried: once in the life of the process, the ports below STARTPORT   *)
(* are added.                                                              *)
low_ports_from(t) == LOWPORT + (port % (STARTPORT - LOWPORT)) + 1
low_ports(t) == LOWPORT + (port % (STARTPORT - LOWPORT))
again(t) ==
  /\ at(t, "try") /\ th[t].i = th[t].nports /\ startport /= LOWPORT
  /\ startport' = LOWPORT /\ port' = low_ports(t)
  /\ becomes(t, [th[t] EXCEPT !.i = 0, !.endport = STARTPORT - 1, !.nports = STARTPORT - LOWPORT]) /\ last' = NoResult
  /\ UNCHANGED <<blacklist_read, list, port_lock, used, calls, others>>
in_use(t) ==
  /\ at(t, "try") /\ th[t].i = th[t].nports /\ startport = LOWPORT
  /\ returned(t, "resv", "EADDRINUSE", 0) /\ port_lock' = NoThread
  /\ UNCHANGED <<blacklist_read, list, port, startport, used, calls, others>>

-----------------------------------------------------------------------------
(* __binddynport: a socket that is bound already keeps its port, and       *)
(* getsockname or the family may end the call; the first port is a random  *)
(* one.                                                                    *)
dyn_ended(af, r) == last' = [NoResult EXCEPT !.proc = "dyn", !.af = af, !.res = r] /\ UNCHANGED <<port_lock, th>>
binddynport(t, af) ==
  /\ at(t, "idle") /\ calls < MaxCalls /\ calls' = calls + 1
  /\ \/ dyn_ended(af, "bound")
     \/ port_lock = NoThread /\ dyn_ended(af, "EBADF")
     \/ port_lock = NoThread /\ af \notin {"inet", "inet6"} /\ dyn_ended(af, "-1")
     \/ /\ port_lock = NoThread /\ af \in {"inet", "inet6"} /\ port_lock' = t /\ last' = NoResult
        /\ \E r \in 0 .. DYNPORTS - 1 :
             becomes(t, [Idle EXCEPT !.pc = "dyn", !.af = af, !.port = r + DYNLOW, !.nports = DYNPORTS])
  /\ UNCHANGED <<blacklist_read, list, port, startport, used, others>>
dyn_next(p) == IF p + 1 > DYNEND THEN DYNLOW ELSE p + 1
dyn_try(t) ==
  /\ at(t, "dyn") /\ th[t].i < th[t].nports /\ th[t].port \in used
  /\ becomes(t, [th[t] EXCEPT !.i = @ + 1, !.port = dyn_next(@), !.tried = @ \cup {th[t].port}]) /\ last' = NoResult
  /\ UNCHANGED <<blacklist_read, list, port, startport, port_lock, used, calls, others>>
dyn_bound(t) ==
  /\ at(t, "dyn") /\ th[t].i < th[t].nports /\ th[t].port \notin used
  /\ used' = used \cup {th[t].port} /\ returned(t, "dyn", "0", th[t].port) /\ port_lock' = NoThread
  /\ UNCHANGED <<blacklist_read, list, port, startport, calls, others>>
dyn_in_use(t) ==
  /\ at(t, "dyn") /\ th[t].i = th[t].nports /\ returned(t, "dyn", "EADDRINUSE", 0) /\ port_lock' = NoThread
  /\ UNCHANGED <<blacklist_read, list, port, startport, used, calls, others>>

(* bind fails for another reason, which ends the search.                   *)
dyn_denied(t) ==
  /\ at(t, "dyn") /\ th[t].i < th[t].nports /\ returned(t, "dyn", "EACCES", 0) /\ port_lock' = NoThread
  /\ UNCHANGED <<blacklist_read, list, port, startport, used, calls, others>>

(* Other processes.                                                        *)
Others ==
  /\ others < MaxOthers /\ others' = others + 1
  /\ \E p \in LOWPORT .. DYNEND : used' = (used \cup {p}) \ (used \cap {p})
  /\ last' = NoResult /\ UNCHANGED <<blacklist_read, list, port, startport, port_lock, th, calls>>

-----------------------------------------------------------------------------
Begin(t) == \/ \E want \in Wanted, af \in Families : bindresvport_sa(t, want, af)
            \/ \E af \in Families : binddynport(t, af)
Load(t) == load_blacklist(t) \/ load_list(t)
Step(t) == \/ enter(t) \/ skip(t) \/ try(t) \/ bound(t) \/ denied(t) \/ again(t) \/ in_use(t)
           \/ dyn_try(t) \/ dyn_bound(t) \/ dyn_in_use(t) \/ dyn_denied(t)
Next == (\E t \in Threads : Begin(t) \/ Load(t) \/ Step(t)) \/ Others
Spec == Init /\ [][Next]_vars
(* A thread that has the lock runs on.                                     *)
FairSpec == Spec /\ \A t \in Threads : WF_vars(Step(t))

-----------------------------------------------------------------------------
(* The state is a state of the C variables.                                *)
TypeOK ==
  /\ blacklist_read \in BOOLEAN /\ list \subseteq Nat /\ port \in 0 .. PortMod - 1
  /\ startport \in {STARTPORT, LOWPORT} /\ port_lock \in Threads \cup {NoThread} /\ used \subseteq Ports
(* Whatever other threads ask for meanwhile, an anonymous reserved port is *)
(* a reserved one, a dynamic port is of the dynamic range, and a port      *)
(* asked for, free and not blacklisted, is the one the socket gets         *)
(* (bindresvport_sa, __binddynport: port and startport are shared).        *)
OwnRange ==
  last.res = "0" =>
    \/ last.proc = "dyn" /\ last.port \in DYNLOW .. DYNEND
    \/ last.proc = "resv" /\ last.want = 0 /\ last.port \in LOWPORT .. ENDPORT
    \/ last.proc = "resv" /\ last.want /= 0 /\ (last.port = last.want \/ last.want \in last.tried \cup Blacklist)
(* A search says that every port is taken only when it has tried every     *)
(* port of its range that is not blacklisted; other errors of bind end it  *)
(* at once (bindresvport_sa, __binddynport).                               *)
TriesAll ==
  last.res = "EADDRINUSE" =>
    /\ last.proc = "resv" /\ last.want = 0 => LOWPORT .. ENDPORT \subseteq last.tried \cup Blacklist
    /\ last.proc = "dyn" => last.tried = DYNLOW .. DYNEND
(* No socket is bound to a blacklisted port (load_blacklist's comment)     *)
(* but while a thread is still reading the list, which no lock protects.   *)
NotBlacklisted ==
  last.proc = "resv" /\ last.res = "0" /\ last.port \in LOWPORT .. ENDPORT =>
    last.port \notin Blacklist \/ \E t \in Threads : at(t, "read")
(* A port comes from the range the caller may have, the search finds all   *)
(* ports taken only when all were tried, and no blacklisted port is bound  *)
(* once the list has been read.                                            *)
PortsInRange == TypeOK /\ OwnRange /\ TriesAll /\ NotBlacklisted
(* An anonymous port is one of STARTPORT .. ENDPORT (bindresvport.3t).     *)
DocumentedRange == last.proc = "resv" /\ last.res = "0" /\ last.want = 0 => last.port \in STARTPORT .. ENDPORT
(* The lock is released, whatever way the call ends.                       *)
LockReleased == []<>(port_lock = NoThread)
=============================================================================
