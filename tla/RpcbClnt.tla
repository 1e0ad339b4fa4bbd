------------------------------- MODULE RpcbClnt ------------------------------
(***************************************************************************)
(* How a client finds services (rpcb_clnt.c): threads get a handle to the  *)
(* rpcbind of a host, from the shared cache of its addresses or by         *)
(* resolving the name, and ask it in version 4, 3 or 2.  The cache lock is *)
(* read-held while a cached address is tried, and write-held only inside   *)
(* delete_cache and add_cache, which are single steps.                     *)
(***************************************************************************)
EXTENDS Integers, Sequences, FiniteSets

CONSTANTS
  Threads, Hosts, Netids,  \* netids out of "udp", "tcp", "udp6"
  Resolve,       \* [host -> sequence of the addresses of its name]
  Speaks,        \* [host -> versions its rpcbind serves]
  Registered,    \* hosts on which the program asked for is registered
  Ops,           \* the routines called: see Begin
  LoopNetid,     \* the netid local_rpcb falls back to, "none" if none
  CACHESIZE,
  Faults,        \* "connect", "timeout", "local", "resolve", "unresolvable"
  MaxOps         \* bound on the calls

LOCALHOST == "localhost"
Routines == {"findaddr", "findaddr_clpp", "gettime", "rmtcall", "set", "convert", "getmaps"}
(* There are finitely many threads, a cache has room, and names resolve to *)
(* sequences of addresses.                                                 *)
ASSUME CacheAssumption ==
  /\ CACHESIZE \in Nat \ {0} /\ IsFiniteSet(Threads)
  /\ Ops \subseteq Routines
  /\ \A h \in Hosts \cup {LOCALHOST} : Resolve[h] \in Seq(Nat)

VARIABLES
  front, cachesize,        \* the list of [host, netid, addr, uaddr]
  readers,                 \* threads with the read lock of rpcbaddr_cache_lock
  th,                      \* the threads
  live, kept,              \* client handles that exist, and those given to callers
  begun

vars == <<front, cachesize, readers, th, live, kept, begun>>

NoEntry == [host |-> "none", netid |-> "none", addr |-> 0, uaddr |-> FALSE]
(* h: version of the handle in use, 0 without one; h2: the version 2       *)
(* handle; targ: the caller wants the universal address, and uaddr: it got *)
(* it; cf: rpc_createerr, "old" until this call sets it.                   *)
Idle == [pc |-> "idle", op |-> "none", host |-> LOCALHOST, netid |-> "none", phase |-> "none", targ |-> FALSE,
         entry |-> NoEntry, h |-> 0, h2 |-> FALSE, uaddr |-> FALSE, cf |-> "old", res |-> "none"]

Init == /\ front = <<>> /\ cachesize = 0 /\ readers = {}
        /\ th = [t \in Threads |-> Idle] /\ live = 0 /\ kept = 0 /\ begun = 0

Elements(s) == {s[i] : i \in 1 .. Len(s)}
First(I) == CHOOSE i \in I : \A j \in I : i <= j
RemoveAt(s, i) == SubSeq(s, 1, i - 1) \o SubSeq(s, i + 1, Len(s))
cots(n) == n = "tcp"
inet(n) == n \in {"udp", "tcp"}

-----------------------------------------------------------------------------
(* The cache.                                                              *)
check_cache(l, h, n) ==
  LET I == {i \in 1 .. Len(l) : l[i].host = h /\ l[i].netid = n}
  IN IF I = {} THEN NoEntry ELSE l[First(I)]
delete_cache(l, a) ==
  LET I == {i \in 1 .. Len(l) : l[i].addr = a}
  IN IF I = {} THEN [l |-> l, n |-> cachesize] ELSE [l |-> RemoveAt(l, First(I)), n |-> cachesize - 1]
add_cache(l, e) ==
  IF cachesize < CACHESIZE THEN [l |-> <<e>> \o l, n |-> cachesize + 1]
  ELSE [l |-> <<e>> \o SubSeq(l, 1, Len(l) - 1), n |-> cachesize]

-----------------------------------------------------------------------------
(* getclnthandle.  A handle it returns speaks version 4.                   *)
go(t, r) == th' = [th EXCEPT ![t] = r]
lookup(r, host, netid, targ, phase) ==
  [r EXCEPT !.pc = "lookup", !.host = host, !.netid = netid, !.targ = targ, !.phase = phase,
            !.uaddr = FALSE, !.entry = NoEntry]

lookup_unlocked(t) ==
  /\ th[t].pc = "lookup"
  /\ LET e == check_cache(front, th[t].host, th[t].netid)
     IN go(t, [th[t] EXCEPT !.pc = IF e = NoEntry THEN "resolve" ELSE "cached", !.entry = e])
  /\ UNCHANGED <<front, cachesize, readers, live, kept, begun>>
rdlock(t) ==
  /\ th[t].pc = "lookup"
  /\ LET e == check_cache(front, th[t].host, th[t].netid)
     IN IF e = NoEntry THEN go(t, [th[t] EXCEPT !.pc = "resolve"]) /\ UNCHANGED readers
        ELSE go(t, [th[t] EXCEPT !.pc = "cached", !.entry = e]) /\ readers' = readers \cup {t}
  /\ UNCHANGED <<front, cachesize, live, kept, begun>>

(* Whether a handle can be made for an address, which may change.          *)
Creates == {TRUE} \cup (IF "connect" \in Faults THEN {FALSE} ELSE {})
with_handle(r, uaddr) ==
  IF r.phase = "v2" THEN [r EXCEPT !.pc = "got", !.h2 = TRUE]
  ELSE [r EXCEPT !.pc = "got", !.h = 4, !.uaddr = uaddr]
try_cached_locked(t) ==
  /\ th[t].pc = "cached"
  /\ \E ok \in Creates :
       IF ok THEN go(t, with_handle(th[t], th[t].targ /\ th[t].entry.uaddr)) /\ live' = live + 1
       ELSE go(t, [th[t] EXCEPT !.pc = "delete", !.cf = "SYSTEMERROR"]) /\ UNCHANGED live
  /\ UNCHANGED <<front, cachesize, readers, kept, begun>>
try_cached(t) ==
  /\ th[t].pc = "cached"
  /\ \E ok \in Creates :
       IF ok THEN go(t, with_handle(th[t], th[t].targ /\ th[t].entry.uaddr)) /\ live' = live + 1
       ELSE go(t, [th[t] EXCEPT !.pc = "delete", !.cf = "SYSTEMERROR"]) /\ UNCHANGED live
  /\ readers' = readers \ {t}
  /\ UNCHANGED <<front, cachesize, kept, begun>>
delete_outdated(t) ==
  /\ th[t].pc = "delete" /\ readers = {}
  /\ LET d == delete_cache(front, th[t].entry.addr) IN front' = d.l /\ cachesize' = d.n
  /\ go(t, [th[t] EXCEPT !.pc = "resolve"])
  /\ UNCHANGED <<readers, live, kept, begun>>

(* getaddrinfo and the loop over its addresses.                            *)
resolve(t) ==
  /\ th[t].pc = "resolve"
  /\ \/ /\ \E i \in 1 .. Len(Resolve[th[t].host]) :
             /\ (i > 1 => "connect" \in Faults)
             /\ go(t, [th[t] EXCEPT !.pc = "add",
                         !.entry = [host |-> th[t].host, netid |-> th[t].netid,
                                    addr |-> Resolve[th[t].host][i], uaddr |-> th[t].targ]])
        /\ live' = live + 1
     \/ /\ "connect" \in Faults /\ UNCHANGED live
        /\ go(t, [th[t] EXCEPT !.pc = "got", !.cf = "SYSTEMERROR"])
     \/ /\ "resolve" \in Faults /\ UNCHANGED live
        /\ go(t, [th[t] EXCEPT !.pc = "got", !.cf = "UNKNOWNHOST"])
  /\ UNCHANGED <<front, cachesize, readers, kept, begun>>
wrlock_add(t) ==
  /\ th[t].pc = "add" /\ readers = {}
  /\ LET a == add_cache(front, th[t].entry) IN front' = a.l /\ cachesize' = a.n
  /\ go(t, with_handle(th[t], th[t].targ))
  /\ UNCHANGED <<readers, live, kept, begun>>

-----------------------------------------------------------------------------
(* The routines.  A routine ends with the handle destroyed, or given to    *)
(* its caller (a datagram handle of findaddr with clpp).                   *)
Local == {"set", "convert"}        \* rpcb_unset is as rpcb_set here
Begin(t) ==
  /\ th[t].pc = "idle" /\ begun < MaxOps /\ begun' = begun + 1
  /\ \E op \in Ops, h \in Hosts, n \in Netids :
       /\ op = "rmtcall" => ~cots(n)
       /\ op \in Local <=> h = LOCALHOST
       /\ LET r == [Idle EXCEPT !.op = op] IN
          go(t, IF op \in Local THEN [r EXCEPT !.pc = "local", !.host = h, !.netid = n]
                ELSE lookup(r, h, n, op \in {"findaddr", "findaddr_clpp"}, "main"))
  /\ UNCHANGED <<front, cachesize, readers, live, kept>>

(* local_rpcb: the local socket in version 3, or the loopback interface.   *)
local_rpcb(t) ==
  /\ th[t].pc = "local"
  /\ \/ go(t, [th[t] EXCEPT !.pc = "got", !.h = 3]) /\ live' = live + 1
     \/ /\ "local" \in Faults /\ UNCHANGED live
        /\ go(t, IF LoopNetid = "none" THEN [th[t] EXCEPT !.pc = "got", !.cf = "UNKNOWNPROTO"]
                 ELSE lookup(th[t], LOCALHOST, LoopNetid, FALSE, "main"))
  /\ UNCHANGED <<front, cachesize, readers, kept, begun>>

(* How CLNT_CALL ends for a version.                                       *)
Low(h) == CHOOSE v \in Speaks[h] : \A w \in Speaks[h] : v <= w
Answers(h, v) ==
  (IF v \in Speaks[h] THEN {"SUCCESS"}
   ELSE IF Speaks[h] = {} THEN {"PROGUNAVAIL"}
   ELSE IF Low(h) > 4 THEN {"TOONEW"} ELSE {"PROGVERSMISMATCH"})
  \cup (IF "timeout" \in Faults THEN {"TIMEDOUT"} ELSE {})

(* The routine returns: n handles destroyed, unless one is kept.           *)
done(t, r, n) ==
  LET keeps == r.op = "findaddr_clpp" /\ r.res = "found" /\ r.h /= 0 /\ ~cots(r.netid) /\ r.phase = "main"
  IN /\ go(t, [Idle EXCEPT !.pc = "idle", !.op = r.op, !.targ = r.targ, !.uaddr = r.uaddr,
                           !.cf = r.cf, !.res = r.res])
     /\ kept' = IF keeps THEN kept + 1 ELSE kept
     /\ live' = IF keeps THEN live - n + 1 ELSE live - n
handles(r) == (IF r.h /= 0 THEN 1 ELSE 0) + (IF r.h2 THEN 1 ELSE 0)
return(t, res, cf) == done(t, [th[t] EXCEPT !.res = res, !.cf = cf], handles(th[t]))

retries(st) == st \in {"PROGVERSMISMATCH", "PROGUNAVAIL"}
(* One CLNT_CALL, st its result.  __rpcb_findaddr_timed goes down from     *)
(* version 4 to 3 and, on inet, asks version 2 over udp.                   *)
__rpcb_findaddr_timed(t, st) ==
  LET r == th[t] IN
  CASE st = "SUCCESS" ->
         IF r.host \in Registered
         THEN \/ return(t, "found", r.cf)
              \/ "unresolvable" \in Faults /\ return(t, "failed", "N2AXLATEFAILURE")
         ELSE return(t, "failed", "PROGNOTREGISTERED")
    [] st = "TOONEW" -> return(t, "failed", r.cf)
    [] st = "TIMEDOUT" -> return(t, "failed", st)
    [] retries(st) /\ r.h = 4 -> go(t, [r EXCEPT !.h = 3]) /\ UNCHANGED <<live, kept>>
    [] OTHER -> IF inet(r.netid) THEN go(t, lookup(r, r.host, "udp", TRUE, "v2")) /\ UNCHANGED <<live, kept>>
                ELSE return(t, "failed", "PROGNOTREGISTERED")
__try_protocol_version_2(t, st) ==
  IF st /= "SUCCESS" THEN return(t, "failed", "PMAPFAILURE")
  ELSE IF th[t].host \in Registered THEN return(t, "found", th[t].cf)
  ELSE return(t, "failed", "PROGNOTREGISTERED")
(* The others fall back to version 3 once.                                 *)
fall_back(t, st, cf) ==
  IF st = "SUCCESS" THEN return(t, "found", th[t].cf)
  ELSE IF (retries(st) \/ st = "TOONEW") /\ th[t].h = 4
       THEN go(t, [th[t] EXCEPT !.h = 3]) /\ UNCHANGED <<live, kept>>
  ELSE return(t, "failed", cf)
rpcb_getmaps(t, st) == fall_back(t, st, "RPCBFAILURE")
rpcb_gettime(t, st) == fall_back(t, st, th[t].cf)
rpcb_rmtcall(t, st) ==
  IF st = "SUCCESS" /\ "unresolvable" \in Faults THEN return(t, "failed", th[t].cf)
  ELSE fall_back(t, st, th[t].cf)
rpcb_set(t, st) == return(t, IF st = "SUCCESS" THEN "found" ELSE "failed", th[t].cf)
rpcb_taddr2uaddr(t, st) == return(t, IF st = "SUCCESS" THEN "found" ELSE "failed", th[t].cf)

(* The handle is there, or the routine gives up; rpcb_gettime tries        *)
(* another transport first.                                                *)
call(t) ==
  LET r == th[t] IN
  /\ r.pc = "got"
  /\ IF r.phase = "v2"
     THEN IF r.h2 THEN \E st \in Answers(r.host, 2) : __try_protocol_version_2(t, st)
          ELSE return(t, "failed", r.cf)
     ELSE IF r.h = 0
     THEN IF r.op = "gettime" /\ r.netid = "udp" /\ "tcp" \in Netids
          THEN go(t, lookup(r, r.host, "tcp", FALSE, "main")) /\ UNCHANGED <<live, kept>>
          ELSE return(t, "failed", r.cf)
     ELSE \E st \in Answers(r.host, r.h) :
            CASE r.op \in {"findaddr", "findaddr_clpp"} -> __rpcb_findaddr_timed(t, st)
              [] r.op = "set" -> rpcb_set(t, st)
              [] r.op = "convert" -> rpcb_taddr2uaddr(t, st)
              [] r.op = "gettime" -> rpcb_gettime(t, st)
              [] r.op = "rmtcall" -> rpcb_rmtcall(t, st)
              [] OTHER -> rpcb_getmaps(t, st)
  /\ UNCHANGED <<front, cachesize, readers, begun>>

Step(t) == \/ rdlock(t) \/ try_cached(t) \/ delete_outdated(t) \/ resolve(t) \/ wrlock_add(t)
           \/ local_rpcb(t) \/ call(t)
Next == \E t \in Threads : Begin(t) \/ Step(t)
Spec == Init /\ [][Next]_vars
(* Every thread runs, and connects and calls end.                          *)
FairSpec == Spec /\ \A t \in Threads : WF_vars(Step(t))

-----------------------------------------------------------------------------
(* Types.                                                                  *)
HostNames == Hosts \cup {LOCALHOST}
NetidNames == Netids \cup {LoopNetid, "udp", "tcp", "none"}
Entry == [host : HostNames \cup {"none"}, netid : NetidNames, addr : Nat, uaddr : BOOLEAN]
Createerrs == {"old", "SYSTEMERROR", "UNKNOWNHOST", "UNKNOWNPROTO", "N2AXLATEFAILURE",
               "PROGNOTREGISTERED", "TIMEDOUT", "PMAPFAILURE", "RPCBFAILURE"}
Thread ==
  [pc : {"idle", "local", "lookup", "cached", "delete", "resolve", "add", "got"},
   op : Routines \cup {"none"}, host : HostNames, netid : NetidNames, phase : {"none", "main", "v2"},
   targ : BOOLEAN, entry : Entry, h : {0, 3, 4}, h2 : BOOLEAN, uaddr : BOOLEAN, cf : Createerrs,
   res : {"none", "found", "failed"}]
TypeOK ==
  /\ front \in Seq(Entry) /\ cachesize \in Nat /\ readers \subseteq Threads
  /\ th \in [Threads -> Thread] /\ live \in Int /\ kept \in Nat /\ begun \in Nat

(* The number of entries is counted right and bounded, whoever adds and    *)
(* deletes at the same time.                                               *)
CacheBounded == cachesize = Len(front) /\ cachesize <= CACHESIZE

(* An address is not freed while a thread connects to it.                  *)
EntryHeld == \A t \in Threads : th[t].pc = "cached" => th[t].entry \in Elements(front)

(* Every handle is in use, with a caller, or destroyed.                    *)
HandlesAccounted ==
  live = kept + Cardinality({t \in Threads : th[t].h /= 0}) + Cardinality({t \in Threads : th[t].h2})
         + Cardinality({t \in Threads : th[t].pc = "add"})

(* Threads that look up and forget addresses together: the number of       *)
(* cached entries is right and bounded, no entry is freed under a thread   *)
(* that connects to it, and every handle is in use, given to the caller or *)
(* destroyed, whatever failed (rpcb_clnt.c).                               *)
AddressCacheSound == TypeOK /\ CacheBounded /\ EntryHeld /\ HandlesAccounted

(* Without faults, a registered program is found on every transport whose  *)
(* versions the host speaks.                                               *)
FindsRegistered ==
  \A t \in Threads :
    (/\ th[t].pc /= "idle" /\ th'[t].pc = "idle"
     /\ Faults = {} /\ th[t].op = "findaddr"
     /\ th[t].host \in Registered
     /\ \/ Speaks[th[t].host] \cap {3, 4} /= {}
        \/ 2 \in Speaks[th[t].host] /\ inet(th[t].netid))
    => th'[t].res = "found"
FoundIfRegistered == [][FindsRegistered]_vars

(* Every routine returns.                                                  *)
Returns == \A t \in Threads : []<>(th[t].pc = "idle")

(* "Assume this may be due to cache data being outdated" (rpcb_clnt.c:330):*)
(* the entry that did not connect is the one deleted.                      *)
OutdatedDeleted ==
  [][\A t \in Threads : delete_outdated(t) =>
       \A e \in Elements(front) \ Elements(front') : e.host = th[t].host /\ e.netid = th[t].netid]_vars

(* "the 'universal address' of the host will be stored in *targaddr"       *)
(* (rpcb_clnt.c:266): whoever wants it gets it with its handle.            *)
TargaddrStored ==
  \A t \in Threads : (th[t].pc = "got" /\ th[t].h = 4 /\ th[t].targ /\ th[t].phase = "main") => th[t].uaddr

(* "the global variable rpc_createerr ... contains the RPC status"         *)
(* (rpcbind.3t:79): a failed search has set it.                            *)
CreateerrSet ==
  \A t \in Threads : (th[t].pc = "idle" /\ th[t].op = "findaddr" /\ th[t].res = "failed") => th[t].cf /= "old"
=============================================================================
