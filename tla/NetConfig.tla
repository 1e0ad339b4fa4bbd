------------------------------ MODULE NetConfig ------------------------------
(***************************************************************************)
(* The network configuration database (getnetconfig.c, getnetpath.c and    *)
(* the selection of transports in rpc_generic.c).  Threads open sessions   *)
(* on one shared list, which grows as /etc/netconfig is read line by line  *)
(* by whoever comes to its end, and is freed with the last session.  Each  *)
(* routine of getnetconfig.c holds nc_db_lock and is one step.             *)
(***************************************************************************)
EXTENDS Integers, Sequences, FiniteSets

CONSTANTS
  File,          \* the lines: [kind, netid, sem, visible, fam, proto]
  Threads,
  NETPATH,       \* the components of the variable, <<"unset">> when it is unset
  Nettypes,      \* the network types asked for
  CanFail,       \* whether the file may fail to open
  MaxOpens       \* bound on the sessions opened

(* What the constants must satisfy; whoever instantiates them assumes it.  *)
FileAssumption ==
  /\ Len(File) \in Nat /\ Len(NETPATH) \in Nat
  /\ \A i \in 1 .. Len(File) : File[i].kind \in {"entry", "comment", "bad"}
  /\ IsFiniteSet(Threads) /\ CanFail \in BOOLEAN

VARIABLES
  nc_file,       \* lines read, -1 when the file is closed
  ni,            \* eof, ref and the list: lines of File, with the generation of the list
  session,       \* of every thread
  tsd,           \* the netids __rpc_getconfip keeps by thread
  copies,        \* netconfigs that getnetconfigent allocated and nobody freed
  opens

vars == <<nc_file, ni, session, tsd, copies, opens>>

Closed == [open |-> FALSE, type |-> "none", conf |-> FALSE, flag |-> 0, cur |-> 0, gen |-> 0,
           at |-> 0, chain |-> 0, seen |-> <<>>, missed |-> {}, ended |-> FALSE]
Init ==
  /\ nc_file = -1 /\ ni = [eof |-> FALSE, ref |-> 0, list |-> <<>>, gen |-> 0]
  /\ session = [t \in Threads |-> Closed]
  /\ tsd = [t \in Threads |-> [tcp |-> "none", udp |-> "none"]]
  /\ copies = 0 /\ opens = 0

First(I) == CHOOSE i \in I : \A j \in I : i <= j

-----------------------------------------------------------------------------
(* getnetconfig.c, on n = [file, ni].                                      *)
setnetconfig(n) ==
  [file |-> IF n.file = -1 THEN 0 ELSE n.file, ni |-> [n.ni EXCEPT !.ref = @ + 1]]
endnetconfig_eager(n) ==
  [file |-> -1, ni |-> [eof |-> FALSE, ref |-> n.ni.ref - 1, list |-> <<>>, gen |-> n.ni.gen + 1]]
endnetconfig(n) ==
  IF n.ni.ref > 1 THEN [n EXCEPT !.ni.ref = @ - 1]
  ELSE [file |-> -1, ni |-> [eof |-> FALSE, ref |-> 0, list |-> <<>>, gen |-> n.ni.gen + 1]]

(* A line has its seven fields, known semantics and flags.                 *)
parse_ncp(i) == File[i].kind = "entry"
(* The next line that is no comment, after the first k; 0 at the end.      *)
next_line(k) ==
  LET I == {i \in k + 1 .. Len(File) : File[i].kind /= "comment"} IN IF I = {} THEN 0 ELSE First(I)

(* getnetconfig of a session: the position in the list, 0 for NULL.        *)
getnetconfig(n, s) ==
  LET more == IF s.flag = 0 THEN n.ni.list /= <<>> ELSE s.cur /= 0 /\ s.cur < Len(n.ni.list)
      next == IF s.flag = 0 THEN 1 ELSE s.cur + 1
      i    == next_line(n.file)
      cur  == IF s.flag = 0 THEN 0 ELSE s.cur
  IN IF more THEN [n |-> n, cur |-> next, got |-> next]
     ELSE IF n.ni.eof THEN [n |-> n, cur |-> cur, got |-> 0]
     ELSE IF i = 0 THEN [n |-> [file |-> Len(File), ni |-> [n.ni EXCEPT !.eof = TRUE]], cur |-> cur, got |-> 0]
     ELSE IF ~parse_ncp(i) THEN [n |-> [n EXCEPT !.file = i], cur |-> cur, got |-> 0]
     ELSE [n |-> [file |-> i, ni |-> [n.ni EXCEPT !.list = Append(@, i)]],
           cur |-> Len(n.ni.list) + 1, got |-> Len(n.ni.list) + 1]

(* getnetconfigent: in the list, or in the file up to a line that does not *)
(* parse.                                                                  *)
getnetconfigent(n, netid) ==
  LET L == {n.ni.list[k] : k \in 1 .. Len(n.ni.list)}
      I == {i \in L : File[i].netid = netid}
      J == {i \in 1 .. Len(File) : /\ File[i].kind = "entry" /\ File[i].netid = netid
                                   /\ \A k \in 1 .. i : File[k].kind /= "bad"}
  IN IF I /= {} THEN First(I)
     ELSE IF L /= {} /\ n.ni.eof THEN 0
     ELSE IF J = {} THEN 0 ELSE First(J)
(* It opens the file for itself when the list cannot tell, and may fail to.*)
fopen_fails(n, netid) ==
  LET L == {n.ni.list[k] : k \in 1 .. Len(n.ni.list)}
  IN CanFail /\ netid /= "" /\ (\A i \in L : File[i].netid /= netid) /\ ~(L /= {} /\ n.ni.eof)

-----------------------------------------------------------------------------
(* Selection by network type.  A netpath session with NETPATH set has no   *)
(* session of getnetconfig.                                                *)
unset == NETPATH = <<"unset">>
by_path(type) == type \in {"netpath", "circuit_n", "datagram_n"}
circuit(f)  == f.sem \in {"cots", "cots_ord"}
datagram(f) == f.sem = "clts"
selected(f, type) ==
  /\ type /= "ip" => circuit(f) \/ datagram(f)
  /\ type \in {"visible", "circuit_v", "datagram_v"} => f.visible
  /\ by_path(type) /\ unset => f.visible              \* getnetpath
  /\ type \in {"circuit_v", "circuit_n", "tcp"} => circuit(f)
  /\ type \in {"datagram_v", "datagram_n", "udp"} => datagram(f)
  /\ type \in {"tcp", "udp"} => f.fam \in {"inet", "inet6"} /\ f.proto = type
  /\ type = "ip" => f.fam = "inet"                    \* __rpc_getconfip

N == [file |-> nc_file, ni |-> ni]
now(n) == nc_file' = n.file /\ ni' = n.ni

setnetpath(n) == IF unset THEN n ELSE endnetconfig(n)   \* won't need nc session
(* __rpc_setconf; __rpc_getconfip unless it knows its netids.  *)
__rpc_setconf(t) ==
  /\ ~session[t].open /\ opens < MaxOpens /\ opens' = opens + 1
  /\ \E type \in Nettypes :
       /\ type = "ip" => tsd[t].tcp = "none" /\ tsd[t].udp = "none"
       /\ LET conf == ~by_path(type) \/ unset
              n == setnetconfig(N)
          IN /\ now(IF by_path(type) THEN setnetpath(n) ELSE n)
             /\ session' = [session EXCEPT ![t] = [Closed EXCEPT !.open = TRUE, !.type = type,
                              !.conf = conf, !.gen = ni.gen]]
  /\ UNCHANGED <<tsd, copies>>
setconf_fails(t) ==       \* fopen fails
  /\ CanFail /\ ~session[t].open /\ nc_file = -1 /\ opens < MaxOpens
  /\ opens' = opens + 1 /\ UNCHANGED <<nc_file, ni, session, tsd, copies>>

entry(n, k) == File[n.ni.list[k]]
(* One turn of the loop of __rpc_getconf over getnetconfig: an entry that  *)
(* is not selected is passed over.                                         *)
__rpc_getconf(t) ==
  LET s == session[t] IN
  /\ s.open /\ s.conf /\ ~s.ended
  /\ LET g == getnetconfig(N, s)
         taken == g.got /= 0 /\ selected(entry(g.n, g.got), s.type)
     IN /\ now(g.n)
        /\ session' = [session EXCEPT ![t] = [s EXCEPT !.flag = 1, !.cur = g.cur,
             !.ended = g.got = 0,
             !.seen = IF taken THEN Append(@, g.n.ni.list[g.got]) ELSE @]]
  /\ UNCHANGED <<tsd, copies, opens>>
(* The same over getnetpath with NETPATH set: a copy of every valid        *)
(* component, and of those a chain with room for two.  An empty component  *)
(* is an invalid one: the loop measures all that is left of the variable.  *)
dup_ncp(n) == n + 1
getnetpath(t) ==
  LET s == session[t] IN
  /\ s.open /\ ~s.conf /\ ~s.ended
  /\ IF s.at = Len(NETPATH) THEN session' = [session EXCEPT ![t].ended = TRUE] /\ UNCHANGED copies
     ELSE \E opened \in BOOLEAN :
          LET netid == NETPATH[s.at + 1]
              i  == IF opened THEN getnetconfigent(N, netid) ELSE 0
              ok == i /= 0 /\ selected(File[i], s.type)
          IN /\ ~opened => fopen_fails(N, netid)
             /\ session' = [session EXCEPT ![t] = [s EXCEPT !.at = @ + 1,
                  !.chain = IF i = 0 THEN @ ELSE IF @ < 2 THEN @ + 1 ELSE 2,
                  !.seen = IF ok THEN Append(@, s.at + 1) ELSE @,
                  !.missed = IF opened THEN @ ELSE @ \cup {s.at + 1}]]
             /\ copies' = IF i = 0 THEN copies ELSE dup_ncp(copies)
  /\ UNCHANGED <<nc_file, ni, tsd, opens>>

__rpc_getconfip(s, p) ==
  LET I == {k \in 1 .. Len(s) : File[s[k]].proto = p}
  IN IF I = {} THEN "none" ELSE File[s[First(I)]].netid
(* __rpc_endconf, endnetpath, the end of __rpc_getconfip.  A caller may    *)
(* end before the entries do.                                              *)
freenetconfigent(s) == 1 .. s.chain
endnetpath(s) == copies - Cardinality(freenetconfigent(s))
__rpc_endconf(t) ==
  LET s == session[t] IN
  /\ s.open /\ (s.type = "ip" => s.ended)
  /\ IF s.conf THEN now(endnetconfig(N)) ELSE UNCHANGED <<nc_file, ni>>
  /\ copies' = endnetpath(s)
  /\ tsd' = IF s.type = "ip" THEN [tsd EXCEPT ![t] = [tcp |-> __rpc_getconfip(s.seen, "tcp"), udp |-> __rpc_getconfip(s.seen, "udp")]]
            ELSE tsd
  /\ session' = [session EXCEPT ![t] = Closed] /\ UNCHANGED opens

Next == \E t \in Threads : __rpc_setconf(t) \/ setconf_fails(t) \/ __rpc_getconf(t)
                           \/ getnetpath(t) \/ __rpc_endconf(t)
Spec == Init /\ [][Next]_vars

-----------------------------------------------------------------------------
(* The sessions of getnetconfig are counted, and the last one closes the   *)
(* file and frees the list.                                                *)
Counted ==
  /\ ni.ref = Cardinality({t \in Threads : session[t].open /\ session[t].conf})
  /\ ni.ref = 0 <=> nc_file = -1
  /\ ni.ref = 0 => ni.list = <<>> /\ ~ni.eof

(* The entry a session returned last is not freed while the session lives, *)
(* whatever others close.                                                  *)
EntryAlive ==
  \A t \in Threads : LET s == session[t] IN
     s.open /\ s.conf => s.gen = ni.gen /\ s.cur <= Len(ni.list)

(* What a session of a type returns: the lines of the file, or the         *)
(* components of NETPATH.                                                  *)
Entries == {i \in 1 .. Len(File) : File[i].kind = "entry"}
Named(p) == {i \in Entries : File[i].netid = p}
Positions(type) ==
  IF by_path(type) /\ ~unset
  THEN {k \in 1 .. Len(NETPATH) : /\ Named(NETPATH[k]) /= {}
                                  /\ selected(File[First(Named(NETPATH[k]))], type)}
  ELSE {i \in Entries : selected(File[i], type)}
Increasing(s) == \A j, k \in 1 .. Len(s) : j < k => s[j] < s[k]
Elements(s)   == {s[k] : k \in 1 .. Len(s)}

(* A session that came to the end returned every entry of its type once,   *)
(* in the order of the file (or of NETPATH), however sessions interleave,  *)
(* but the components of NETPATH it could not open the file for.           *)
EnumeratesAll ==
  \A t \in Threads : LET s == session[t] IN s.ended =>
     Increasing(s.seen) /\ Elements(s.seen) = Positions(s.type) \ s.missed

(* A line that does not parse ends an enumeration.                         *)
Parses == \A i \in 1 .. Len(File) : File[i].kind /= "bad"
SessionsSound == Counted /\ EntryAlive /\ (Parses => EnumeratesAll)

(* "releasing resources for reuse" (getnetpath.c:184): with all sessions   *)
(* ended, nothing they allocated is left.  A session that returned three   *)
(* entries leaves one: only the first and the last stay on the chain.      *)
NetpathFreed == (\A t \in Threads : ~session[t].open) => copies = 0
=============================================================================
