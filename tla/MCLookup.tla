------------------------------ MODULE MCLookup ------------------------------
(***************************************************************************)
(* Finding services: the client of rpcbind with its cache of addresses     *)
(* (RpcbClnt: versions and transports of hosts, a cache at its limit,      *)
(* faults) and the enumeration of the transports a host offers (NetConfig: *)
(* sessions of several threads, NETPATH, a damaged file). They share no    *)
(* state, so one behaviour moves one of them.                              *)
(***************************************************************************)
EXTENDS RpcbClnt, TLC

(* Host "b" has an address in common with "a"; each speaks other versions. *)
SameAddress == ("a" :> <<1>>) @@ ("b" :> <<1, 2>>) @@ ("localhost" :> <<3>>)
Mixed == ("a" :> {2}) @@ ("b" :> {3}) @@ ("localhost" :> {3, 4})

Cached == INSTANCE RpcbClnt WITH
  Hosts <- {"a", "b"}, Netids <- {"udp", "tcp"},
  Speaks <- [h \in {"a", "b", "localhost"} |-> {2, 3, 4}],
  Ops <- {"findaddr_clpp", "getmaps"}, Faults <- {"connect"}, MaxOps <- 3
Faulty == INSTANCE RpcbClnt WITH
  Netids <- {"udp", "tcp"},
  Ops <- {"findaddr", "findaddr_clpp", "gettime", "rmtcall", "set", "convert",
          "getmaps"},
  Faults <- {"connect", "timeout", "local", "resolve", "unresolvable"}

(* A file like the one the library is shipped with, and one with bad lines.*)
Line(n, s, v, f, p) ==
  [kind |-> "entry", netid |-> n, sem |-> s, visible |-> v, fam |-> f, proto |-> p]
Other(k) == [Line("", "", FALSE, "", "") EXCEPT !.kind = k]
Shipped == <<Other("comment"), Line("udp", "clts", TRUE, "inet", "udp"),
             Line("tcp", "cots_ord", TRUE, "inet", "tcp"), Other("comment"),
             Line("rawip", "raw", FALSE, "inet", ""),
             Line("local", "cots_ord", FALSE, "loopback", "")>>
Broken  == <<Other("bad"), Line("udp", "clts", TRUE, "inet", "udp"), Other("bad"),
             Line("tcp", "cots_ord", TRUE, "inet", "tcp")>>

VARIABLES part,  \* the component that moves in this behaviour
  nc_file, ni, session, tsd, copies, opens  \* NetConfig

Sessions == INSTANCE NetConfig WITH
  File <- Shipped, Threads <- {"t1", "t2", "t3"}, NETPATH <- <<"unset">>,
  Nettypes <- {"netpath", "tcp", "ip"}, CanFail <- TRUE, MaxOpens <- 3
Path == INSTANCE NetConfig WITH
  File <- Shipped, Threads <- {"t1", "t2"},
  NETPATH <- <<"tcp", "", "none", "udp", "local">>,
  Nettypes <- {"netpath", "datagram_n", "circuit_v", "visible", "udp"},
  CanFail <- TRUE, MaxOpens <- 3
Damaged == INSTANCE NetConfig WITH
  File <- Broken, Threads <- {"t1", "t2"}, NETPATH <- <<"unset">>,
  Nettypes <- {"netpath", "datagram_n", "circuit_n"}, CanFail <- TRUE,
  MaxOpens <- 3
NetconfigVars ==
  <<nc_file, ni, session, tsd, copies, opens>>

allVars == <<part, vars, NetconfigVars>>

MCInit ==
  /\ part \in {"versions", "cache", "faults", "sessions", "path", "damaged"}
  /\ Init
  /\ IF part = "damaged" THEN Damaged!Init ELSE IF part = "path" THEN Path!Init ELSE Sessions!Init

(* Each component takes its own steps; the others stay as they start.      *)
ClientStep ==
  /\ \/ part = "versions" /\ Next
     \/ part = "cache" /\ Cached!Next
     \/ part = "faults" /\ Faulty!Next
  /\ UNCHANGED <<part, NetconfigVars>>
NetconfigStep ==
  /\ \/ part = "sessions" /\ Sessions!Next
     \/ part = "path" /\ Path!Next
     \/ part = "damaged" /\ Damaged!Next
  /\ UNCHANGED <<part, vars>>

MCNext == ClientStep \/ NetconfigStep

(* The fairness of each component, as its module states it.                *)
MCSpec ==
  /\ MCInit /\ [][MCNext]_allVars
  /\ \A t \in Threads : WF_vars(\/ part = "versions" /\ Step(t)
                                \/ part = "faults" /\ Faulty!Step(t)
                                \/ part = "cache" /\ Cached!Step(t))

-----------------------------------------------------------------------------
ASSUME Sessions!FileAssumption /\ Path!FileAssumption /\ Damaged!FileAssumption

(* Every routine of the client returns, and without faults it finds what   *)
(* is registered on every transport whose versions the host speaks         *)
(* (__rpcb_findaddr_timed: the fall back from version 4 to 3 and 2).       *)
LookupsEnd ==
  /\ \A t \in Threads : []<>(t \in DOMAIN th => th[t].pc = "idle")
  /\ [][part = "versions" => FindsRegistered]_vars

(* Sessions of getnetconfig that interleave: they are counted and the last *)
(* one closes the file, no entry is freed under a session that returned it *)
(* last, and one that ended returned every entry of its type once and in   *)
(* order, but for those it could not open the file (getnetconfig.c,        *)
(* getnetpath.c, rpc_generic.c).                                           *)
SessionsSound ==
  /\ part \notin {"path", "damaged"} => Sessions!SessionsSound
  /\ part = "path" => Path!SessionsSound
  /\ part = "damaged" => Damaged!SessionsSound
=============================================================================
