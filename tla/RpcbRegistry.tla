----------------------------- MODULE RpcbRegistry ----------------------------
(***************************************************************************)
(* The database of rpcbind: the registrations of versions 3 and 4          *)
(* (list_rbl) and those of version 2 (list_pml), which SET and UNSET of    *)
(* either protocol keep side by side; who may remove what; and the state   *)
(* files that a terminating rpcbind writes and a warm start reads.  The    *)
(* termination signals arrive at any instruction, so a SET or UNSET is as  *)
(* many steps as it changes lists.  Lookups are operators on the lists.    *)
(***************************************************************************)
EXTENDS Integers, Sequences, FiniteSets

CONSTANTS
  Transports,    \* netids rpcbind could start on, out of tcp, udp and local
  Callers,       \* [user, via]: via local sockets, the loopback interface or another host
  Insecure,      \* the option -i
  Progs, Vers, Netids, Addrs, \* of requests; address 0 is one without a port
  Mortal,        \* addresses whose server may die
  Signals,       \* whether rpcbind terminates, crashes and starts again
  Faults,        \* what may fail of the state files: "open", "disk", "unlink"
  MaxEntries     \* bound on the registrations of others

(* What the constants must satisfy; whoever instantiates them assumes it.  *)
RegistryAssumption ==
  Transports \subseteq {"tcp", "udp", "local"} /\ Insecure \in BOOLEAN /\ Signals \in BOOLEAN

RPCBPROG == 0
PMAPPORT == 111

VARIABLES list_rbl, list_pml,
          pc,              \* the request in progress
          RPCBFILE, PMAPFILE,
          dead,            \* addresses whose server is gone
          last             \* ghost: the lists when the last run ended, and how

vars == <<list_rbl, list_pml, pc, RPCBFILE, PMAPFILE, dead, last>>

Range(s) == {s[i] : i \in 1 .. Len(s)}
Keep(s, I) ==          \* the elements of s at the indices I, in their order
  LET nth(k) == CHOOSE i \in I : Cardinality({j \in I : j <= i}) = k
  IN [k \in 1 .. Cardinality(I) |-> s[nth(k)]]
First(I) == CHOOSE i \in I : \A j \in I : i <= j
Last(I)  == CHOOSE i \in I : \A j \in I : i >= j

-----------------------------------------------------------------------------
(* Names of transports.  Without a transport its name is empty.            *)
NoName == "empty"
tcptrans == IF "tcp" \in Transports THEN "tcp" ELSE NoName
udptrans == IF "udp" \in Transports THEN "udp" ELSE NoName
pmap_netid2ipprot(n) == IF n = tcptrans THEN "TCP" ELSE IF n = udptrans THEN "UDP" ELSE "none"
pmap_ipprot2netid(p) == IF p = "UDP" THEN udptrans ELSE tcptrans
strcasecmp(m, n) == m = n \/ {m, n} = {"udp", "UDP"}

(* find_service and find_service_pmap: the index of the entry, or 0.       *)
hit(I, exact) == IF exact /= {} THEN First(exact) ELSE IF I /= {} THEN Last(I) ELSE 0
find_service(l, p, v, n) ==
  LET I == {i \in 1 .. Len(l) : l[i].prog = p /\ strcasecmp(l[i].netid, n)}
  IN hit(I, {i \in I : l[i].vers = v})
find_service_pmap(l, p, v, prot) ==
  LET I == {i \in 1 .. Len(l) : l[i].prog = p /\ l[i].prot = prot}
  IN hit(I, {i \in I : l[i].vers = v})

(* is_bound and mergeaddr: add_bndlist turns checking off.                 *)
is_bound(n, a) == TRUE
rpcbproc_getaddr_com(p, v, n, onevers) ==
  LET i == find_service(list_rbl, p, v, n)
  IN IF i = 0 \/ (onevers /\ list_rbl[i].vers /= v) \/ ~is_bound(n, list_rbl[i].addr) THEN {}
     ELSE {list_rbl[i].addr}
pmapproc_getport(p, v, prot) ==
  LET i == find_service_pmap(list_pml, p, v, prot)
  IN IF i = 0 \/ ~is_bound(pmap_ipprot2netid(prot), list_pml[i].port) THEN {} ELSE {list_pml[i].port}

protofmly(n) == IF n = "local" THEN "loopback" ELSE "inet"
rpcbproc_getaddrlist_4_local(p, v, n) ==
  LET I == {i \in 1 .. Len(list_rbl) : list_rbl[i].prog = p /\ list_rbl[i].vers = v}
  IN IF \E i \in I : list_rbl[i].netid \notin Transports THEN {}
     ELSE {<<list_rbl[i].netid, list_rbl[i].addr>> :
             i \in {i \in I : protofmly(list_rbl[i].netid) = protofmly(n)}}

-----------------------------------------------------------------------------
(* init_transport for every transport, newest in front, and read_warmstart.*)
rbllist_add(v, n) == [prog |-> RPCBPROG, vers |-> v, netid |-> n, addr |-> PMAPPORT,
                      owner |-> "superuser", by |-> "root"]
own_pml(v, prot) == [prog |-> RPCBPROG, vers |-> v, prot |-> prot, port |-> PMAPPORT]
own_versions(n) == IF n = "local" THEN <<4, 3>> ELSE <<4, 3, 2>>
init_rbl(n) == IF n \in Transports
               THEN [k \in 1 .. Len(own_versions(n)) |-> rbllist_add(own_versions(n)[k], n)] ELSE <<>>
init_pml(n) == IF n \in Transports
               THEN [k \in 1 .. 3 |-> own_pml(own_versions(n)[k], pmap_netid2ipprot(n))] ELSE <<>>
own_rbl_list == init_rbl("tcp") \o init_rbl("udp") \o init_rbl("local")
own_pml_list == init_pml("tcp") \o init_pml("udp")

NoFile == [st |-> "none", l |-> <<>>]
idle   == [op |-> "idle"]
Init ==
  /\ list_rbl = own_rbl_list /\ list_pml = own_pml_list /\ pc = idle
  /\ RPCBFILE = NoFile /\ PMAPFILE = NoFile /\ dead = {}
  /\ last = [rbl |-> <<>>, pml |-> <<>>, how |-> "first"]

-----------------------------------------------------------------------------
(* check_access and getowner.                                              *)
check_access(c) == Insecure \/ c.via \in {"local", "loopback"}
getowner(c) ==
  IF c.via = "local" THEN (IF c.user = "root" THEN "superuser" ELSE c.user)
  ELSE IF c.via = "loopback" /\ c.user = "root" THEN "superuser"  \* a reserved port
  ELSE "unknown"

(* map_set: the registration, and add_pmaplist in the next step.           *)
map_set_any(c, r) ==
  IF Len(list_rbl) < Len(own_rbl_list) + MaxEntries /\ Len(list_pml) < Len(own_pml_list) + MaxEntries
  THEN /\ list_rbl' = Append(list_rbl, [prog |-> r.prog, vers |-> r.vers, netid |-> r.netid,
                                        addr |-> r.addr, owner |-> getowner(c), by |-> c.user])
       /\ pc' = [op |-> "add", reg |-> r]
  ELSE FALSE
map_set(c, r) ==
  LET i == find_service(list_rbl, r.prog, r.vers, r.netid)
  IN IF i /= 0 /\ list_rbl[i].vers = r.vers
     THEN pc' = [op |-> "reply", ans |-> list_rbl[i].addr = r.addr, proc |-> "SET"]
          /\ UNCHANGED list_rbl
     ELSE map_set_any(c, r)
Set(c, r) ==                                        \* RPCBPROC_SET, PMAPPROC_SET
  /\ pc = idle /\ check_access(c) /\ map_set(c, r)
  /\ UNCHANGED <<list_pml, RPCBFILE, PMAPFILE, dead, last>>
add_pmaplist ==
  LET r == pc.reg  prot == pmap_netid2ipprot(r.netid) IN
  /\ pc.op = "add"
  /\ list_pml' = IF prot = "none" \/ r.addr = 0 THEN list_pml
                 ELSE Append(list_pml, [prog |-> r.prog, vers |-> r.vers, prot |-> prot, port |-> r.addr])
  /\ pc' = [op |-> "reply", ans |-> TRUE, proc |-> "SET"]
  /\ UNCHANGED <<list_rbl, RPCBFILE, PMAPFILE, dead, last>>

(* RPCBPROC_UNSET of one transport or, with an empty name, of all;         *)
(* PMAPPROC_UNSET of TCP and then UDP.  map_unset removes one entry after  *)
(* another until one is somebody else's, and then leaves at once.          *)
Unset(c, p, v, todo, proc) ==
  /\ pc = idle /\ check_access(c)
  /\ pc' = [op |-> "unset", prog |-> p, vers |-> v, todo |-> todo, owner |-> getowner(c),
            by |-> c.user, proc |-> proc, found |-> FALSE, ans |-> FALSE]
  /\ UNCHANGED <<list_rbl, list_pml, RPCBFILE, PMAPFILE, dead, last>>
matches(e) ==
  e.prog = pc.prog /\ e.vers = pc.vers /\ (Head(pc.todo) = NoName \/ strcasecmp(Head(pc.todo), e.netid))
may_unset_any(e) == TRUE
may_unset(e) == pc.owner = "superuser" \/ pc.owner = e.owner
done(q, ans) ==
  IF Len(q.todo) > 1 THEN [q EXCEPT !.todo = Tail(@), !.found = FALSE, !.ans = @ \/ ans]
  ELSE [op |-> "reply", ans |-> q.ans \/ ans, proc |-> q.proc, prog |-> q.prog, vers |-> q.vers]
map_unset ==
  LET I == {i \in 1 .. Len(list_rbl) : matches(list_rbl[i])} IN
  /\ pc.op = "unset" /\ I /= {}
  /\ IF may_unset(list_rbl[First(I)])
     THEN list_rbl' = Keep(list_rbl, (1 .. Len(list_rbl)) \ {First(I)}) /\ pc' = [pc EXCEPT !.found = TRUE]
     ELSE pc' = done(pc, FALSE) /\ UNCHANGED list_rbl
  /\ UNCHANGED <<list_pml, RPCBFILE, PMAPFILE, dead, last>>
del_nothing == UNCHANGED list_pml
del_pmaplist ==
  LET n == Head(pc.todo)  prot == pmap_netid2ipprot(n)
  IN list_pml' = Keep(list_pml, {i \in 1 .. Len(list_pml) :
       \/ list_pml[i].prog /= pc.prog \/ list_pml[i].vers /= pc.vers
       \/ n /= NoName /\ list_pml[i].prot /= prot})
map_unset_end ==
  /\ pc.op = "unset" /\ ~\E i \in 1 .. Len(list_rbl) : matches(list_rbl[i])
  /\ IF pc.found THEN del_pmaplist ELSE UNCHANGED list_pml
  /\ pc' = done(pc, TRUE)
  /\ UNCHANGED <<list_rbl, RPCBFILE, PMAPFILE, dead, last>>

Reply == pc.op = "reply" /\ pc' = idle
         /\ UNCHANGED <<list_rbl, list_pml, RPCBFILE, PMAPFILE, dead, last>>

-----------------------------------------------------------------------------
(* A server dies; rpcbind terminates by a signal, or crashes; it starts    *)
(* again with -w.  write_struct truncates the file before it writes.       *)
Die(a) ==
  /\ a \notin dead /\ pc = idle /\ dead' = dead \cup {a}
  /\ UNCHANGED <<list_rbl, list_pml, pc, RPCBFILE, PMAPFILE, last>>

write_struct(old, l, fault) ==
  IF fault = "open" THEN old ELSE IF fault = "disk" THEN [st |-> "cut", l |-> <<>>]
  ELSE [st |-> "ok", l |-> l]
terminate(f1, f2) ==
  /\ Signals /\ pc.op /= "down" /\ pc' = [op |-> "down"]
  /\ RPCBFILE' = write_struct(RPCBFILE, list_rbl, f1) /\ PMAPFILE' = write_struct(PMAPFILE, list_pml, f2)
  /\ last' = [rbl |-> list_rbl, pml |-> list_pml,
              how |-> IF pc = idle /\ f1 = "none" /\ f2 = "none" THEN "terminated" ELSE "disturbed"]
  /\ list_rbl' = <<>> /\ list_pml' = <<>> /\ UNCHANGED dead
Crash ==
  /\ Signals /\ pc.op /= "down" /\ pc' = [op |-> "down"]
  /\ last' = [rbl |-> list_rbl, pml |-> list_pml, how |-> "crashed"]
  /\ list_rbl' = <<>> /\ list_pml' = <<>> /\ UNCHANGED <<RPCBFILE, PMAPFILE, dead>>
read_struct(f, fault) == IF fault = "unlink" THEN f ELSE NoFile
weeded(f) == Keep(f.l, {i \in 1 .. Len(f.l) : f.l[i].prog /= RPCBPROG})
read_warmstart(fault) ==
  /\ pc.op = "down" /\ pc' = idle
  /\ list_rbl' = own_rbl_list \o weeded(RPCBFILE)
  /\ list_pml' = own_pml_list \o weeded(PMAPFILE)
  /\ RPCBFILE' = read_struct(RPCBFILE, fault) /\ PMAPFILE' = read_struct(PMAPFILE, fault)
  /\ last' = [rbl |-> <<>>, pml |-> <<>>, how |-> "first"] /\ UNCHANGED dead

Regs == [prog : Progs, vers : Vers, netid : Netids, addr : Addrs]
PmapRegs == {r \in Regs : r.netid \in {tcptrans, udptrans} /\ r.addr /= 0}
SetAny   == \E c \in Callers, r \in Regs : Set(c, r)
UnsetAny == \E c \in Callers, p \in Progs, v \in Vers, n \in Netids : Unset(c, p, v, <<n>>, "RPCB")
pmapproc_change ==
  \/ \E c \in Callers, r \in PmapRegs : Set(c, r)
  \/ \E c \in Callers, p \in Progs, v \in Vers : Unset(c, p, v, <<tcptrans, udptrans>>, "PMAP")

(* The dispatchers: versions 3 and 4 share their procedures, and the other *)
(* procedures only read.                                                   *)
rpcb_service_3 == SetAny \/ UnsetAny
rpcb_service_4 == SetAny \/ UnsetAny
pmap_service   == pmapproc_change
Fault(f) == f = "none" \/ f \in Faults
Terminate == \E f1, f2 \in {"none", "open", "disk"} : Fault(f1) /\ Fault(f2) /\ terminate(f1, f2)
Start     == \E f \in {"none", "unlink"} : Fault(f) /\ read_warmstart(f)

Next ==
  \/ rpcb_service_3 \/ rpcb_service_4 \/ pmap_service \/ add_pmaplist \/ map_unset \/ map_unset_end \/ Reply
  \/ \E a \in Mortal : Die(a)
  \/ Terminate \/ Crash \/ Start
Spec == Init /\ [][Next]_vars

-----------------------------------------------------------------------------
(* One address at most for a program, version and transport, whatever was  *)
(* set, removed, saved and read back.                                      *)
OneAddress ==
  \A i, j \in 1 .. Len(list_rbl) :
    /\ list_rbl[i].prog = list_rbl[j].prog /\ list_rbl[i].vers = list_rbl[j].vers
    /\ strcasecmp(list_rbl[i].netid, list_rbl[j].netid)
    => i = j

(* Both protocols answer alike: GETPORT has a port if GETADDR over that    *)
(* transport has an address, and the same one, for versions that are       *)
(* registered and for those that are not.                                  *)
PortsAgree ==
  pc = idle => \A p \in Progs \cup {RPCBPROG}, v \in Vers \cup {2, 3, 4, 5}, prot \in {"TCP", "UDP"} :
    pmapproc_getport(p, v, prot) = rpcbproc_getaddr_com(p, v, pmap_ipprot2netid(prot), FALSE)

(* The conditions under which they do: both transports have a name, the    *)
(* requests name transports that rpcbind knows and never all of them,      *)
(* every address has a port, and no signal interrupts a request.           *)
PlainNames ==
  {"tcp", "udp"} \subseteq Transports /\ Netids \subseteq {"tcp", "udp", "local"} /\ 0 \notin Addrs /\ ~Signals
RegistrationsAgree == OneAddress /\ (PlainNames => PortsAgree)

(* Only the superuser removes a registration that has another owner, as    *)
(* long as rpcbind runs.                                                   *)
RemovesOwn ==
  pc.op = "unset" /\ pc'.op /= "down" => \A e \in Range(list_rbl) \ Range(list_rbl') :
    pc.owner = "superuser" \/ pc.owner = e.owner

registrations(l) == {e \in Range(l) : e.prog /= RPCBPROG}
(* A warm start has the registrations the previous run ended with if that  *)
(* one was terminated between two requests, and never one it did not have. *)
StartsWarm ==
  pc.op = "down" =>
    /\ registrations(list_rbl') \subseteq registrations(last.rbl)
    /\ registrations(list_pml') \subseteq registrations(last.pml)
    /\ last.how = "terminated" => /\ registrations(list_rbl') = registrations(last.rbl)
                                  /\ registrations(list_pml') = registrations(last.pml)
    /\ last.how = "crashed" => list_rbl' = own_rbl_list /\ list_pml' = own_pml_list

(* Both, where the state files that were read are gone.                    *)
RespectsOwners == RemovesOwn /\ ("unlink" \notin Faults => StartsWarm)
OwnersRespected == [][RespectsOwners]_vars

(* "Unset only if superuser or the owner itself" (rpcb_svc_com.c:264), and *)
(* the owner is who registered it.                                         *)
RemovedByOwner ==
  [][ pc.op = "unset" => \A e \in Range(list_rbl) \ Range(list_rbl') :
        pc.by = "root" \/ pc.by = e.by ]_vars

(* "destroys all mapping between the triple" of program, version and any   *)
(* protocol and ports (rpc_soc.3t:986): an UNSET that answers TRUE did.    *)
UnsetDestroysAll ==
  pc.op = "reply" /\ pc.proc = "PMAP" /\ pc.ans =>
    ~\E e \in Range(list_rbl) : /\ e.prog = pc.prog /\ e.vers = pc.vers
                                /\ e.netid \in {tcptrans, udptrans} \ {NoName}

(* "Remove a program, version to port mapping" (pmap_svc.c:104): no         *)
(* registration of a transport without ports goes.                         *)
PmapUnsetPorts ==
  [][ pc.op = "unset" /\ pc.proc = "PMAP" =>
        \A e \in Range(list_rbl) \ Range(list_rbl') : e.netid \in {"tcp", "udp", "UDP"} ]_vars

(* "catch the usual termination signals for graceful exit" (rpcbind.c:228):*)
(* what a terminated rpcbind hands to the next agrees with itself.         *)
HandsOverAgreeing ==
  [][ pc.op = "down" /\ last.how = "disturbed" => PortsAgree' ]_vars

(* Returns "" "if the address was not bound, i.e the server crashed"       *)
(* (check_bound.c:155): no address of a dead server is given out.          *)
NoDeadAddress ==
  \A p \in Progs, v \in Vers, n \in Netids : rpcbproc_getaddr_com(p, v, n, TRUE) \cap dead = {}

(* "return the addresses for all transports in the current transport       *)
(* family" (rpcb_svc_4.c:322): the list has every registration of it.      *)
AllAddresses ==
  \A n \in Transports, e \in Range(list_rbl) :
    e.netid \in Transports /\ protofmly(e.netid) = protofmly(n) =>
      <<e.netid, e.addr>> \in rpcbproc_getaddrlist_4_local(e.prog, e.vers, n)
=============================================================================
