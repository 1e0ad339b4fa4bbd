----------------------------- MODULE RpcbForward -----------------------------
(***************************************************************************)
(* The calls rpcbind forwards for its clients (CALLIT, which is broadcast, *)
(* and INDIRECT): the FINFO table that ties the answer of a service to the *)
(* request it was forwarded for, the private svc_run that tells answers    *)
(* from requests, and the statistics of forwarded calls.  Services answer  *)
(* late, twice or never.  Time is a counter of MAXTIME_OFF's unit.         *)
(***************************************************************************)
EXTENDS Integers, Sequences, FiniteSets

CONSTANTS
  NFORWARD,      \* slots of FINFO
  MAXTIME_OFF,   \* how long an answer is waited for
  XIDS,          \* number of transaction ids, a multiple of NFORWARD
  Boot,          \* the time at which rpcbind starts
  Horizon,       \* bound on the clock
  Forwarding,    \* the netids with a forwarding descriptor, in the order of rmthead
  list_rbl,      \* the registrations: [prog, vers, netid]
  Requests,      \* [addr, xid, type, vers, netid, prog, rvers, proc]; vers is rpcbind's
  Insecure,      \* the option -i
  Faults,        \* what may fail: see Failures, and "late", "twice", "error", "recv"
  MaxCalls       \* bound on the requests served

ASSUME ForwardAssumption ==
  /\ NFORWARD \in Nat \ {0} /\ XIDS \in Nat \ {0} /\ XIDS % NFORWARD = 0
  /\ NFORWARD < XIDS /\ Boot \in Nat /\ Horizon \in Nat /\ MaxCalls \in Nat
  /\ Forwarding \in Seq(STRING)        \* one descriptor for a netid
  /\ \A j, k \in 1 .. Len(Forwarding) : Forwarding[j] = Forwarding[k] => j = k

VARIABLES
  FINFO, lastxid, rpcb_rmtcalls,
  rmtinfo,       \* statistics by version of rpcbind
  now, served,   \* the clock and the number of requests served
  calls,         \* forwarded calls the services have not answered
  inbox,         \* answers that wait at the forwarding descriptors
  poll,          \* the iteration of my_svc_run: ready descriptors, found and pending answers
  sent           \* what the last step sent to callers: [to, xid, type, what, of]

vars == <<FINFO, lastxid, rpcb_rmtcalls, rmtinfo, now, served, calls, inbox, poll, sent>>

Slots  == 0 .. NFORWARD - 1
Order  == 1 .. Len(Forwarding)
ForwardNetids == {Forwarding[k] : k \in Order}
None   == [netid |-> ""]            \* no request
First(I) == CHOOSE i \in I : \A j \in I : i <= j

Free == [active |-> FALSE, of |-> None, forward_xid |-> 0, time |-> 0]
Init ==
  /\ FINFO = [i \in Slots |-> Free] /\ lastxid = 0 /\ rpcb_rmtcalls = 0
  /\ rmtinfo = [v \in 2 .. 4 |-> <<>>]
  /\ now = Boot /\ served = 0 /\ calls = {} /\ sent = {}
  /\ inbox = [n \in ForwardNetids |-> <<>>]
  /\ poll = [ready |-> {}, found |-> 0, pending |-> 0]

-----------------------------------------------------------------------------
(* The table.  F is FINFO; a slot that is freed keeps its time.            *)
Active(F) == {i \in Slots : F[i].active}
freed(F, I) == [i \in Slots |-> IF i \in I THEN [Free EXCEPT !.time = F[i].time] ELSE F[i]]
free_slot_by_index(F, n, i) ==
  IF F[i].active THEN [F |-> freed(F, {i}), n |-> n - 1] ELSE [F |-> F, n |-> n]
free_slot_by_xid(F, n, x) == free_slot_by_index(F, n, x % NFORWARD)

duplicate(F, r) ==
  {i \in Active(F) : /\ F[i].of.xid = r.xid /\ F[i].of.type = r.type
                     /\ F[i].of.vers = r.vers /\ F[i].of.addr = r.addr}
expired(F, I) == {i \in I \cap Active(F) : now - F[i].time > MAXTIME_OFF}
earliest(F) == First({j \in Slots : \A i \in Slots : F[j].time <= F[i].time})

next_xid(x) ==                     \* of the slot 0, never zero
  LET y == (x + NFORWARD) % XIDS IN IF (y + NFORWARD) % XIDS <= NFORWARD THEN NFORWARD ELSE y

(* The slot and the xid of the call, or new = FALSE for a duplicate.       *)
forward_register(r) ==
  LET dup  == duplicate(FINFO, r)
      upto == IF dup = {} THEN Slots ELSE {i \in Slots : i < First(dup)}
      old  == expired(FINFO, upto)
      F    == freed(FINFO, old)
      n    == rpcb_rmtcalls - Cardinality(old)
      gap  == Slots \ Active(F)
      j    == IF gap /= {} THEN First(gap) ELSE earliest(F)
      e    == free_slot_by_index(F, n, j)
      last == next_xid(IF lastxid = 0 THEN (now * NFORWARD) % XIDS ELSE lastxid)
  IN IF dup /= {}
     THEN [new |-> FALSE, F |-> [F EXCEPT ![First(dup)].time = now], n |-> n, xid |-> 0,
           last |-> IF lastxid = 0 THEN (now * NFORWARD) % XIDS ELSE lastxid]
     ELSE [new |-> TRUE, n |-> e.n + 1, xid |-> last + j, last |-> last,
           F |-> [e.F EXCEPT ![j] = [active |-> TRUE, of |-> r, forward_xid |-> last + j,
                                     time |-> now]]]

forward_find_slot(F, x) == {i \in {x % NFORWARD} : F[i].active}
forward_find(F, x) == {i \in {x % NFORWARD} : F[i].active /\ F[i].forward_xid = x}

-----------------------------------------------------------------------------
(* What a request is refused for before it gets a slot, and after.         *)
RPCBPROG == "rpcbind"
Guarded  == {"nfs", "mount"}       \* programs check_callit protects
check_callit(r) == \/ r.proc = 0
                   \/ r.prog = RPCBPROG /\ Insecure
                   \/ r.prog \notin {RPCBPROG} \cup Guarded

find_service(r) ==
  LET I == {i \in 1 .. Len(list_rbl) : list_rbl[i].prog = r.prog /\ list_rbl[i].netid = r.netid}
      E == {i \in I : list_rbl[i].vers = r.rvers}
  IN IF E /= {} THEN First(E) ELSE IF I = {} THEN 0 ELSE CHOOSE i \in I : \A j \in I : i >= j
found(r) == find_service(r) /= 0 /\ list_rbl[find_service(r)].vers = r.rvers

find_rmtcallfd_by_netid(n) == n \in ForwardNetids

BeforeSlot == {"sockinfo", "args", "merge", "conf", "local"}
AfterSlot  == {"callhdr", "flavor", "marshal", "taddr", "send"}
(* Why a request gets no slot, "" when it does.  A fault strikes where it  *)
(* can.                                                                    *)
refusal(r, fault) ==
  CASE fault = "sockinfo" -> "systemerr"
    [] fault /= "sockinfo" /\ r.netid = "tcp" -> "quiet"
    [] fault = "args" /\ r.netid /= "tcp" -> "decode"
    [] OTHER -> IF ~check_callit(r) THEN "weakauth"
                ELSE IF find_service(r) = 0 THEN "noprog"
                ELSE IF ~found(r) THEN "progvers"
                ELSE IF fault = "merge" /\ r.type = "INDIRECT" THEN "noprog"
                ELSE IF fault = "conf" THEN "systemerr"
                ELSE IF fault = "local" THEN "quiet"
                ELSE IF ~find_rmtcallfd_by_netid(r.netid) THEN "systemerr" ELSE ""

error_after(fault) == IF fault = "flavor" THEN "weakauth" ELSE "systemerr"

answered(r, what, of) ==
  {[to |-> r.addr, xid |-> r.xid, type |-> r.type, what |-> what, of |-> of]}
(* svcerr_weakauth after check_callit is sent to broadcasts as well.       *)
complaint(r, what) ==
  IF what /= "quiet" /\ (r.type = "INDIRECT" \/ (what = "weakauth" /\ ~check_callit(r)))
  THEN answered(r, what, None) ELSE {}

(* rpcbs_rmtcall, for a request check_callit allows.                       *)
rpcbs_rmtcall(r) ==
  LET l == rmtinfo[r.vers]
      I == {k \in 1 .. Len(l) : l[k].prog = r.prog /\ l[k].vers = r.rvers
                                /\ l[k].proc = r.proc /\ l[k].netid = r.netid}
      s == IF found(r) THEN 1 ELSE 0
      d == IF r.type = "INDIRECT" THEN 1 ELSE 0
  IN IF I /= {}
     THEN [rmtinfo EXCEPT ![r.vers][First(I)].success = @ + s,
                          ![r.vers][First(I)].failure = @ + 1 - s,
                          ![r.vers][First(I)].indirect = @ + d]
     ELSE [rmtinfo EXCEPT ![r.vers] = <<[prog |-> r.prog, vers |-> r.rvers, proc |-> r.proc,
             netid |-> r.netid, success |-> s, failure |-> 1 - s, indirect |-> 1]>> \o @]
counts(r, fault) == fault \notin {"sockinfo", "args"} /\ r.netid /= "tcp" /\ check_callit(r)

Serving == poll.ready = {} \/ poll.found >= poll.pending
rpcbproc_callit_com(r, fault) ==
  /\ Serving /\ served < MaxCalls /\ served' = served + 1
  /\ rmtinfo' = IF counts(r, fault) THEN rpcbs_rmtcall(r) ELSE rmtinfo
  /\ UNCHANGED <<now, inbox, poll>>
  /\ LET why == refusal(r, fault) IN
     IF why /= "" THEN sent' = complaint(r, why)
                       /\ UNCHANGED <<FINFO, lastxid, rpcb_rmtcalls, calls>>
     ELSE LET reg == forward_register(r)
              rel == free_slot_by_xid(reg.F, reg.n, reg.xid)
          IN /\ lastxid' = reg.last
             /\ IF reg.new /\ fault \in AfterSlot
                THEN /\ FINFO' = rel.F /\ rpcb_rmtcalls' = rel.n /\ UNCHANGED calls
                     /\ sent' = complaint(r, error_after(fault))
                ELSE /\ FINFO' = reg.F /\ rpcb_rmtcalls' = reg.n /\ sent' = {}
                     /\ calls' = IF reg.new THEN calls \cup {[xid |-> reg.xid, of |-> r, again |-> FALSE]} ELSE calls

-----------------------------------------------------------------------------
(* The services, the network and the clock.                                *)
Arrives(c, what) == inbox' = [inbox EXCEPT ![c.of.netid] = Append(@, [xid |-> c.xid, of |-> c.of, what |-> what])]
Unserved == sent' = {} /\ UNCHANGED <<FINFO, lastxid, rpcb_rmtcalls, rmtinfo, now, served, poll>>
Answer == \E c \in calls : /\ Arrives(c, "result") /\ calls' = calls \ {c} /\ Unserved
AnswerFails == \E c \in calls : /\ "error" \in Faults
                                /\ Arrives(c, "error") /\ calls' = calls \ {c} /\ Unserved
AnswerTwice == \E c \in calls : /\ "twice" \in Faults /\ ~c.again
                                /\ Arrives(c, "result") /\ Unserved
                                /\ calls' = (calls \ {c}) \cup {[c EXCEPT !.again = TRUE]}
Tick == /\ "late" \in Faults /\ now < Horizon /\ now' = now + 1 /\ sent' = {}
        /\ UNCHANGED <<FINFO, lastxid, rpcb_rmtcalls, rmtinfo, served, calls, inbox, poll>>

-----------------------------------------------------------------------------
(* my_svc_run: one iteration takes one datagram from every ready           *)
(* descriptor, as an answer until as many were found as calls were pending *)
(* (check_rmtcalls), then as a request (svc_getreq_poll), which an answer  *)
(* is not.                                                                 *)
my_svc_run ==
  /\ poll.ready = {} /\ \E n \in ForwardNetids : inbox[n] /= <<>>
  /\ poll' = [ready |-> {k \in Order : inbox[Forwarding[k]] /= <<>>},
              found |-> 0, pending |-> rpcb_rmtcalls]
  /\ sent' = {} /\ UNCHANGED <<FINFO, lastxid, rpcb_rmtcalls, rmtinfo, now, served, calls, inbox>>

taken(k, more) == /\ poll' = [poll EXCEPT !.ready = @ \ {k}, !.found = @ + more]
                  /\ inbox' = [inbox EXCEPT ![Forwarding[k]] = Tail(@)]

reply_to(fi, d) == IF d.what = "error" THEN complaint(FINFO[fi].of, "systemerr")
                   ELSE answered(FINFO[fi].of, "result", d.of)
handle_reply_silent(d) ==
  /\ LET e == free_slot_by_xid(FINFO, rpcb_rmtcalls, d.xid) IN FINFO' = e.F /\ rpcb_rmtcalls' = e.n
  /\ sent' = {}
handle_reply(d) ==
  /\ sent' = UNION {reply_to(fi, d) : fi \in forward_find(FINFO, d.xid)}
  /\ LET e == free_slot_by_xid(FINFO, rpcb_rmtcalls, d.xid) IN FINFO' = e.F /\ rpcb_rmtcalls' = e.n

check_rmtcalls ==
  /\ poll.ready /= {} /\ poll.found < poll.pending
  /\ LET k == First(poll.ready) IN taken(k, 1) /\ handle_reply(Head(inbox[Forwarding[k]]))
  /\ UNCHANGED <<lastxid, rmtinfo, now, served, calls>>
(* recvfrom or xdr_replymsg fails: reply_msg.rm_xid holds any value.       *)
handle_reply_fails ==
  /\ "recv" \in Faults /\ poll.ready /= {} /\ poll.found < poll.pending
  /\ taken(First(poll.ready), 1)
  /\ \E x \in 0 .. NFORWARD :      \* zero is left alone
       LET e == IF x = 0 THEN [F |-> FINFO, n |-> rpcb_rmtcalls]
                ELSE free_slot_by_xid(FINFO, rpcb_rmtcalls, x)
       IN FINFO' = e.F /\ rpcb_rmtcalls' = e.n
  /\ sent' = {} /\ UNCHANGED <<lastxid, rmtinfo, now, served, calls>>
svc_getreq_poll ==
  /\ poll.ready /= {} /\ poll.found >= poll.pending
  /\ taken(First(poll.ready), 0)
  /\ sent' = {} /\ UNCHANGED <<FINFO, lastxid, rpcb_rmtcalls, rmtinfo, now, served, calls>>

Callit == \E r \in Requests, f \in ({""} \cup (Faults \cap (BeforeSlot \cup AfterSlot))) :
            rpcbproc_callit_com(r, f)
Run == my_svc_run \/ check_rmtcalls \/ svc_getreq_poll
Next == Callit \/ Answer \/ AnswerFails \/ AnswerTwice \/ Tick \/ Run \/ handle_reply_fails

Spec == Init /\ [][Next]_vars
(* Services answer and rpcbind runs.                                       *)
FairSpec == Spec /\ WF_vars(Answer) /\ WF_vars(Run)

-----------------------------------------------------------------------------
(* The table has its type, xids stay below XIDS, and where my_svc_run saw  *)
(* a descriptor ready there is an answer to read.                          *)
TypeOK ==
  /\ FINFO \in [Slots -> [active : BOOLEAN, of : Requests \cup {None},
                          forward_xid : 0 .. XIDS - 1, time : Nat]]
  /\ lastxid \in 0 .. XIDS - 1 /\ rpcb_rmtcalls \in 0 .. NFORWARD
  /\ now \in Nat /\ served \in 0 .. MaxCalls
  /\ calls \subseteq [xid : 1 .. XIDS - 1, of : Requests, again : BOOLEAN]
  /\ \A c \in calls : c.of.netid \in ForwardNetids
  /\ inbox \in [ForwardNetids -> Seq([xid : 1 .. XIDS - 1, of : Requests, what : {"result", "error"}])]
  /\ poll \in [ready : SUBSET Order, found : Nat, pending : 0 .. NFORWARD]
  /\ \A k \in poll.ready : inbox[Forwarding[k]] /= <<>>

(* The count by which check_rmtcalls decides whether to look for answers   *)
(* is the number of slots in use, whatever freed them.                     *)
PendingCount == rpcb_rmtcalls = Cardinality(Active(FINFO))

(* What a caller is sent under its xid is the result of its own request,   *)
(* also when answers are late or duplicated and slots are reused.          *)
RightRequestor ==
  \A s \in sent : s.what = "result" => /\ s.of.addr = s.to /\ s.of.xid = s.xid
                                       /\ s.of.type = s.type

(* A transaction id is never zero, which handle_reply takes for none, and  *)
(* names its slot, also where the numbers wrap.                            *)
SlotEncoded ==
  \A i \in Active(FINFO) : FINFO[i].forward_xid /= 0 /\ FINFO[i].forward_xid % NFORWARD = i

(* A request that is retransmitted while the service works is forwarded    *)
(* once.                                                                   *)
ForwardedOnce ==
  \A i, j \in Active(FINFO) : i /= j => FINFO[i].of /= FINFO[j].of

(* Calls under way while answers are late, repeated or lost and any step   *)
(* fails: the count of pending calls is that of the slots in use, a        *)
(* request is forwarded once, an xid names its slot, and what a caller is  *)
(* sent is the answer to its own request (forward_register, handle_reply). *)
ForwardingSound == PendingCount /\ SlotEncoded /\ ForwardedOnce /\ RightRequestor

(* "send the reply to the original requestor" (rpcb_svc_com.c:604): a      *)
(* reply ends the wait for that reply, not for another one.                *)
ReplyEndsItsCall ==
  [][check_rmtcalls => \A i \in Active(FINFO) :
        FINFO'[i] /= FINFO[i] => \E k \in poll.ready :
           Head(inbox[Forwarding[k]]).xid = FINFO[i].forward_xid]_vars

(* "detect that the socket used was for forwarding ... and call            *)
(* handle_reply()" (rpcb_svc_com.c:594): no answer a caller waits for is   *)
(* read as a request.                                                      *)
AnswersAreHandled ==
  [][svc_getreq_poll => \A k \in poll.ready \ poll'.ready :
        forward_find(FINFO, Head(inbox[Forwarding[k]]).xid) = {}]_vars

(* "In the broadcast case, a machine should shut-up instead of complain"   *)
(* (rpcb_svc_com.c:572).                                                   *)
QuietOnBroadcast == \A s \in sent : s.type = "CALLIT" => s.what = "result"

(* The field indirect counts what came by INDIRECT: "whether callit or     *)
(* indirect" (rpcb_prot.x:293).                                            *)
IndirectCounted ==
  \A v \in 2 .. 4 : \A k \in 1 .. Len(rmtinfo[v]) :
     (\A r \in Requests : r.type /= "INDIRECT") => rmtinfo[v][k].indirect = 0

(* When services answer, and slots suffice, every request that was         *)
(* forwarded is answered.                                                  *)
Pending(r) == \E i \in Slots : FINFO[i].of = r
Result(r)  == \E s \in sent : s.what = "result" /\ s.of = r
Answered ==
  /\ \A r \in Requests : []<>~Pending(r)
  /\ [][\A r \in Requests : Pending(r) /\ ~Pending(r)' => Result(r)']_vars
=============================================================================
