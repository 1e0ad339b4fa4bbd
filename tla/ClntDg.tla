-------------------------------- MODULE ClntDg -------------------------------
(***************************************************************************)
(* A client handle on datagrams (clnt_dg.c): calls with retransmission,    *)
(* the total and the retry timeout, refreshed credentials, clnt_control.   *)
(* req is every request ever sent and rep every reply: the network loses,  *)
(* repeats and reorders both.  Who answers is not said here; SvcDg does.   *)
(* One call at a time, as ClntFdLock shows.  Synchronous handles only.     *)
(***************************************************************************)
EXTENDS Integers, Sequences

CONSTANTS MaxCalls,    \* bound on the calls made
          FirstXid,
          Client,      \* the client's address
          Totals,      \* total timeouts in ticks
          Retries,     \* retry timeouts
          MaxQueue     \* bound on the datagrams waiting in the client's socket

ASSUME DgAssumption == MaxCalls \in Nat /\ FirstXid \in Nat /\ MaxQueue \in Nat
                         /\ Totals \subseteq Nat /\ Retries \subseteq Nat
Unset == -1

VARIABLES
  xid,                    \* first word of cu_outbuf
  cu_total, cu_wait,
  inbuf,                  \* xid in cu_inbuf: the last datagram received
  cred, nrefreshes,
  req, rep,               \* the network
  inq,                    \* the client's socket
  pc, calls, timeout,     \* the call under way: its number and its timeout
  total_time, tv, slept,
  elapsed, last,          \* ticks since the call began, at the last sending
  status, result

cu   == <<cu_total, cu_wait>>
net  == <<req, rep, inq>>
time == <<total_time, tv, slept, elapsed, last>>
clnt == <<xid, cu, inbuf, cred, nrefreshes, inq, pc, calls, timeout, time, status, result>>

NoDatagram == [xid |-> 0, client |-> Client, id |-> 0, kind |-> "none"]

ClntInit ==
  /\ xid = FirstXid /\ cu_total = Unset /\ cu_wait \in Retries /\ inbuf = NoDatagram
  /\ cred \in {"full", "short"} /\ nrefreshes = 0 /\ inq = <<>>
  /\ pc = "idle" /\ calls = 0 /\ timeout = 0
  /\ total_time = 0 /\ tv = 0 /\ slept = 0 /\ elapsed = 0 /\ last = 0
  /\ status = "SUCCESS" /\ result = 0

-----------------------------------------------------------------------------
(* clnt_dg_call.                                                           *)
Call(t) ==
  /\ pc = "idle" /\ calls < MaxCalls /\ calls' = calls + 1
  /\ timeout' = IF cu_total = Unset THEN t ELSE cu_total
  /\ total_time' = timeout'
  /\ nrefreshes' = 2 /\ elapsed' = 0 /\ last' = 0 /\ tv' = 0 /\ slept' = 0
  /\ pc' = "encode"
  /\ UNCHANGED <<xid, cu, inbuf, cred, net, status, result>>

(* call_again: a new xid; a zero timeout ends the call here.               *)
Encode ==
  /\ pc = "encode" /\ xid' = xid + 1
  /\ \/ timeout = 0 /\ status' = "TIMEDOUT" /\ pc' = "idle"
     \/ timeout /= 0 /\ pc' = "send" /\ UNCHANGED status
     \/ status' = "CANTENCODEARGS" /\ pc' = "idle"
  /\ UNCHANGED <<cu, inbuf, cred, nrefreshes, net, calls, timeout, time, result>>

(* send_again, and the poll for the shorter of what is left and the retry  *)
(* timeout.                                                                *)
Request == [xid |-> xid, client |-> Client, proc |-> 1, id |-> calls, cred |-> cred]
SendExpired ==
  /\ pc = "send" /\ total_time <= 0
  /\ status' = "TIMEDOUT" /\ pc' = "idle"
  /\ UNCHANGED <<xid, cu, inbuf, cred, nrefreshes, net, calls, timeout, time, result>>
Send ==
  /\ pc = "send" /\ total_time > 0
  /\ \/ /\ req' = req \cup {Request}
        /\ tv' = IF total_time < cu_wait THEN total_time ELSE cu_wait
        /\ slept' = 0 /\ last' = elapsed /\ pc' = "poll" /\ UNCHANGED status
     \/ status' = "CANTSEND" /\ pc' = "idle" /\ UNCHANGED <<req, tv, slept, last>>
  /\ UNCHANGED <<xid, cu, inbuf, cred, nrefreshes, rep, inq, calls, timeout, total_time,
                 elapsed, result>>

Tick ==
  /\ pc = "poll" /\ inq = <<>> /\ slept < tv
  /\ slept' = slept + 1 /\ elapsed' = elapsed + 1
  /\ UNCHANGED <<xid, cu, inbuf, cred, nrefreshes, net, pc, calls, timeout, total_time, tv,
                 last, status, result>>
timeout_rewaits ==
  /\ pc = "poll" /\ inq = <<>> /\ slept >= tv /\ pc' = "poll"
  /\ UNCHANGED <<xid, cu, inbuf, cred, nrefreshes, net, calls, timeout, time, status, result>>
PollTimeout ==
  /\ pc = "poll" /\ inq = <<>> /\ slept >= tv
  /\ total_time' = total_time - tv /\ pc' = "send"
  /\ UNCHANGED <<xid, cu, inbuf, cred, nrefreshes, net, calls, timeout, tv, slept,
                 elapsed, last, status, result>>

(* A datagram; or the kernel reports one that is then not there (a bad     *)
(* checksum, an error of another request): recvfrom fails with EWOULDBLOCK,*)
(* which the unsigned comparison with the length of an xid takes for a     *)
(* datagram, and cu_inbuf still has the previous one.                      *)
PollInput ==
  /\ pc = "poll" /\ inq /= <<>>
  /\ inbuf' = Head(inq) /\ inq' = Tail(inq) /\ pc' = "recv"
  /\ UNCHANGED <<xid, cu, cred, nrefreshes, req, rep, calls, timeout, time, status, result>>
PollNothing ==
  /\ pc = "poll" /\ inq = <<>> /\ pc' = "recv"
  /\ UNCHANGED <<xid, cu, inbuf, cred, nrefreshes, net, calls, timeout, time, status, result>>

(* IP_RECVERR: an error of this very request, or of the socket.            *)
PollError ==
  /\ pc = "poll" /\ status' = "CANTRECV" /\ pc' = "idle"
  /\ UNCHANGED <<xid, cu, inbuf, cred, nrefreshes, net, calls, timeout, time, result>>

(* Another transaction: send again, as if the whole interval had passed.   *)
RecvOther ==
  /\ pc = "recv" /\ inbuf.xid /= xid
  /\ total_time' = total_time - tv /\ pc' = "send"
  /\ UNCHANGED <<xid, cu, inbuf, cred, nrefreshes, net, calls, timeout, tv, slept,
                 elapsed, last, status, result>>

(* Ours: decode and validate, or refresh the credential and call again.    *)
RecvSuccess ==
  /\ pc = "recv" /\ inbuf.xid = xid /\ inbuf.kind = "SUCCESS"
  /\ result' = inbuf.id /\ pc' = "idle"
  /\ \/ status' = "SUCCESS" /\ cred' \in {cred, "short"}
     \/ status' = "CANTDECODERES" /\ UNCHANGED cred
  /\ UNCHANGED <<xid, cu, inbuf, nrefreshes, net, calls, timeout, time>>
error_is_success ==
  /\ pc = "recv" /\ inbuf.xid = xid /\ inbuf.kind /= "SUCCESS"
  /\ result' = inbuf.id /\ status' = "SUCCESS" /\ pc' = "idle"
  /\ UNCHANGED <<xid, cu, inbuf, cred, nrefreshes, net, calls, timeout, time>>
RecvError ==
  /\ pc = "recv" /\ inbuf.xid = xid /\ inbuf.kind /= "SUCCESS"
  /\ result' = inbuf.id /\ status' = inbuf.kind
  /\ IF inbuf.kind = "AUTHERROR" /\ nrefreshes > 0 /\ cred = "short"
     THEN cred' = "full" /\ nrefreshes' = nrefreshes - 1 /\ pc' = "encode"
     ELSE pc' = "idle" /\ UNCHANGED <<cred, nrefreshes>>
  /\ UNCHANGED <<xid, cu, inbuf, net, calls, timeout, time>>

(* clnt_dg_control: the timeouts.  A caller that sets the xid, and so may  *)
(* use one twice, is left out.                                             *)
Control ==
  /\ pc = "idle"
  /\ \/ cu_total' \in Totals /\ UNCHANGED cu_wait
     \/ cu_wait' \in Retries /\ UNCHANGED cu_total
  /\ UNCHANGED <<xid, inbuf, cred, nrefreshes, net, pc, calls, timeout, time, status, result>>

(* The network hands the client any reply, again or out of order.          *)
Deliver ==
  /\ Len(inq) < MaxQueue /\ \E m \in rep : m.client = Client /\ inq' = Append(inq, m)
  /\ UNCHANGED <<xid, cu, inbuf, cred, nrefreshes, req, rep, pc, calls, timeout, time, status,
                 result>>

ClntStep == Encode \/ SendExpired \/ Send \/ Tick \/ PollTimeout \/ PollInput \/ RecvOther
              \/ RecvSuccess \/ RecvError
ClntNext == ClntStep \/ PollNothing \/ PollError \/ Control \/ Deliver
              \/ \E t \in Totals : Call(t)

-----------------------------------------------------------------------------
(* A server that answers anything it was asked, or not at all.             *)
Outcomes == {"SUCCESS", "AUTHERROR", "SYSTEMERROR"}
Answer ==
  /\ \E m \in req, o \in Outcomes :
       /\ o = "AUTHERROR" => m.cred = "short"
       /\ \A r \in rep : r.xid /= m.xid
       /\ rep' = rep \cup {[xid |-> m.xid, client |-> m.client, id |-> m.id, kind |-> o]}
  /\ UNCHANGED <<clnt, req>>

vars == <<clnt, req, rep>>
Init == ClntInit /\ req = {} /\ rep = {}
Next == ClntNext \/ Answer
Spec == Init /\ [][Next]_vars
(* The caller's thread runs and its clock goes on.                         *)
FairSpec == Spec /\ WF_vars(ClntStep)

-----------------------------------------------------------------------------
(* Types; the time left does not go below zero, since no interval is       *)
(* longer than it.                                                         *)
TypeOK ==
  /\ total_time \in 0 .. timeout
  /\ slept \in 0 .. tv /\ last <= elapsed
  /\ nrefreshes \in 0 .. 2 /\ Len(inq) <= MaxQueue
  /\ \A m \in req : m.id \in 1 .. calls /\ m.xid \in FirstXid .. xid

(* A call that succeeds has its own results, whatever late and repeated    *)
(* replies arrive, and whatever cu_inbuf still holds.                      *)
OwnReply == [][ pc = "recv" /\ pc' \in {"idle", "encode"} => result' = calls ]_vars

(* Every call returns, although every foreign datagram makes it start a    *)
(* new interval: each takes time off the total.                            *)
CallReturns == []<>(pc = "idle")

(* "set total timeout" (rpc_clnt_create.3t:85): a call does not time out   *)
(* before that time has passed.                                            *)
TimesOutLate ==
  [][ pc = "send" /\ pc' = "idle" /\ status' = "TIMEDOUT" => elapsed >= timeout ]_vars

(* "The retry timeout is the time that RPC waits for the server to reply   *)
(* before retransmitting the request" (rpc_clnt_create.3t:120).            *)
RetryInterval ==
  [][ pc = "send" /\ pc' = "poll" /\ Request \in req => elapsed - last >= cu_wait ]_vars

(* "Hack to provide rpc-based message passing" (clnt_dg.c:370), and "Set   *)
(* the timeout argument to 0 for batching calls" (rpc_clnt_create.3t:101): *)
(* a call with a zero timeout is sent.                                     *)
ZeroTimeoutSent ==
  [][ pc = "encode" /\ pc' = "idle" /\ status' = "TIMEDOUT" =>
        \E m \in req' : m.id = calls ]_vars
=============================================================================
