-------------------------------- MODULE ClntVc -------------------------------
(***************************************************************************)
(* A client handle of a connection (clnt_vc.c): calls, batched calls,      *)
(* timeouts, refreshed credentials and clnt_control.  The lock of          *)
(* ClntFdLock lets one operation at a time in, so operations follow one    *)
(* another here.  Messages are whole records; XdrRec has the record        *)
(* stream.  The server and the connection are the environment.             *)
(***************************************************************************)
EXTENDS Integers, Sequences

CONSTANTS MaxCalls,    \* bound on the calls made
          FirstXid,    \* xid of the handle before its first call
          Waits,       \* timeouts, in ticks; 0 is a zero timeout
          SetXids,     \* xids a program sets with CLSET_XID
          Outcomes,    \* what the server answers
          MaxElapsed   \* bound on the clock of a call

(* What the constants must satisfy; whoever instantiates them assumes it.  *)
VcAssumption ==
  MaxCalls \in Nat /\ FirstXid \in Nat /\ Waits \subseteq Nat
    /\ SetXids \subseteq Nat /\ MaxElapsed \in Nat
    /\ Outcomes \subseteq {"SUCCESS", "AUTHERROR", "SYSTEMERROR", "garbage", "silent"}

NoCall == [id |-> 0, results |-> FALSE, timeout |-> 0]

VARIABLES
  xid,         \* ct_mcalli
  ct_wait, ct_waitset,
  cred,        \* "full", or "short": the shorthand of AUTH_SYS
  outbuf,      \* records the stream has not written yet
  to_server, to_client,   \* the connection
  pc, call,    \* the call under way
  x_id, refreshes, status, result,
  waited,      \* ticks of this read
  elapsed,     \* ticks of this call
  calls,       \* calls begun
  executed, erred   \* how often the server executed each call: erred counts the
                    \* executions for a shorthand that it answered by an error

conn == <<to_server, to_client>>
ct   == <<ct_wait, ct_waitset>>
done == <<executed, erred>>
vars == <<xid, ct, cred, outbuf, conn, pc, call, x_id, refreshes, status, result,
          waited, elapsed, calls, done>>

Init ==
  /\ xid = FirstXid
  /\ ct_wait = 1 /\ ct_waitset = FALSE
  /\ cred \in {"full", "short"}
  /\ outbuf = <<>> /\ to_server = <<>> /\ to_client = <<>>
  /\ pc = "idle" /\ call = NoCall /\ x_id = 0 /\ refreshes = 0
  /\ status = "SUCCESS" /\ result = 0 /\ waited = 0 /\ elapsed = 0
  /\ calls = 0 /\ executed = [c \in 1 .. MaxCalls |-> 0] /\ erred = executed

-----------------------------------------------------------------------------
(* clnt_vc_call.                                                           *)
Shipnow(c) == c.results \/ c.timeout /= 0

Call(results, timeout) ==
  /\ pc = "idle" /\ calls < MaxCalls
  /\ calls' = calls + 1
  /\ call' = [id |-> calls + 1, results |-> results, timeout |-> timeout]
  /\ ct_wait' = IF ct_waitset THEN ct_wait ELSE timeout
  /\ refreshes' = 2 /\ elapsed' = 0 /\ pc' = "send"
  /\ UNCHANGED <<xid, ct_waitset, cred, outbuf, conn, x_id, status, result,
                 waited, done>>

(* call_again: a new xid; the record is put, and sent unless it is         *)
(* batched.                                                                *)
Message == [xid |-> xid - 1, id |-> call.id, cred |-> cred]
Send ==
  /\ pc = "send" /\ xid' = xid - 1 /\ x_id' = xid - 1
  /\ \/ /\ ~Shipnow(call)
        /\ outbuf' = Append(outbuf, Message) /\ status' = "SUCCESS"
        /\ pc' = "idle" /\ UNCHANGED conn
     \/ /\ Shipnow(call)
        /\ to_server' = Append(to_server \o outbuf, Message) /\ outbuf' = <<>>
        /\ status' = IF call.timeout = 0 THEN "TIMEDOUT" ELSE "SUCCESS"
        /\ pc' = IF call.timeout = 0 THEN "idle" ELSE "read"
        /\ UNCHANGED to_client
  /\ waited' = 0
  /\ UNCHANGED <<ct, cred, call, refreshes, result, elapsed, calls, done>>

(* Encoding or writing fails.                                              *)
SendFails ==
  /\ pc = "send" /\ xid' = xid - 1 /\ x_id' = xid - 1
  /\ \/ status' = "CANTENCODEARGS" /\ to_server' = to_server \o outbuf
     \/ status' = "CANTSEND" /\ UNCHANGED to_server
  /\ outbuf' = <<>> /\ pc' = "idle"
  /\ UNCHANGED <<ct, cred, to_client, call, refreshes, result, waited, elapsed, calls, done>>

(* read_vc: wait for input as long as ct_wait; every read waits anew.      *)
Tick ==
  /\ pc = "read" /\ to_client = <<>> /\ waited < ct_wait
  /\ waited' = waited + 1 /\ elapsed' = IF elapsed < MaxElapsed THEN elapsed + 1 ELSE elapsed
  /\ UNCHANGED <<xid, ct, cred, outbuf, conn, pc, call, x_id, refreshes, status, result,
                 calls, done>>
timeout_rewaits ==
  /\ pc = "read" /\ to_client = <<>> /\ waited >= ct_wait
  /\ waited' = 0
  /\ UNCHANGED <<xid, ct, cred, outbuf, conn, pc, call, x_id, refreshes, status, result,
                 elapsed, calls, done>>
ReadTimeout ==
  /\ pc = "read" /\ to_client = <<>> /\ waited >= ct_wait
  /\ status' = "TIMEDOUT" /\ pc' = "idle"
  /\ UNCHANGED <<xid, ct, cred, outbuf, conn, call, x_id, refreshes, result, waited, elapsed,
                 calls, done>>
ReadFails ==
  /\ pc = "read" /\ to_client = <<>> /\ status' = "CANTRECV" /\ pc' = "idle"
  /\ UNCHANGED <<xid, ct, cred, outbuf, conn, call, x_id, refreshes, result, waited, elapsed,
                 calls, done>>

(* "Keep receiving until we get a valid transaction id": what is not a     *)
(* reply, or not ours, is dropped.                                         *)
read_any_xid ==
  /\ pc = "read" /\ to_client /= <<>>
  /\ to_client' = Tail(to_client) /\ waited' = 0
  /\ IF Head(to_client).kind = "garbage"
     THEN UNCHANGED <<pc, result, status>>
     ELSE /\ pc' = "reply" /\ result' = Head(to_client).id
          /\ status' = Head(to_client).kind
  /\ UNCHANGED <<xid, ct, cred, outbuf, to_server, call, x_id, refreshes, elapsed, calls,
                 done>>
ReadReply ==
  /\ pc = "read" /\ to_client /= <<>>
  /\ to_client' = Tail(to_client) /\ waited' = 0
  /\ IF Head(to_client).kind = "garbage" \/ Head(to_client).xid /= x_id
     THEN UNCHANGED <<pc, result, status>>
     ELSE /\ pc' = "reply" /\ result' = Head(to_client).id
          /\ status' = Head(to_client).kind
  /\ UNCHANGED <<xid, ct, cred, outbuf, to_server, call, x_id, refreshes, elapsed, calls,
                 done>>

(* Process the header: validate and decode the results, and AUTH_SYS keeps *)
(* the shorthand the verifier may give, or drops the one it has when that  *)
(* cannot be decoded; or refresh the credential and repeat the call.       *)
(* authunix_refresh goes back from the shorthand to the full credential,   *)
(* whatever the error.                                                     *)
ReplySuccess ==
  /\ pc = "reply" /\ status = "SUCCESS" /\ pc' = "idle"
  /\ \/ UNCHANGED <<status, cred>>
     \/ cred' \in {"full", "short"} /\ UNCHANGED status
     \/ status' \in {"AUTHERROR", "CANTDECODERES"} /\ UNCHANGED cred
  /\ UNCHANGED <<xid, ct, outbuf, conn, call, x_id, refreshes, result, waited, elapsed, calls,
                 done>>
Refreshable == refreshes /= 0 /\ cred = "short"
ReplyError ==
  /\ pc = "reply" /\ status /= "SUCCESS"
  /\ refreshes' = refreshes - 1
  /\ IF Refreshable THEN cred' = "full" /\ pc' = "send" ELSE pc' = "idle" /\ UNCHANGED cred
  /\ UNCHANGED <<xid, ct, outbuf, conn, call, x_id, status, result, waited, elapsed, calls,
                 done>>

-----------------------------------------------------------------------------
(* clnt_vc_control, between calls.  A program that sets xids sets ones the *)
(* handle has not used.                                                    *)
Control ==
  /\ pc = "idle"
  /\ \/ \E w \in Waits : ct_wait' = w /\ ct_waitset' = TRUE /\ UNCHANGED xid
     \/ \E x \in SetXids : x < xid /\ xid' = x + 1 /\ UNCHANGED ct
  /\ UNCHANGED <<cred, outbuf, conn, pc, call, x_id, refreshes, status, result, waited,
                 elapsed, calls, done>>

-----------------------------------------------------------------------------
(* The server takes calls in order and answers, late or never.  AUTHERROR  *)
(* stands for the errors answered before the call is executed, SYSTEMERROR *)
(* for those the executed routine answers.                                 *)
Serve(o) ==
  /\ to_server /= <<>> /\ o \in Outcomes
  /\ LET m == Head(to_server)
         error == o = "SYSTEMERROR" /\ m.cred = "short" IN
       /\ executed' = IF o = "AUTHERROR" \/ error THEN executed
                      ELSE [executed EXCEPT ![m.id] = @ + 1]
       /\ erred' = IF error THEN [erred EXCEPT ![m.id] = @ + 1] ELSE erred
       /\ to_client' = IF o = "silent" THEN to_client
                       ELSE Append(to_client, [xid |-> m.xid, id |-> m.id, kind |-> o])
  /\ to_server' = Tail(to_server)
  /\ UNCHANGED <<xid, ct, cred, outbuf, pc, call, x_id, refreshes, status, result, waited,
                 elapsed, calls>>

Client == Send \/ Tick \/ ReadTimeout \/ ReadReply \/ ReplySuccess \/ ReplyError

Next ==
  \/ Client \/ SendFails \/ ReadFails \/ Control \/ \E o \in Outcomes : Serve(o)
  \/ \E r \in BOOLEAN, w \in Waits : Call(r, w)

Spec == Init /\ [][Next]_vars
(* The caller's thread runs and its clock goes on.                         *)
FairSpec == Spec /\ WF_vars(Client)

-----------------------------------------------------------------------------
(* Types; replies and requests are of calls that were made.                *)
TypeOK ==
  /\ xid \in Int /\ ct_wait \in Waits \cup {1} /\ ct_waitset \in BOOLEAN
  /\ cred \in {"full", "short"} /\ refreshes \in -1 .. 2
  /\ pc \in {"idle", "send", "read", "reply"}
  /\ \A k \in 1 .. Len(to_server) : to_server[k].id \in 1 .. calls
  /\ \A k \in 1 .. Len(to_client) : to_client[k].id \in 1 .. calls

(* A call that succeeds has the results of this call, and not of one that  *)
(* timed out before and was answered late, or was batched.                 *)
OwnReply == pc = "reply" => result = call.id

(* Calls are batched in order: once a call was sent, no earlier one waits  *)
(* in the buffer.                                                          *)
BatchShipped ==
  [][ to_server' /= to_server /\ Len(to_server') > Len(to_server) => outbuf' = <<>> ]_vars

(* A call is executed once at most, for over a connection there is nothing *)
(* to retransmit.  The exception is a call under the shorthand that was    *)
(* executed and answered by an error: clnt_vc_call takes every error for a *)
(* refused credential, goes back to the full one and sends it again, once. *)
ExecutedOnce == \A c \in 1 .. MaxCalls : executed[c] <= 1 /\ erred[c] <= 1

(* Replies of this call, and no call executed again but after an error.    *)
ConnectedCallOnce == TypeOK /\ OwnReply /\ ExecutedOnce

(* Every call returns: timeouts end the waiting, and refreshes end.        *)
CallReturns == []<>(pc = "idle")

(* "if you set the timeout using clnt_control(), the timeout argument      *)
(* passed by clnt_call() is ignored in all subsequent calls"               *)
(* (rpc_clnt_create.3t:89): such a call does not time out unwaited.        *)
ArgumentIgnored ==
  [][ pc = "send" /\ pc' = "idle" /\ status' = "TIMEDOUT" => ~ct_waitset ]_vars

(* CLSET_TIMEOUT: "set total timeout" (rpc_clnt_create.3t:85).             *)
TotalTimeout == pc = "read" => elapsed <= ct_wait
=============================================================================
