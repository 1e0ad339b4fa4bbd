------------------------------ MODULE ClntBcast ------------------------------
(***************************************************************************)
(* Broadcast RPC (clnt_bcast.c): the call goes to every interface of every *)
(* datagram transport, by the rpcbind protocol and for UDP by portmap's    *)
(* too, in rounds whose wait doubles; replies are given to the caller's    *)
(* eachresult until it is content.  Datagrams are lost, delayed, come more *)
(* than once, and strangers send to the socket.  A host is a number; the   *)
(* port of its service is the host's number, 0 is no port.                 *)
(***************************************************************************)
EXTENDS Integers, Sequences, FiniteSets

CONSTANTS
  Transports,    \* sequence of [clts, v4, udp, ifs, dsize]
  MAXBCAST,
  OutLen,        \* length of the encoded call
  Inittime, Waittime,
  Hosts,
  Answers,       \* kinds of datagrams that arrive: see Arrive
  HasResult,     \* whether there is an eachresult: a set of Booleans
  Failures,      \* "socket", "send", "poll", "recv", "nval": what may fail
  MaxAnswers     \* bound on the datagrams that arrive

(* What the constants must satisfy; whoever instantiates them assumes it.  *)
(* An initial time of 0, which never grows, is left out: such a call sends *)
(* for ever.                                                               *)
BcastAssumption ==
  /\ Inittime \in Nat \ {0} /\ Waittime \in Nat /\ MAXBCAST \in Nat \ {0}
  /\ HasResult \subseteq BOOLEAN

VARIABLES
  pc, k, fdlist, stat, msec,
  pfd,           \* descriptors poll looks at
  queue,         \* datagrams waiting on each descriptor
  ready,         \* descriptors found by poll, not yet looked at
  given,         \* the last result given to eachresult
  content,       \* whether eachresult returned TRUE
  waited,        \* whether the last poll of the round timed out
  rounds,        \* rounds sent
  arrived,
  __rpc_lowvers, eachresult

param == <<__rpc_lowvers, eachresult>>
vars == <<pc, k, fdlist, stat, msec, pfd, queue, ready, given, content, waited, rounds, arrived, param>>
net  == <<queue, arrived>>
NoResult == [host |-> 0, port |-> 0]

Init ==
  /\ pc = "setup" /\ k = 1 /\ fdlist = <<>> /\ stat = "RPC_SUCCESS" /\ msec = Inittime
  /\ pfd = {} /\ queue = <<>> /\ ready = {} /\ given = NoResult /\ content = FALSE
  /\ waited = TRUE /\ rounds = 0 /\ arrived = 0 /\ __rpc_lowvers \in {0, 1} /\ eachresult \in HasResult

-----------------------------------------------------------------------------
(* A transport is taken if it is one of datagrams, has a slot, a broadcast *)
(* interface (__rpc_getbroadifs) and a socket.                             *)
__rpc_getbroadifs(t) == t.ifs
usable(t) == t.clts /\ __rpc_getbroadifs(t) > 0
setup ==
  /\ pc = "setup" /\ k <= Len(Transports) /\ (Transports[k].clts => Len(fdlist) < MAXBCAST)
  /\ k' = k + 1
  /\ \/ /\ usable(Transports[k])
        /\ fdlist' = Append(fdlist, Transports[k]) /\ queue' = Append(queue, <<>>)
        /\ pfd' = pfd \cup {Len(fdlist) + 1} /\ UNCHANGED stat
     \/ /\ usable(Transports[k]) /\ "socket" \in Failures /\ stat' = "RPC_CANTSEND"
        /\ UNCHANGED <<fdlist, queue, pfd>>
     \/ /\ ~usable(Transports[k]) /\ UNCHANGED <<fdlist, queue, pfd, stat>>
  /\ UNCHANGED <<pc, msec, ready, given, content, waited, rounds, arrived, param>>

pmap_flag == \E i \in 1 .. Len(fdlist) : fdlist[i].v4 /\ fdlist[i].udp
(* The calls must fit the largest buffer, the portmap call that of UDP.    *)
encodes ==
  /\ \E i \in 1 .. Len(fdlist) : OutLen <= fdlist[i].dsize
  /\ pmap_flag => \E i \in 1 .. Len(fdlist) : fdlist[i].v4 /\ fdlist[i].udp /\ OutLen <= fdlist[i].dsize
encode ==
  /\ pc = "setup" /\ IF k > Len(Transports) THEN TRUE ELSE Transports[k].clts /\ Len(fdlist) >= MAXBCAST
  /\ \/ /\ fdlist = <<>> /\ pc' = "done"
        /\ stat' = IF stat = "RPC_SUCCESS" THEN "RPC_UNKNOWNPROTO" ELSE stat
     \/ /\ fdlist /= <<>> /\ ~encodes /\ pc' = "done" /\ stat' = "RPC_CANTENCODEARGS"
     \/ /\ fdlist /= <<>> /\ encodes /\ pc' = "send" /\ UNCHANGED stat
  /\ UNCHANGED <<k, fdlist, msec, pfd, net, ready, given, content, waited, rounds, param>>

-----------------------------------------------------------------------------
(* A round: the packets, then replies until poll times out.                *)
send_round ==
  /\ pc = "send" /\ msec <= Waittime /\ rounds' = rounds + 1
  /\ \/ /\ (\A i \in 1 .. Len(fdlist) : fdlist[i].dsize >= OutLen) /\ UNCHANGED stat
     \/ /\ (\E i \in 1 .. Len(fdlist) : fdlist[i].dsize < OutLen) \/ "send" \in Failures
        /\ stat' = "RPC_CANTSEND"
  /\ pc' = IF eachresult THEN "poll" ELSE "nowait"
  /\ UNCHANGED <<k, fdlist, msec, pfd, net, ready, given, content, waited, param>>
nowait ==
  /\ pc = "nowait" /\ pc' = "done" /\ stat' = "RPC_SUCCESS"
  /\ UNCHANGED <<k, fdlist, msec, pfd, net, ready, given, content, waited, rounds, param>>
rounds_over ==
  /\ pc = "send" /\ msec > Waittime /\ pc' = "done"
  /\ UNCHANGED <<k, fdlist, stat, msec, pfd, net, ready, given, content, waited, rounds, param>>

(* The round ends: the wait doubles.                                       *)
next_round(t) == pc' = "send" /\ msec' = msec + msec /\ waited' = t
poll_timeout ==
  /\ pc = "poll" /\ stat' = "RPC_TIMEDOUT" /\ next_round(TRUE)
  /\ UNCHANGED <<k, fdlist, pfd, net, ready, given, content, rounds, param>>
polled == {i \in pfd : queue[i] /= <<>>}
poll ==
  /\ pc = "poll" /\ polled /= {}
  /\ pc' = "recv" /\ ready' = polled
  /\ UNCHANGED <<k, fdlist, stat, msec, pfd, net, given, content, waited, rounds, param>>
poll_nval ==       \* a descriptor went bad
  /\ pc = "poll" /\ "nval" \in Failures /\ pfd /= {}
  /\ \E i \in pfd : pfd' = pfd \ {i} /\ ready' = polled \ {i}
  /\ pc' = "recv"
  /\ UNCHANGED <<k, fdlist, stat, msec, net, given, content, waited, rounds, param>>

(* An error of poll is ignored, and poll called again, also when the error *)
(* is one that lasts.                                                      *)
poll_fails ==
  /\ pc = "poll" /\ "poll" \in Failures /\ pc' = "poll_failed"
  /\ UNCHANGED <<k, fdlist, stat, msec, pfd, net, ready, given, content, waited, rounds, param>>
recv_again ==
  /\ pc = "poll_failed" /\ pc' = "poll"
  /\ UNCHANGED <<k, fdlist, stat, msec, pfd, net, ready, given, content, waited, rounds, param>>

First(I) == CHOOSE i \in I : \A j \in I : i <= j
i0 == First(ready)
take == queue' = [queue EXCEPT ![i0] = Tail(@)]

(* A datagram that is no reply to this call is dropped, and the next       *)
(* descriptor looked at.                                                   *)
dropped(m) == m.kind \in {"short", "stray"} \/ (m.kind = "pmap" /\ ~pmap_flag)
recv_dropped ==
  /\ pc = "recv" /\ ready /= {} /\ dropped(Head(queue[i0])) /\ take /\ ready' = ready \ {i0}
  /\ UNCHANGED <<pc, k, fdlist, stat, msec, pfd, given, content, waited, rounds, arrived, param>>
recv_fails ==
  /\ pc = "recv" /\ ready /= {} /\ "recv" \in Failures /\ take /\ ready' = ready \ {i0}
  /\ stat' = "RPC_CANTRECV"
  /\ UNCHANGED <<pc, k, fdlist, msec, pfd, given, content, waited, rounds, arrived, param>>
recv_over ==
  /\ pc = "recv" /\ ready = {} /\ next_round(FALSE)
  /\ UNCHANGED <<k, fdlist, stat, pfd, net, ready, given, content, rounds, param>>

(* The address for eachresult: a portmap's host with the port it returned, *)
(* the universal address of rpcbind, or that of an IPv6 one put right by   *)
(* __ipv6v4_fixup, which reads the port from the netbuf, where it finds 0. *)
__ipv6v4_fixup(i, m) == IF fdlist[i].v4 /\ m.uaddr = "v6" THEN {[host |-> m.host, port |-> 0]} ELSE {}
uaddr2taddr(i, m) ==
  IF (m.uaddr = "v4" /\ fdlist[i].v4) \/ (m.uaddr = "v6" /\ ~fdlist[i].v4) THEN {[host |-> m.host, port |-> m.host]} ELSE {}
address_raw(i, m) == {[host |-> m.host, port |-> IF m.kind = "pmap" THEN 0 ELSE m.host]}
address(i, m) ==
  IF m.kind = "pmap" THEN {[host |-> m.host, port |-> m.host]}
  ELSE IF uaddr2taddr(i, m) /= {} THEN uaddr2taddr(i, m)
  ELSE __ipv6v4_fixup(i, m)
(* A reply; an error of the remote procedure is ignored.  Then the wait    *)
(* begins again.                                                           *)
again == "poll"       \* goto recv_again
recv_reply ==
  /\ pc = "recv" /\ ready /= {} /\ ~dropped(Head(queue[i0]))
  /\ take /\ ready' = {}
  /\ LET m == Head(queue[i0])
         A == IF m.kind = "error" THEN {} ELSE address(i0, m)
     IN \/ /\ A = {} /\ pc' = again /\ UNCHANGED <<stat, given, content>>
        \/ /\ A /= {} /\ given' \in A /\ pc' = again /\ UNCHANGED <<stat, content>>
        \/ /\ A /= {} /\ given' \in A /\ pc' = "done" /\ stat' = "RPC_SUCCESS" /\ content' = TRUE
  /\ UNCHANGED <<k, fdlist, msec, pfd, waited, rounds, arrived, param>>

(* done_broad: descriptors, buffers, the handles are released.             *)
done_broad ==
  /\ pc = "done" /\ pc' = "returned" /\ fdlist' = <<>> /\ queue' = <<>> /\ pfd' = {}
  /\ UNCHANGED <<k, stat, msec, ready, given, content, waited, rounds, arrived, param>>

-----------------------------------------------------------------------------
(* A host's rpcbind answers on the transport, or its portmap, or a         *)
(* stranger sends.                                                         *)
Arrive ==
  /\ pc \in {"send", "poll", "poll_failed", "recv"} /\ rounds > 0 /\ arrived < MaxAnswers /\ arrived' = arrived + 1
  /\ \E i \in 1 .. Len(fdlist), m \in Answers \X Hosts :
       /\ m[1].kind \in {"rpcb", "error"} => __rpc_lowvers = 0
       /\ m[1].kind = "pmap" => pmap_flag /\ fdlist[i].udp
       /\ queue' = [queue EXCEPT ![i] = Append(@, [kind |-> m[1].kind, uaddr |-> m[1].uaddr, host |-> m[2]])]
  /\ UNCHANGED <<pc, k, fdlist, stat, msec, pfd, ready, given, content, waited, rounds, param>>

Step == \/ setup \/ encode \/ send_round \/ nowait \/ rounds_over
        \/ poll_timeout \/ poll \/ recv_dropped \/ recv_over \/ recv_reply \/ done_broad
(* Nothing says that an error of poll goes away: recv_again is not fair.   *)
Next == Step \/ poll_nval \/ poll_fails \/ recv_again \/ recv_fails \/ Arrive
Spec == Init /\ [][Next]_vars /\ WF_vars(Step)

-----------------------------------------------------------------------------
(* "addr points to the address of the machine that sent the results"       *)
(* (rpc_clnt_calls.3t:233), and the port is that of the service there.     *)
AddressOfService == given.port = given.host
(* "initial time that rpc_broadcast_exp waits before resending the request *)
(* " (rpc_clnt_calls.3t:265): each round waited until no reply came.       *)
WaitsBeforeResend == pc = "send" => waited
(* A call with an eachresult succeeds only when that returned TRUE; if it  *)
(* returns 0, the call "waits for more replies" (rpc_clnt_calls.3t:241).   *)
SuccessMeansContent == pc = "returned" /\ eachresult /\ stat = "RPC_SUCCESS" => content
(* A call returns once answers cease, whatever fails, unless poll fails    *)
(* again and again.                                                        *)
Returns == []<>(pc \in {"returned", "poll_failed"})
(* The rounds are those of a wait that doubles: with the defaults, two.    *)
Rounds == \A r \in 0 .. rounds - 1 : Inittime * (2^r) <= Waittime
(* A poll that timed out is what a call that got nothing reports.          *)
TimedOut == pc = "returned" /\ eachresult /\ waited /\ rounds > 0 /\ ~content => stat = "RPC_TIMEDOUT"
=============================================================================
